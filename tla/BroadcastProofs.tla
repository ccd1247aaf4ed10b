--------------------------- MODULE BroadcastProofs ---------------------------
(***************************************************************************)
(* Proofs about Broadcast, for any number of concurrent calls, any         *)
(* transactions, any size of the mempool and every combination of faults.  *)
(*                                                                         *)
(* The strengthening: who has subscribed finds its transaction in subs,    *)
(* and two calls never share a subscription (Subs); a transaction in the   *)
(* mempool that nobody else has heard of has an owner, a call that put it  *)
(* there and has not given it up in one of the known ways (Owned); the     *)
(* cache of the mempool holds nothing bad (Pool).                          *)
(***************************************************************************)
EXTENDS Broadcast, FiniteSetTheorems, TLAPS

\* A call replies once, at its end, and only BroadcastTxCommit subscribes.
Calls ==
    \A c \in Clients :
        /\ pc[c] \notin {"unsubscribe", "returned"} => reply[c] = "none"
        /\ pc[c] \in {"limits", "subscribe", "wait", "unsubscribe"} => Kind(c) = "commit"
        /\ pc[c] = "remove" => Kind(c) # "commit"

\* The mempool: nothing bad is cached.
Pool ==
    /\ IsFiniteSet(pool)
    /\ cache \cap Bad = {}

\* Between the mempool and the wait no event of the transaction is missed.
Delivered ==
    \A c \in Clients :
        /\ Kind(c) = "commit"
        /\ pc[c] \in {"accepted", "publish", "wait"}
        /\ Tx(c) \in published
        => Tx(c) \in delivered

Subs ==
    /\ \A c \in Clients : Subscribed(c) => Tx(c) \in subs
    /\ SubscriptionsOwned
    /\ Delivered

\* Call c has put its transaction into the mempool, and is to remove it if it
\* cannot gossip it, or is over in one of the three ways that do not.
Owner(c) ==
    \/ pc[c] \in {"accepted", "publish", "remove"}
    \/ Kind(c) = "check"
    \/ reply[c] = "context"
    \/ Kind(c) = "commit" /\ reply[c] = "gossip"

Owned ==
    \A t \in pool \ (gossiped \cup received) :
        \E c \in Clients : Tx(c) = t /\ Owner(c)

IndInv == TypeOK /\ Calls /\ Pool /\ Subs /\ Owned /\ RejectedStaysHome

-----------------------------------------------------------------------------
\* The parts of a call.
LEMMA CallTypes ==
    ASSUME TypeOK, NEW c \in Clients
    PROVE  Kind(c) \in Kinds /\ Tx(c) \in Txs
BY DEF TypeOK, Kind, Tx

\* The calls do not change their kind or their transaction.
LEMMA CallsFixed ==
    ASSUME UNCHANGED call
    PROVE  \A c \in Clients : Kind(c)' = Kind(c) /\ Tx(c)' = Tx(c)
BY DEF Kind, Tx

\* What the mempool's CheckTx does.
LEMMA CheckTxEffects ==
    ASSUME TypeOK, Pool, NEW t \in Txs, CheckTxEffect(t)
    PROVE  /\ CheckTxResult(t) \in {"full", "inCache", "rejected", "ok"}
           /\ pool' \subseteq Txs /\ cache' \subseteq Txs
           /\ size' = size
           /\ Cardinality(pool') <= size'
           /\ Pool'
           /\ pool' \subseteq pool \cup {t}
           /\ CheckTxResult(t) # "ok" => pool' = pool
           /\ CheckTxResult(t) = "ok" => t \notin Bad \cup committed
           /\ CheckTxResult(t) = "inCache" => t \notin Bad
<1>1. /\ CheckTxResult(t) \in {"full", "inCache", "rejected", "ok"}
      /\ CheckTxResult(t) = "ok" => ~ Full /\ t \notin Bad \cup committed
      /\ CheckTxResult(t) = "inCache" => t \in cache
      /\ CheckTxResult(t) = "full" => Full
  BY DEF CheckTxResult
<1>2. CASE CheckTxResult(t) # "ok"
  <2>1. pool' = pool /\ cache' = cache
    BY <1>2 DEF CheckTxEffect
  <2> QED
    BY <1>1, <1>2, <2>1 DEF TypeOK, Pool, CheckTxEffect
<1>3. CASE CheckTxResult(t) = "ok"
  <2>1. pool' = pool \cup {t} /\ cache' = cache \cup {t}
    BY <1>3 DEF CheckTxEffect
  <2>2. ~ Full /\ t \notin Bad \cup committed
    BY <1>1, <1>3
  <2>3. /\ IsFiniteSet(pool') /\ Cardinality(pool) \in Nat
        /\ Cardinality(pool') \in {Cardinality(pool), Cardinality(pool) + 1}
    BY <2>1, FS_AddElement, FS_CardinalityType DEF Pool
  <2>4. Cardinality(pool') <= size /\ size' = size
    BY <2>2, <2>3, BroadcastAssumption DEF Full, TypeOK, CheckTxEffect
  <2> QED
    BY <1>1, <1>3, <2>1, <2>2, <2>3, <2>4 DEF TypeOK, Pool
<1> QED
  BY <1>2, <1>3

\* Taking a transaction out of the mempool.
LEMMA RemoveFromPool ==
    ASSUME TypeOK, Pool, NEW t, pool' = pool \ {t}, size' = size,
           cache' \cap Bad = {}
    PROVE  Pool' /\ pool' \subseteq Txs /\ Cardinality(pool') <= size'
<1>1. /\ IsFiniteSet(pool') /\ Cardinality(pool) \in Nat
      /\ Cardinality(pool') \in {Cardinality(pool), Cardinality(pool) - 1}
      /\ Cardinality(pool') <= Cardinality(pool)
  BY FS_RemoveElement, FS_CardinalityType, FS_Subset DEF Pool
<1>2. Cardinality(pool') \in Nat
  BY <1>1, FS_CardinalityType
<1> QED
  BY <1>1, <1>2, BroadcastAssumption DEF TypeOK, Pool, Full

\* The start state satisfies the invariant.
LEMMA InitInv == Init => IndInv
<1> SUFFICES ASSUME Init PROVE IndInv
  OBVIOUS
<1>0. IsFiniteSet(pool) /\ Cardinality(pool) = 0
  BY FS_EmptySet DEF Init
<1>1. TypeOK
  BY <1>0, BroadcastAssumption DEF Init, TypeOK
<1>2. Calls /\ Owned /\ RejectedStaysHome
  BY DEF Init, Calls, Owned, RejectedStaysHome
<1>3. Pool
  BY <1>0 DEF Init, Pool
<1>4. Subs
  BY DEF Init, Subs, Subscribed, SubscriptionsOwned, Delivered
<1> QED
  BY <1>1, <1>2, <1>3, <1>4 DEF IndInv

-----------------------------------------------------------------------------
\* A step of call c that touches neither the mempool, the topic, the chain
\* nor the bus, and takes c from one step to another.
LEMMA QuietInv ==
    ASSUME IndInv, NEW c \in Clients,
           NEW l \in {"limits", "subscribe", "checkTx", "publish", "unsubscribe", "returned"},
           NEW r \in {"none", "limit", "notSubscribed", "context", "rejected",
                      "accepted", "committed", "busCancelled", "timeout"},
           pc' = [pc EXCEPT ![c] = l], reply' = [reply EXCEPT ![c] = r],
           UNCHANGED <<call, cancelled, mempool, bus, topic, chain>>,
           \* what the call may do
           l \notin {"unsubscribe", "returned"} => r = "none",
           l \in {"limits", "subscribe", "unsubscribe"} => Kind(c) = "commit",
           l = "checkTx" => Kind(c) # "commit",
           l = "publish" => pc[c] = "accepted",
           l = "unsubscribe" => Subscribed(c),
           Subscribed(c) => l \in {"publish", "unsubscribe"},
           pc[c] \notin {"publish", "remove", "unsubscribe", "returned"},
           pc[c] = "accepted" => l = "publish" \/ Kind(c) = "check" \/ r = "context"
    PROVE  IndInv'
<1> USE DEF IndInv, mempool, bus, topic, chain
<1>0. \A d \in Clients : Kind(d)' = Kind(d) /\ Tx(d)' = Tx(d)
  BY CallsFixed
<1>1. /\ \A d \in Clients \ {c} : pc'[d] = pc[d] /\ reply'[d] = reply[d]
      /\ pc'[c] = l /\ reply'[c] = r
  BY DEF TypeOK
<1>2. \A d \in Clients \ {c} : Subscribed(d)' <=> Subscribed(d)
  BY <1>0, <1>1 DEF Subscribed
<1>3. Subscribed(c)' <=> Subscribed(c)
  BY <1>0, <1>1 DEF Subscribed
<1>4. TypeOK'
  BY DEF TypeOK
<1>5. Calls'
  BY <1>0, <1>1 DEF Calls
<1>6. Pool'
  BY DEF Pool, Full
<1>7. Subs'
  <2>1. \A d \in Clients : Subscribed(d)' => Tx(d)' \in subs'
    BY <1>0, <1>2, <1>3 DEF Subs
  <2>2. SubscriptionsOwned'
    <3>1. ASSUME NEW t \in subs
          PROVE  \E d \in Clients : Tx(d)' = t /\ (Subscribed(d)' \/
                    (Kind(d)' = "commit" /\ d \in cancelled' /\ pc'[d] = "returned"))
      <4>1. PICK d \in Clients : Tx(d) = t /\ (Subscribed(d) \/
                    (Kind(d) = "commit" /\ d \in cancelled /\ pc[d] = "returned"))
        BY DEF Subs, SubscriptionsOwned
      <4> QED
        BY <1>0, <1>1, <1>2, <1>3, <4>1
    <3>2. \A d, e \in Clients :
             Subscribed(d)' /\ Subscribed(e)' /\ Tx(d)' = Tx(e)' => d = e
      BY <1>0, <1>2, <1>3 DEF Subs, SubscriptionsOwned
    <3> QED
      BY <3>1, <3>2 DEF SubscriptionsOwned
  <2>3. Delivered'
    BY <1>0, <1>1 DEF Subs, Delivered
  <2> QED
    BY <2>1, <2>2, <2>3 DEF Subs
<1>8. Owned'
  <2>1. \A d \in Clients : Owner(d) => Owner(d)'
    BY <1>0, <1>1 DEF Owner, Calls
  <2> QED
    BY <1>0, <2>1 DEF Owned
<1>9. RejectedStaysHome'
  BY <1>0, <1>1 DEF RejectedStaysHome
<1> QED
  BY <1>4, <1>5, <1>6, <1>7, <1>8, <1>9

\* A call that goes on keeps its empty reply.
LEMMA ReplyKept ==
    ASSUME IndInv, NEW c \in Clients, pc[c] \notin {"unsubscribe", "returned"},
           UNCHANGED reply
    PROVE  reply' = [reply EXCEPT ![c] = "none"]
BY DEF IndInv, TypeOK, Calls

\* A call begins.
LEMMA BeginInv == ASSUME IndInv, NEW c \in Clients, Begin(c) PROVE IndInv'
<1> DEFINE l == IF Kind(c) = "commit" THEN "limits" ELSE "checkTx"
<1>1. /\ pc[c] = "idle" /\ pc' = [pc EXCEPT ![c] = l] /\ UNCHANGED reply
      /\ UNCHANGED <<call, cancelled, mempool, bus, topic, chain>>
  BY DEF Begin, Goto
<1>2. reply' = [reply EXCEPT ![c] = "none"]
  BY <1>1, ReplyKept
<1>3. ~ Subscribed(c)
  BY <1>1 DEF Subscribed
<1> QED
  BY <1>1, <1>2, <1>3, QuietInv

\* A call is refused at the limits or goes on to subscribe.
LEMMA CheckLimitsInv == ASSUME IndInv, NEW c \in Clients, CheckLimits(c) PROVE IndInv'
<1>1. /\ pc[c] = "limits" /\ Kind(c) = "commit" /\ ~ Subscribed(c)
      /\ UNCHANGED <<call, cancelled, mempool, bus, topic, chain>>
  BY DEF CheckLimits, IndInv, Calls, Subscribed
<1>2. CASE ReturnUnsubscribed(c, "limit")
  BY <1>1, <1>2, QuietInv DEF ReturnUnsubscribed
<1>3. CASE Goto(c, "subscribe")
  <2>1. reply' = [reply EXCEPT ![c] = "none"]
    BY <1>1, <1>3, ReplyKept DEF Goto
  <2> QED
    BY <1>1, <1>3, <2>1, QuietInv DEF Goto
<1> QED
  BY <1>2, <1>3 DEF CheckLimits

\* Where a call that returns goes.
LEMMA ReturnTo ==
    ASSUME IndInv, NEW c \in Clients, NEW r, Return(c, r)
    PROVE  /\ reply' = [reply EXCEPT ![c] = r]
           /\ \/ pc' = [pc EXCEPT ![c] = "unsubscribe"] /\ Kind(c) = "commit"
              \/ pc' = [pc EXCEPT ![c] = "returned"] /\ Kind(c) # "commit"
BY DEF Return

\* A call returns what CheckTx said.
LEMMA ReturnResultInv == ASSUME IndInv, NEW c \in Clients, ReturnResult(c) PROVE IndInv'
<1>1. /\ pc[c] \in {"accepted", "rejected"} /\ (pc[c] = "accepted" => Kind(c) = "check")
      /\ Return(c, pc[c])
      /\ UNCHANGED <<call, cancelled, mempool, bus, topic, chain>>
  BY DEF ReturnResult
<1>2. Subscribed(c) <=> Kind(c) = "commit"
  BY <1>1 DEF Subscribed
<1> QED
  BY <1>1, <1>2, ReturnTo, QuietInv

\* A broadcasting call goes on with an accepted transaction, or gives up.
LEMMA TakeResultInv == ASSUME IndInv, NEW c \in Clients, TakeResult(c) PROVE IndInv'
<1>1. /\ pc[c] \in {"accepted", "rejected"}
      /\ UNCHANGED <<call, cancelled, mempool, bus, topic, chain>>
  BY DEF TakeResult
<1>2. Subscribed(c) <=> Kind(c) = "commit"
  BY <1>1 DEF Subscribed
<1>3. CASE Return(c, "context")
  BY <1>1, <1>2, <1>3, ReturnTo, QuietInv
<1>4. CASE pc[c] = "accepted" /\ Goto(c, "publish")
  <2>1. reply' = [reply EXCEPT ![c] = "none"]
    BY <1>1, <1>4, ReplyKept DEF Goto
  <2> QED
    BY <1>1, <1>2, <1>4, <2>1, QuietInv DEF Goto
<1> QED
  BY <1>3, <1>4 DEF TakeResult

\* A commit call ends with the event or without it.
LEMMA AwaitEventInv == ASSUME IndInv, NEW c \in Clients, AwaitEvent(c) PROVE IndInv'
<1>1. /\ pc[c] = "wait"
      /\ UNCHANGED <<call, cancelled, mempool, bus, topic, chain>>
  BY DEF AwaitEvent
<1>2. Subscribed(c) /\ Kind(c) = "commit"
  BY <1>1 DEF Subscribed, IndInv, Calls
<1>3. PICK r \in {"committed", "busCancelled", "timeout", "context"} : Return(c, r)
  BY DEF AwaitEvent
<1> QED
  BY <1>1, <1>2, <1>3, ReturnTo, QuietInv

\* Subscribe: a transaction that is subscribed to already is refused, so the
\* new subscription has one owner.
LEMMA SubscribeInv == ASSUME IndInv, NEW c \in Clients, Subscribe(c) PROVE IndInv'
<1>1. /\ pc[c] = "subscribe" /\ Kind(c) = "commit" /\ ~ Subscribed(c)
  BY DEF Subscribe, IndInv, Calls, Subscribed
<1>2. CASE ReturnUnsubscribed(c, "notSubscribed") /\ UNCHANGED subs
  BY <1>1, <1>2, QuietInv DEF ReturnUnsubscribed, Subscribe, bus
<1>3. CASE Tx(c) \notin subs /\ Goto(c, "checkTx") /\ subs' = subs \cup {Tx(c)}
  <2> USE DEF IndInv, mempool, topic, chain
  <2>0. /\ \A d \in Clients : Kind(d)' = Kind(d) /\ Tx(d)' = Tx(d)
        /\ UNCHANGED <<call, cancelled, delivered, mempool, topic, chain>>
    BY CallsFixed DEF Subscribe
  <2>1. /\ \A d \in Clients \ {c} : pc'[d] = pc[d]
        /\ pc'[c] = "checkTx" /\ reply' = reply
    BY <1>3 DEF TypeOK, Goto
  <2>2. \A d \in Clients : Subscribed(d)' <=> Subscribed(d) \/ d = c
    BY <1>1, <2>0, <2>1 DEF Subscribed
  <2>4. TypeOK'
    <3>1. Tx(c) \in Txs
      BY CallTypes
    <3> QED
      BY <1>3, <2>0, <3>1 DEF TypeOK, Goto
  <2>5. Calls' /\ Pool'
    BY <1>1, <2>0, <2>1 DEF Calls, Pool, Full
  <2>6. \A d \in Clients : Subscribed(d)' => Tx(d)' \in subs'
    BY <1>3, <2>0, <2>2 DEF Subs
  <2>7. SubscriptionsOwned'
    <3>1. ASSUME NEW t \in subs
          PROVE  \E d \in Clients : Tx(d)' = t /\ (Subscribed(d)' \/
                    (Kind(d)' = "commit" /\ d \in cancelled' /\ pc'[d] = "returned"))
      <4>1. PICK d \in Clients : Tx(d) = t /\ (Subscribed(d) \/
                    (Kind(d) = "commit" /\ d \in cancelled /\ pc[d] = "returned"))
        BY DEF Subs, SubscriptionsOwned
      <4> QED
        BY <1>1, <2>0, <2>1, <2>2, <4>1
    <3>2. \A d, e \in Clients :
             Subscribed(d)' /\ Subscribed(e)' /\ Tx(d)' = Tx(e)' => d = e
      BY <1>3, <2>0, <2>2 DEF Subs, SubscriptionsOwned
    <3> QED
      BY <1>3, <2>0, <2>2, <3>1, <3>2 DEF SubscriptionsOwned
  <2>8. Delivered'
    BY <2>0, <2>1 DEF Subs, Delivered
  <2>9. Owned'
    <3>1. \A d \in Clients : Owner(d) => Owner(d)'
      BY <1>1, <2>0, <2>1 DEF Owner
    <3> QED
      BY <2>0, <3>1 DEF Owned
  <2>10. RejectedStaysHome'
    BY <2>0, <2>1 DEF RejectedStaysHome
  <2> QED
    BY <2>4, <2>5, <2>6, <2>7, <2>8, <2>9, <2>10 DEF Subs
<1> QED
  BY <1>2, <1>3 DEF Subscribe

\* A step that moves call c from one subscribed step to another, or from one
\* step to another without a subscription, keeps the subscriptions owned.
LEMMA MoveSubs ==
    ASSUME IndInv, NEW c \in Clients, UNCHANGED <<call, subs>>,
           \A d \in Clients \ {c} : pc'[d] = pc[d],
           cancelled \subseteq cancelled',
           Subscribed(c)' <=> Subscribed(c), pc[c] # "returned"
    PROVE  /\ \A d \in Clients : Subscribed(d)' => Tx(d)' \in subs'
           /\ SubscriptionsOwned'
<1>0. \A d \in Clients : Kind(d)' = Kind(d) /\ Tx(d)' = Tx(d)
  BY CallsFixed
<1>1. \A d \in Clients : Subscribed(d)' <=> Subscribed(d)
  BY <1>0 DEF Subscribed
<1>2. \A d \in Clients : Subscribed(d)' => Tx(d)' \in subs'
  BY <1>0, <1>1 DEF IndInv, Subs
<1>3. ASSUME NEW t \in subs
      PROVE  \E d \in Clients : Tx(d)' = t /\ (Subscribed(d)' \/
                (Kind(d)' = "commit" /\ d \in cancelled' /\ pc'[d] = "returned"))
  <2>1. PICK d \in Clients : Tx(d) = t /\ (Subscribed(d) \/
                (Kind(d) = "commit" /\ d \in cancelled /\ pc[d] = "returned"))
    BY DEF IndInv, Subs, SubscriptionsOwned
  <2> QED
    BY <1>0, <1>1, <2>1
<1>4. \A d, e \in Clients :
         Subscribed(d)' /\ Subscribed(e)' /\ Tx(d)' = Tx(e)' => d = e
  BY <1>0, <1>1 DEF IndInv, Subs, SubscriptionsOwned
<1> QED
  BY <1>2, <1>3, <1>4 DEF SubscriptionsOwned

\* CheckTx: an accepted transaction is not executed yet, so its event is
\* still to come, and the call owns it.
LEMMA CheckTxInv == ASSUME IndInv, NEW c \in Clients, CheckTx(c) PROVE IndInv'
<1> USE DEF IndInv, bus, topic, chain
<1> DEFINE res == CheckTxResult(Tx(c))
<1>0. /\ \A d \in Clients : Kind(d)' = Kind(d) /\ Tx(d)' = Tx(d)
      /\ pc[c] = "checkTx" /\ CheckTxEffect(Tx(c)) /\ Tx(c) \in Txs
      /\ reply[c] = "none"
      /\ UNCHANGED <<call, cancelled, bus, topic, chain>>
  BY CallsFixed, CallTypes DEF CheckTx, Calls
<1>1. /\ res \in {"full", "inCache", "rejected", "ok"}
      /\ pool' \subseteq Txs /\ cache' \subseteq Txs
      /\ size' = size
      /\ Cardinality(pool') <= size'
      /\ Pool'
      /\ pool' \subseteq pool \cup {Tx(c)}
      /\ res # "ok" => pool' = pool
      /\ res = "ok" => Tx(c) \notin Bad \cup committed
  BY <1>0, CheckTxEffects
<1> HIDE DEF res
<1>2. PICK l \in {"unsubscribe", "returned", "publish", "accepted", "rejected"},
           r \in {"full", "inCache", "none"} :
        /\ pc' = [pc EXCEPT ![c] = l] /\ reply' = [reply EXCEPT ![c] = r]
        /\ l \notin {"unsubscribe", "returned"} => r = "none"
        /\ l = "unsubscribe" => Kind(c) = "commit"
        /\ l = "returned" => Kind(c) # "commit"
        /\ l = "publish" => Kind(c) = "async"
        /\ l = "accepted" => res = "ok"
        /\ res = "ok" => l \in {"publish", "accepted"}
  <2>1. CASE res \in {"full", "inCache"}
    <3>1. Return(c, res)
      BY <2>1 DEF CheckTx, res
    <3>2. /\ reply' = [reply EXCEPT ![c] = res]
          /\ \/ pc' = [pc EXCEPT ![c] = "unsubscribe"] /\ Kind(c) = "commit"
             \/ pc' = [pc EXCEPT ![c] = "returned"] /\ Kind(c) # "commit"
      BY <3>1, ReturnTo
    <3>3. CASE Kind(c) = "commit"
      BY <2>1, <3>2, <3>3
    <3>4. CASE Kind(c) # "commit"
      BY <2>1, <3>2, <3>4
    <3> QED
      BY <3>3, <3>4
  <2>2. CASE res \in {"ok", "rejected"}
    <3>1. Goto(c, IF Kind(c) = "async" THEN "publish"
                  ELSE IF res = "ok" THEN "accepted" ELSE "rejected")
      BY <2>2 DEF CheckTx, res
    <3>2. reply' = [reply EXCEPT ![c] = "none"]
      BY <1>0, <3>1, ReplyKept DEF Goto
    <3> QED
      BY <2>2, <3>1, <3>2 DEF Goto
  <2> QED
    BY <1>1, <2>1, <2>2
<1>3. /\ \A d \in Clients \ {c} : pc'[d] = pc[d] /\ reply'[d] = reply[d]
      /\ pc'[c] = l /\ reply'[c] = r
  BY <1>2 DEF TypeOK
<1>4. TypeOK'
  BY <1>0, <1>1, <1>2 DEF TypeOK
<1>5. Calls'
  BY <1>0, <1>2, <1>3 DEF Calls
<1>6. Subs'
  <2>1. Subscribed(c)' <=> Subscribed(c)
    BY <1>0, <1>2, <1>3 DEF Subscribed
  <2>2. Delivered'
    BY <1>0, <1>1, <1>2, <1>3 DEF TypeOK, Subs, Delivered
  <2> QED
    BY <1>0, <1>3, <2>1, <2>2, MoveSubs DEF Subs
<1>7. Owned'
  <2>1. \A d \in Clients : Owner(d) => Owner(d)'
    BY <1>0, <1>3 DEF Owner
  <2>2. res = "ok" => Owner(c)'
    BY <1>2, <1>3 DEF Owner
  <2> QED
    BY <1>0, <1>1, <2>1, <2>2 DEF Owned
<1>8. RejectedStaysHome'
  BY <1>0, <1>1, <1>2, <1>3 DEF RejectedStaysHome
<1> QED
  BY <1>1, <1>4, <1>5, <1>6, <1>7, <1>8

\* Publish: what the validator lets out is good or known to be good; a
\* transaction that does not get out stays with its call.
LEMMA PublishInv == ASSUME IndInv, NEW c \in Clients, Publish(c) PROVE IndInv'
<1> USE DEF IndInv, bus, topic, chain
<1> DEFINE res == CheckTxResult(Tx(c))
<1>0. /\ \A d \in Clients : Kind(d)' = Kind(d) /\ Tx(d)' = Tx(d)
      /\ pc[c] = "publish" /\ CheckTxEffect(Tx(c)) /\ Tx(c) \in Txs
      /\ reply[c] = "none"
      /\ UNCHANGED <<call, cancelled, bus, received, chain>>
  BY CallsFixed, CallTypes DEF Publish, Calls
<1>1. /\ res \in {"full", "inCache", "rejected", "ok"}
      /\ pool' \subseteq Txs /\ cache' \subseteq Txs
      /\ size' = size
      /\ Cardinality(pool') <= size'
      /\ Pool'
      /\ pool' \subseteq pool \cup {Tx(c)}
      /\ res = "ok" => Tx(c) \notin Bad
      /\ res = "inCache" => Tx(c) \notin Bad
  BY <1>0, CheckTxEffects
<1>2. PICK l \in {"unsubscribe", "returned", "wait", "remove"},
           r \in {"ok", "gossip", "none"} :
        /\ pc' = [pc EXCEPT ![c] = l] /\ reply' = [reply EXCEPT ![c] = r]
        /\ l \in {"wait", "remove"} <=> r = "none"
        /\ Kind(c) = "commit" <=> l \in {"wait", "unsubscribe"}
        /\ \/ gossiped' = gossiped \cup {Tx(c)} /\ res \in {"inCache", "ok"}
           \/ gossiped' = gossiped /\ (l = "remove" \/ (Kind(c) = "commit" /\ r = "gossip"))
  <2>1. CASE /\ Validate(Tx(c)) /\ gossiped' = gossiped \cup {Tx(c)}
             /\ IF Kind(c) = "commit" THEN Goto(c, "wait") ELSE Return(c, "ok")
    <3>0. res \in {"inCache", "ok"}
      BY <2>1 DEF Validate
    <3>1. CASE Kind(c) = "commit"
      <4>1. /\ pc' = [pc EXCEPT ![c] = "wait"] /\ UNCHANGED reply
        BY <2>1, <3>1 DEF Goto
      <4>2. reply' = [reply EXCEPT ![c] = "none"]
        BY <1>0, <4>1, ReplyKept
      <4> HIDE DEF res
      <4> QED
        BY <2>1, <3>0, <3>1, <4>1, <4>2
    <3>2. CASE Kind(c) # "commit"
      <4>1. /\ pc' = [pc EXCEPT ![c] = "returned"] /\ reply' = [reply EXCEPT ![c] = "ok"]
        BY <2>1, <3>2 DEF Return
      <4> HIDE DEF res
      <4> QED
        BY <2>1, <3>0, <3>2, <4>1
    <3> QED
      BY <3>1, <3>2
  <2>2. CASE /\ IF Kind(c) = "commit" THEN Return(c, "gossip") ELSE Goto(c, "remove")
             /\ UNCHANGED gossiped
    <3>1. CASE Kind(c) = "commit"
      <4>1. /\ pc' = [pc EXCEPT ![c] = "unsubscribe"] /\ reply' = [reply EXCEPT ![c] = "gossip"]
        BY <2>2, <3>1 DEF Return
      <4> HIDE DEF res
      <4> QED
        BY <2>2, <3>1, <4>1
    <3>2. CASE Kind(c) # "commit"
      <4>1. /\ pc' = [pc EXCEPT ![c] = "remove"] /\ UNCHANGED reply
        BY <2>2, <3>2 DEF Goto
      <4>2. reply' = [reply EXCEPT ![c] = "none"]
        BY <1>0, <4>1, ReplyKept
      <4> HIDE DEF res
      <4> QED
        BY <2>2, <3>2, <4>1, <4>2
    <3> QED
      BY <3>1, <3>2
  <2> QED
    BY <2>1, <2>2 DEF Publish
<1> HIDE DEF res
<1>3. /\ \A d \in Clients \ {c} : pc'[d] = pc[d] /\ reply'[d] = reply[d]
      /\ pc'[c] = l /\ reply'[c] = r
  BY <1>2 DEF TypeOK
<1>4. TypeOK'
  BY <1>0, <1>1, <1>2 DEF TypeOK
<1>5. Calls'
  BY <1>0, <1>2, <1>3 DEF Calls
<1>6. Subs'
  <2>1. Subscribed(c)' <=> Subscribed(c)
    BY <1>0, <1>2, <1>3 DEF Subscribed
  <2>2. Delivered'
    BY <1>0, <1>2, <1>3 DEF Subs, Delivered
  <2> QED
    BY <1>0, <1>3, <2>1, <2>2, MoveSubs DEF Subs
<1>7. Owned'
  <2>1. \A d \in Clients \ {c} : Owner(d) => Owner(d)'
    BY <1>0, <1>3 DEF Owner
  <2>3. CASE gossiped' = gossiped /\ (l = "remove" \/ (Kind(c) = "commit" /\ r = "gossip"))
    <3>1. Owner(c)'
      BY <1>0, <1>3, <2>3 DEF Owner
    <3> QED
      BY <1>0, <1>1, <2>1, <2>3, <3>1 DEF Owned
  <2>4. CASE gossiped' = gossiped \cup {Tx(c)}
    <3>1. ASSUME NEW t \in pool' \ (gossiped' \cup received')
          PROVE  \E d \in Clients : Tx(d)' = t /\ Owner(d)'
      <4>1. t \in pool \ (gossiped \cup received) /\ t # Tx(c)
        BY <1>0, <1>1, <2>4
      <4>2. PICK d \in Clients : Tx(d) = t /\ Owner(d)
        BY <4>1 DEF Owned
      <4> QED
        BY <1>0, <2>1, <4>1, <4>2
    <3> QED
      BY <3>1 DEF Owned
  <2> QED
    BY <1>2, <2>3, <2>4
<1>8. RejectedStaysHome'
  BY <1>0, <1>1, <1>2 DEF RejectedStaysHome
<1> QED
  BY <1>1, <1>4, <1>5, <1>6, <1>7, <1>8

\* Remove: the call that could not gossip its transaction takes it out, so it
\* need not own it any longer.
LEMMA RemoveInv == ASSUME IndInv, NEW c \in Clients, Remove(c) PROVE IndInv'
<1> USE DEF IndInv, bus, topic, chain
<1>0. /\ \A d \in Clients : Kind(d)' = Kind(d) /\ Tx(d)' = Tx(d)
      /\ pc[c] = "remove" /\ pool' = pool \ {Tx(c)} /\ Return(c, "gossip")
      /\ UNCHANGED <<call, cancelled, cache, size, bus, topic, chain>>
  BY CallsFixed DEF Remove
<1>1. Pool' /\ pool' \subseteq Txs /\ Cardinality(pool') <= size'
  BY <1>0, RemoveFromPool DEF Pool
<1>2. PICK l \in {"unsubscribe", "returned"} :
        /\ pc' = [pc EXCEPT ![c] = l] /\ reply' = [reply EXCEPT ![c] = "gossip"]
        /\ l = "unsubscribe" <=> Kind(c) = "commit"
  BY <1>0, ReturnTo
<1>3. /\ \A d \in Clients \ {c} : pc'[d] = pc[d] /\ reply'[d] = reply[d]
      /\ pc'[c] = l /\ reply'[c] = "gossip"
  BY <1>2 DEF TypeOK
<1>4. TypeOK'
  BY <1>0, <1>1, <1>2 DEF TypeOK
<1>5. Calls'
  BY <1>0, <1>2, <1>3 DEF Calls
<1>6. Subs'
  <2>1. Subscribed(c)' <=> Subscribed(c)
    BY <1>0, <1>2, <1>3 DEF Subscribed, Calls
  <2>2. Delivered'
    BY <1>0, <1>2, <1>3 DEF Subs, Delivered
  <2> QED
    BY <1>0, <1>3, <2>1, <2>2, MoveSubs DEF Subs
<1>7. Owned'
  <2>1. \A d \in Clients \ {c} : Owner(d) => Owner(d)'
    BY <1>0, <1>3 DEF Owner
  <2>2. ASSUME NEW t \in pool' \ (gossiped' \cup received')
        PROVE  \E d \in Clients : Tx(d)' = t /\ Owner(d)'
    <3>1. PICK d \in Clients : Tx(d) = t /\ Owner(d)
      BY <1>0 DEF Owned
    <3> QED
      BY <1>0, <2>1, <3>1
  <2> QED
    BY <2>2 DEF Owned
<1>8. RejectedStaysHome'
  BY <1>0, <1>2, <1>3 DEF RejectedStaysHome
<1> QED
  BY <1>1, <1>4, <1>5, <1>6, <1>7, <1>8

\* Unsubscribe: no other call holds a subscription to the same transaction.
LEMMA UnsubscribeInv == ASSUME IndInv, NEW c \in Clients, Unsubscribe(c) PROVE IndInv'
<1> USE DEF IndInv, mempool, bus, topic, chain
<1>0. /\ \A d \in Clients : Kind(d)' = Kind(d) /\ Tx(d)' = Tx(d)
      /\ pc[c] = "unsubscribe" /\ Kind(c) = "commit" /\ Subscribed(c)
      /\ UNCHANGED <<call, cancelled, mempool, topic, chain>>
      /\ pc' = [pc EXCEPT ![c] = "returned"] /\ reply' = reply
  BY CallsFixed DEF Unsubscribe, Goto, Calls, Subscribed
<1>1. /\ \A d \in Clients \ {c} : pc'[d] = pc[d]
      /\ pc'[c] = "returned"
  BY <1>0 DEF TypeOK
<1>2. \A d \in Clients : Subscribed(d)' <=> Subscribed(d) /\ d # c
  BY <1>0, <1>1 DEF Subscribed
<1>3. \A d \in Clients : Subscribed(d)' => Tx(d) # Tx(c)
  BY <1>0, <1>2 DEF Subs, SubscriptionsOwned
<1>4. TypeOK'
  BY <1>0 DEF TypeOK, Unsubscribe
<1>5. Calls' /\ Pool'
  BY <1>0, <1>1 DEF Calls, Pool, Full
<1>6. Subs'
  <2>1. \A d \in Clients : Subscribed(d)' => Tx(d)' \in subs'
    BY <1>0, <1>2, <1>3 DEF Subs, Unsubscribe
  <2>2. ASSUME NEW t \in subs'
        PROVE  \E d \in Clients : Tx(d)' = t /\ (Subscribed(d)' \/
                  (Kind(d)' = "commit" /\ d \in cancelled' /\ pc'[d] = "returned"))
    <3>1. t \in subs /\ (t # Tx(c) \/ c \in cancelled)
      BY DEF Unsubscribe
    <3>2. PICK d \in Clients : Tx(d) = t /\ (Subscribed(d) \/
                  (Kind(d) = "commit" /\ d \in cancelled /\ pc[d] = "returned"))
      BY <3>1 DEF Subs, SubscriptionsOwned
    <3> QED
      BY <1>0, <1>1, <1>2, <3>1, <3>2
  <2>3. \A d, e \in Clients :
           Subscribed(d)' /\ Subscribed(e)' /\ Tx(d)' = Tx(e)' => d = e
    BY <1>0, <1>2 DEF Subs, SubscriptionsOwned
  <2>4. Delivered'
    <3>1. ASSUME NEW d \in Clients, Kind(d)' = "commit",
                 pc'[d] \in {"accepted", "publish", "wait"}, Tx(d)' \in published'
          PROVE  Tx(d)' \in delivered'
      <4>1. Tx(d) \in delivered
        BY <1>0, <1>1, <3>1 DEF Subs, Delivered
      <4>2. Subscribed(d)'
        BY <3>1 DEF Subscribed
      <4> QED
        BY <1>0, <1>3, <4>1, <4>2 DEF Unsubscribe
    <3> QED
      BY <3>1 DEF Delivered
  <2> QED
    BY <2>1, <2>2, <2>3, <2>4 DEF Subs, SubscriptionsOwned
<1>7. Owned'
  <2>1. \A d \in Clients : Owner(d) => Owner(d)'
    BY <1>0, <1>1 DEF Owner
  <2> QED
    BY <1>0, <2>1 DEF Owned
<1>8. RejectedStaysHome'
  BY <1>0, <1>1 DEF RejectedStaysHome
<1> QED
  BY <1>4, <1>5, <1>6, <1>7, <1>8

-----------------------------------------------------------------------------
\* A step of the rest of the node leaves the calls where they are: what is
\* left to show is about the mempool, the topic and the events.
LEMMA NodeStepInv ==
    ASSUME IndInv, TypeOK', Pool', UNCHANGED <<pc, call, reply, subs, gossiped>>,
           cancelled \subseteq cancelled', RejectedStaysHome',
           Delivered',
           pool' \ (gossiped \cup received') \subseteq pool \ (gossiped \cup received)
    PROVE  IndInv'
<1> USE DEF IndInv
<1>0. \A d \in Clients : Kind(d)' = Kind(d) /\ Tx(d)' = Tx(d)
  BY CallsFixed
<1>1. \A d \in Clients : Subscribed(d)' <=> Subscribed(d)
  BY <1>0 DEF Subscribed
<1>2. Calls'
  BY <1>0 DEF Calls
<1>3. Subs'
  <2>1. \A d \in Clients : Subscribed(d)' => Tx(d)' \in subs'
    BY <1>0, <1>1 DEF Subs
  <2>2. ASSUME NEW t \in subs'
        PROVE  \E d \in Clients : Tx(d)' = t /\ (Subscribed(d)' \/
                  (Kind(d)' = "commit" /\ d \in cancelled' /\ pc'[d] = "returned"))
    <3>1. PICK d \in Clients : Tx(d) = t /\ (Subscribed(d) \/
                  (Kind(d) = "commit" /\ d \in cancelled /\ pc[d] = "returned"))
      BY DEF Subs, SubscriptionsOwned
    <3> QED
      BY <1>0, <1>1, <3>1
  <2>3. \A d, e \in Clients :
           Subscribed(d)' /\ Subscribed(e)' /\ Tx(d)' = Tx(e)' => d = e
    BY <1>0, <1>1 DEF Subs, SubscriptionsOwned
  <2> QED
    BY <2>1, <2>2, <2>3 DEF Subs, SubscriptionsOwned
<1>4. Owned'
  <2>1. \A d \in Clients : Owner(d) => Owner(d)'
    BY <1>0 DEF Owner
  <2>2. ASSUME NEW t \in pool' \ (gossiped' \cup received')
        PROVE  \E d \in Clients : Tx(d)' = t /\ Owner(d)'
    <3>1. PICK d \in Clients : Tx(d) = t /\ Owner(d)
      BY DEF Owned
    <3> QED
      BY <1>0, <2>1, <3>1
  <2> QED
    BY <2>2 DEF Owned
<1> QED
  BY <1>2, <1>3, <1>4

\* Nothing is published and no message goes: what was delivered still is.
LEMMA DeliveredKept ==
    ASSUME IndInv, UNCHANGED <<pc, call, delivered, published>>
    PROVE  Delivered'
<1>1. \A d \in Clients : Kind(d)' = Kind(d) /\ Tx(d)' = Tx(d)
  BY CallsFixed
<1> QED
  BY <1>1 DEF IndInv, Subs, Delivered

\* A client gives up.
LEMMA CancelInv == ASSUME IndInv, NEW c \in Clients, Cancel(c) PROVE IndInv'
<1> USE DEF IndInv, Cancel, mempool, bus, topic, chain
<1>1. TypeOK' /\ Pool'
  BY DEF TypeOK, Pool, Full
<1>2. Delivered'
  BY DeliveredKept
<1>9. RejectedStaysHome'
  BY DEF RejectedStaysHome
<1> QED
  BY <1>1, <1>2, <1>9, NodeStepInv

\* A peer's transaction joins the mempool only when it is passed on.
LEMMA ReceiveGossipInv == ASSUME IndInv, NEW t \in Txs, ReceiveGossip(t) PROVE IndInv'
<1> USE DEF IndInv, bus, topic, chain
<1>0. /\ UNCHANGED <<pc, call, reply, cancelled, bus, gossiped, chain>>
      /\ CheckTxEffect(t)
      /\ received' = IF Validate(t) THEN received \cup {t} ELSE received
  BY DEF ReceiveGossip
<1>1. /\ pool' \subseteq Txs /\ cache' \subseteq Txs
      /\ size' = size
      /\ Cardinality(pool') <= size'
      /\ Pool'
      /\ pool' \subseteq pool \cup {t}
      /\ CheckTxResult(t) # "ok" => pool' = pool
      /\ CheckTxResult(t) \in {"ok", "inCache"} => t \notin Bad
  BY <1>0, CheckTxEffects
<1>2. TypeOK'
  BY <1>0, <1>1 DEF TypeOK
<1>3. Delivered'
  BY <1>0, DeliveredKept
<1>4. pool' \ (gossiped \cup received') \subseteq pool \ (gossiped \cup received)
  BY <1>0, <1>1 DEF Validate
<1>9. RejectedStaysHome'
  BY <1>0, <1>1 DEF Validate, RejectedStaysHome
<1> QED
  BY <1>0, <1>1, <1>2, <1>3, <1>4, <1>9, NodeStepInv

\* A block executes a transaction, which leaves the mempool.
LEMMA ExecuteBlockInv == ASSUME IndInv, NEW t \in Txs, ExecuteBlock(t) PROVE IndInv'
<1> USE DEF IndInv, bus, topic, chain
<1>0. /\ UNCHANGED <<pc, call, reply, cancelled, size, bus, topic, published>>
      /\ t \notin Bad /\ committed' = committed \cup {t}
      /\ pool' = pool \ {t} /\ cache' = cache \cup {t}
  BY DEF ExecuteBlock
<1>1. Pool' /\ pool' \subseteq Txs /\ Cardinality(pool') <= size'
  BY <1>0, RemoveFromPool DEF Pool
<1>2. TypeOK'
  BY <1>0, <1>1 DEF TypeOK
<1>3. Delivered'
  BY <1>0, DeliveredKept
<1>9. RejectedStaysHome'
  BY <1>0 DEF RejectedStaysHome
<1> QED
  BY <1>0, <1>1, <1>2, <1>3, <1>9, NodeStepInv

\* The event of t reaches every call that has subscribed to it.
LEMMA PublishEventTxInv == ASSUME IndInv, NEW t \in Txs, PublishEventTx(t) PROVE IndInv'
<1> USE DEF IndInv, mempool, bus, topic, chain
<1>0. /\ UNCHANGED <<pc, call, reply, cancelled, mempool, subs, topic, committed>>
      /\ t \in committed /\ published' = published \cup {t}
      /\ delivered' = delivered \cup ({t} \cap subs)
  BY DEF PublishEventTx
<1>1. TypeOK' /\ Pool'
  BY <1>0 DEF TypeOK, Pool, Full
<1>2. \A d \in Clients : Kind(d)' = Kind(d) /\ Tx(d)' = Tx(d)
  BY <1>0, CallsFixed
<1>3. Delivered'
  BY <1>0, <1>2 DEF Subs, Delivered, Subscribed
<1>9. RejectedStaysHome'
  BY <1>0 DEF RejectedStaysHome
<1> QED
  BY <1>0, <1>1, <1>3, <1>9, NodeStepInv

\* The cache of the mempool drops an entry.
LEMMA EvictInv == ASSUME IndInv, NEW t \in Txs, Evict(t) PROVE IndInv'
<1> USE DEF IndInv, Evict, mempool, bus, topic, chain
<1>1. TypeOK' /\ Pool'
  BY DEF TypeOK, Pool, Full
<1>2. Delivered'
  BY DeliveredKept
<1>9. RejectedStaysHome'
  BY DEF RejectedStaysHome
<1> QED
  BY <1>1, <1>2, <1>9, NodeStepInv

-----------------------------------------------------------------------------
\* Every step keeps the invariant.
LEMMA NextInv == IndInv /\ [Next]_vars => IndInv'
<1> SUFFICES ASSUME IndInv, [Next]_vars PROVE IndInv'
  OBVIOUS
<1>1. ASSUME NEW c \in Clients, Begin(c) \/ Step(c) \/ Cancel(c) PROVE IndInv'
  BY <1>1, BeginInv, CheckLimitsInv, SubscribeInv, CheckTxInv, ReturnResultInv,
     TakeResultInv, PublishInv, RemoveInv, AwaitEventInv, UnsubscribeInv, CancelInv
     DEF Step
<1>2. ASSUME NEW t \in Txs,
             ReceiveGossip(t) \/ ExecuteBlock(t) \/ PublishEventTx(t) \/ Evict(t)
      PROVE  IndInv'
  BY <1>2, ReceiveGossipInv, ExecuteBlockInv, PublishEventTxInv, EvictInv
<1>3. CASE UNCHANGED vars
  <2>1. /\ UNCHANGED <<pc, call, reply, cancelled, subs, delivered, gossiped, received,
                       committed, published, pool, cache, size>>
    BY <1>3 DEF vars, mempool, bus, topic, chain
  <2>2. TypeOK' /\ Pool'
    BY <2>1 DEF IndInv, TypeOK, Pool, Full
  <2>3. Delivered'
    BY <2>1, DeliveredKept
  <2>4. RejectedStaysHome'
    BY <2>1 DEF IndInv, RejectedStaysHome
  <2> QED
    BY <2>1, <2>2, <2>3, <2>4, NodeStepInv
<1> QED
  BY <1>1, <1>2, <1>3 DEF Next

\* The strengthened invariant holds in every reachable state, for any calls,
\* transactions, limits and faults.
THEOREM Invariance == Spec => []IndInv
<1>1. Init => IndInv
  BY InitInv
<1>2. IndInv /\ [Next]_vars => IndInv'
  BY NextInv
<1> QED
  BY <1>1, <1>2, PTL DEF Spec

\* The calls, the mempool, the bus and the topic keep their types; the
\* mempool never holds more than size transactions.
THEOREM TypeCorrect == Spec => []TypeOK
<1>1. IndInv => TypeOK
  BY DEF IndInv
<1> QED
  BY <1>1, Invariance, PTL

\* A BroadcastTxCommit that waits misses no event of its transaction,
\* however many calls share the subscriber (mempool.go:115-129, 168-170).
THEOREM NoEventMissed == Spec => []NoMissedEvent
<1>1. IndInv => NoMissedEvent
  BY DEF IndInv, Subs, Delivered, Calls, NoMissedEvent
<1> QED
  BY <1>1, Invariance, PTL

\* Every subscription has exactly one call to give it back, or a caller that
\* went away (mempool.go:125-129).
THEOREM SubscriptionsHaveOwners == Spec => []SubscriptionsOwned
<1>1. IndInv => SubscriptionsOwned
  BY DEF IndInv, Subs
<1> QED
  BY <1>1, Invariance, PTL

\* A transaction that only this node knows is in its mempool because a call
\* is at work on it or ended in one of three known ways
\* (mempool.go:33-40, 60-75, 161-165, 253).
THEOREM UngossipedIsAccountedFor == Spec => []UngossipedAccounted
<1>1. IndInv => UngossipedAccounted
  BY DEF IndInv, Owned, Owner, UngossipedAccounted, InProgress
<1> QED
  BY <1>1, Invariance, PTL

\* A transaction the application rejects is never passed on, neither one of
\* a BroadcastTxAsync, which does not look at the answer, nor one of a peer
\* (mempool.go:28-33, adapter.go:178-206).
THEOREM RejectedTxsStayHome == Spec => []RejectedStaysHome
<1>1. IndInv => RejectedStaysHome
  BY DEF IndInv
<1> QED
  BY <1>1, Invariance, PTL
=============================================================================
