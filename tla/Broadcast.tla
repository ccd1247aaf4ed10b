------------------------------ MODULE Broadcast ------------------------------
(***************************************************************************)
(* The way of a transaction into a node: the RPC calls BroadcastTxAsync,   *)
(* BroadcastTxSync, BroadcastTxCommit and CheckTx (pkg/rpc/core/mempool.go)*)
(* running concurrently, the gossip topic (pkg/p2p/gossip.go) with its     *)
(* validator (pkg/adapter/adapter.go), and the blocks that take            *)
(* transactions out of the mempool and publish their events.               *)
(*                                                                         *)
(* External parts, as the code uses them.  The mempool's CheckTx runs the  *)
(* callback before it returns, because the node talks to the application   *)
(* through a local client (server/start.go:419); it refuses what is in its *)
(* cache, and everything when it is full; it forgets a rejected            *)
(* transaction, and may evict any other from the cache.  libp2p runs the   *)
(* topic's validator on the node's own messages too, and Publish fails     *)
(* when it says no.  The event bus has one subscription per subscriber and *)
(* query, and gives up unsubscribing when the context is done.             *)
(***************************************************************************)
EXTENDS Naturals, FiniteSets

CONSTANTS Clients,   \* RPC calls, each made once
          Txs,       \* transactions
          Bad,       \* those the application rejects
          Sizes,     \* sizes the mempool may be configured with
          maxSubs,   \* 100 in the code
          Kinds,     \* which calls are made
          Faults     \* subset of AllFaults

AllFaults == {"gossip",   \* publishing on the topic fails
              "cancel",   \* a caller goes away
              "clients",  \* too many subscribers of other kinds
              "bus"}      \* the event bus cancels a subscription

ASSUME BroadcastAssumption ==
    /\ Bad \subseteq Txs
    /\ Sizes \subseteq Nat /\ maxSubs \in Nat
    /\ Kinds \subseteq {"async", "sync", "commit", "check"}
    /\ Faults \subseteq AllFaults

VARIABLES pc,         \* where each call is
          call,       \* its kind and its transaction
          reply,      \* what it has returned, "none" before
          cancelled,  \* calls whose context is done
          pool,       \* the mempool
          cache,      \* its cache
          subs,       \* transactions subscribed to by the subscriber ""
          delivered,  \* subscriptions with a message waiting
          gossiped,   \* transactions this node has published on the topic
          received,   \* transactions its validator has passed on for peers
          committed,  \* transactions executed in a block
          published,  \* those whose event has been published
          size        \* size of the mempool, from the configuration

mempool == <<pool, cache, size>>
bus     == <<subs, delivered>>
topic   == <<gossiped, received>>
chain   == <<committed, published>>
vars == <<pc, call, reply, cancelled, mempool, bus, topic, chain>>

Init == /\ pc = [c \in Clients |-> "idle"]
        /\ call \in [Clients -> [kind : Kinds, tx : Txs]]
        /\ reply = [c \in Clients |-> "none"]
        /\ cancelled = {}
        /\ pool = {} /\ cache = {} /\ size \in Sizes
        /\ subs = {} /\ delivered = {}
        /\ gossiped = {} /\ received = {}
        /\ committed = {} /\ published = {}

-----------------------------------------------------------------------------
\* The mempool's CheckTx (external): an error, or the application's answer.

Full == Cardinality(pool) >= size

CheckTxResult(t) == CASE Full -> "full"
                      [] ~Full /\ t \in cache -> "inCache"
                      [] ~Full /\ t \notin cache ->
                            IF t \in Bad \cup committed THEN "rejected" ELSE "ok"

CheckTxEffect(t) ==
    /\ pool'  = IF CheckTxResult(t) = "ok" THEN pool \cup {t} ELSE pool
    /\ cache' = IF CheckTxResult(t) = "ok" THEN cache \cup {t} ELSE cache
    /\ UNCHANGED size

\* A slip: a transaction the application rejects is passed on.
PassAnything(t) == TRUE

\* newTxValidator: what is known already is passed on, what the application
\* rejects is not.  Neither is anything while the mempool is full: errors.Is
\* compares the error with the empty value ErrMempoolIsFull{}, which the
\* mempool's error, with its sizes filled in, never equals, so that a full
\* mempool ends in the case for unexpected errors.
Validate(t) == CheckTxResult(t) \in {"inCache", "ok"}

-----------------------------------------------------------------------------
\* The RPC calls.  Return(c, r) ends call c; a BroadcastTxCommit that has
\* subscribed runs its deferred Unsubscribe first.

Kind(c) == call[c].kind
Tx(c)   == call[c].tx

Goto(c, l) == pc' = [pc EXCEPT ![c] = l] /\ UNCHANGED reply

\* A slip: no Unsubscribe is deferred.
ReturnNoDefer(c, r) == /\ pc' = [pc EXCEPT ![c] = "returned"]
                       /\ reply' = [reply EXCEPT ![c] = r]

Return(c, r) ==
    /\ pc' = [pc EXCEPT ![c] = IF Kind(c) = "commit" THEN "unsubscribe" ELSE "returned"]
    /\ reply' = [reply EXCEPT ![c] = r]

ReturnUnsubscribed(c, r) == /\ pc' = [pc EXCEPT ![c] = "returned"]
                            /\ reply' = [reply EXCEPT ![c] = r]

\* A call arrives.
Begin(c) == /\ pc[c] = "idle"
            /\ Goto(c, IF Kind(c) = "commit" THEN "limits" ELSE "checkTx")
            /\ UNCHANGED <<call, cancelled, mempool, bus, topic, chain>>

\* BroadcastTxCommit: the limits on subscribers and subscriptions.
CheckLimits(c) ==
    /\ pc[c] = "limits"
    /\ \/ "clients" \in Faults /\ ReturnUnsubscribed(c, "limit")
       \/ Cardinality(subs) >= maxSubs /\ ReturnUnsubscribed(c, "limit")
       \/ Cardinality(subs) < maxSubs /\ Goto(c, "subscribe")
    /\ UNCHANGED <<call, cancelled, mempool, bus, topic, chain>>

\* A slip: Unsubscribe is deferred before the error of Subscribe is looked at.
SubscribeDeferFirst(c) ==
    /\ pc[c] = "subscribe"
    /\ IF Tx(c) \in subs
         THEN Return(c, "notSubscribed") /\ UNCHANGED subs
         ELSE Goto(c, "checkTx") /\ subs' = subs \cup {Tx(c)}
    /\ UNCHANGED <<call, cancelled, delivered, mempool, topic, chain>>

\* All calls share the subscriber "", so a second one for the same
\* transaction is refused.
Subscribe(c) ==
    /\ pc[c] = "subscribe"
    /\ \/ /\ Tx(c) \in subs \/ c \in cancelled
          /\ ReturnUnsubscribed(c, "notSubscribed")
          /\ UNCHANGED subs
       \/ /\ Tx(c) \notin subs
          /\ Goto(c, "checkTx")
          /\ subs' = subs \cup {Tx(c)}
    /\ UNCHANGED <<call, cancelled, delivered, mempool, topic, chain>>

\* BroadcastTxAsync does not look at the application's answer.
CheckTx(c) ==
    /\ pc[c] = "checkTx"
    /\ CheckTxEffect(Tx(c))
    /\ LET res == CheckTxResult(Tx(c)) IN
         CASE res \in {"full", "inCache"} -> Return(c, res)
           [] res \in {"ok", "rejected"} ->
                Goto(c, IF Kind(c) = "async" THEN "publish"
                        ELSE IF res = "ok" THEN "accepted" ELSE "rejected")
    /\ UNCHANGED <<call, cancelled, bus, topic, chain>>

\* The answer is in the channel; CheckTx just returns it.
ReturnResult(c) ==
    /\ \/ pc[c] = "rejected"
       \/ pc[c] = "accepted" /\ Kind(c) = "check"
    /\ Return(c, pc[c])
    /\ UNCHANGED <<call, cancelled, mempool, bus, topic, chain>>

\* The broadcasting calls go on with an accepted transaction; a context that
\* is done may be seen before the answer.
TakeResult(c) ==
    /\ pc[c] \in {"accepted", "rejected"}
    /\ \/ c \in cancelled /\ Return(c, "context")
       \/ pc[c] = "accepted" /\ Kind(c) # "check" /\ Goto(c, "publish")
    /\ UNCHANGED <<call, cancelled, mempool, bus, topic, chain>>

\* Gossiper.Publish: the node's own validator, then the network.
Publish(c) ==
    /\ pc[c] = "publish"
    /\ CheckTxEffect(Tx(c))
    /\ \/ /\ Validate(Tx(c))
          /\ gossiped' = gossiped \cup {Tx(c)}
          /\ IF Kind(c) = "commit" THEN Goto(c, "wait") ELSE Return(c, "ok")
       \/ /\ ~Validate(Tx(c)) \/ "gossip" \in Faults \/ c \in cancelled
          /\ IF Kind(c) = "commit" THEN Return(c, "gossip") ELSE Goto(c, "remove")
          /\ UNCHANGED gossiped
    /\ UNCHANGED <<call, cancelled, bus, received, chain>>

\* A slip: the transaction stays in the mempool.
RemoveNothing(c) == /\ pc[c] = "remove"
                    /\ Return(c, "gossip")
                    /\ UNCHANGED <<call, cancelled, mempool, bus, topic, chain>>

\* RemoveTxByKey; that the transaction is gone already is only logged.
Remove(c) == /\ pc[c] = "remove"
             /\ pool' = pool \ {Tx(c)}
             /\ Return(c, "gossip")
             /\ UNCHANGED <<call, cancelled, cache, size, bus, topic, chain>>

\* A slip: no time-out.
AwaitForever(c) ==
    /\ pc[c] = "wait"
    /\ Tx(c) \in delivered /\ Return(c, "committed")
    /\ UNCHANGED <<call, cancelled, mempool, bus, topic, chain>>

\* BroadcastTxCommit: the event, the end of the subscription, the time-out or
\* the end of the context, whichever select takes.
AwaitEvent(c) ==
    /\ pc[c] = "wait"
    /\ \/ Tx(c) \in delivered /\ Return(c, "committed")
       \/ "bus" \in Faults /\ Return(c, "busCancelled")
       \/ Return(c, "timeout")
       \/ c \in cancelled /\ Return(c, "context")
    /\ UNCHANGED <<call, cancelled, mempool, bus, topic, chain>>

\* The deferred Unsubscribe uses the caller's context.
Unsubscribe(c) ==
    /\ pc[c] = "unsubscribe"
    /\ \/ subs' = subs \ {Tx(c)} /\ delivered' = delivered \ {Tx(c)}
       \/ c \in cancelled /\ UNCHANGED bus
    /\ Goto(c, "returned")
    /\ UNCHANGED <<call, cancelled, mempool, topic, chain>>

Step(c) == \/ CheckLimits(c) \/ Subscribe(c) \/ CheckTx(c)
           \/ ReturnResult(c) \/ TakeResult(c) \/ Publish(c)
           \/ Remove(c) \/ AwaitEvent(c) \/ Unsubscribe(c)

-----------------------------------------------------------------------------
\* The rest of the node.

InProgress(c) == pc[c] \notin {"idle", "returned"}

Cancel(c) == /\ "cancel" \in Faults
             /\ InProgress(c) /\ c \notin cancelled
             /\ cancelled' = cancelled \cup {c}
             /\ UNCHANGED <<pc, call, reply, mempool, bus, topic, chain>>

\* A peer's message: the validator decides whether it is passed on.
ReceiveGossip(t) ==
    /\ CheckTxEffect(t)
    /\ received' = IF Validate(t) THEN received \cup {t} ELSE received
    /\ UNCHANGED <<pc, call, reply, cancelled, bus, gossiped, chain>>

\* A block with t is executed and Mempool.Update takes t out of the pool; t
\* may come from another node's mempool.
ExecuteBlock(t) ==
    /\ t \notin Bad \cup committed
    /\ committed' = committed \cup {t}
    /\ pool' = pool \ {t}
    /\ cache' = cache \cup {t}
    /\ UNCHANGED <<pc, call, reply, cancelled, size, bus, topic, published>>

\* fireEvents publishes the event of t, at once or when the block is final.
PublishEventTx(t) ==
    /\ t \in committed \ published
    /\ published' = published \cup {t}
    /\ delivered' = delivered \cup ({t} \cap subs)
    /\ UNCHANGED <<pc, call, reply, cancelled, mempool, subs, topic, committed>>

\* The cache is bounded: old entries go (external).
Evict(t) == /\ t \in cache
            /\ cache' = cache \ {t}
            /\ UNCHANGED <<pc, call, reply, cancelled, pool, size, bus, topic, chain>>

Next == \/ \E c \in Clients : Begin(c) \/ Step(c) \/ Cancel(c)
        \/ \E t \in Txs : \/ ReceiveGossip(t) \/ ExecuteBlock(t)
                          \/ PublishEventTx(t) \/ Evict(t)

Spec == Init /\ [][Next]_vars
FairSpec == Spec /\ \A c \in Clients : WF_vars(Step(c))

-----------------------------------------------------------------------------
\* Where a BroadcastTxCommit has subscribed.
Subscribed(c) == Kind(c) = "commit" /\ pc[c] \in
    {"checkTx", "accepted", "rejected", "publish", "wait", "unsubscribe"}

\* Types of the calls and of the shared sets.
TypeOK ==
    /\ pc \in [Clients -> {"idle", "limits", "subscribe", "checkTx", "accepted",
                "rejected", "publish", "remove", "wait", "unsubscribe", "returned"}]
    /\ call \in [Clients -> [kind : Kinds, tx : Txs]]
    /\ reply \in [Clients -> {"none", "limit", "notSubscribed", "full", "inCache",
                "context", "rejected", "accepted", "ok", "gossip", "committed",
                "busCancelled", "timeout"}]
    /\ cancelled \subseteq Clients
    /\ pool \subseteq Txs /\ Cardinality(pool) <= size /\ cache \subseteq Txs
    /\ delivered \subseteq subs /\ subs \subseteq Txs
    /\ gossiped \subseteq Txs /\ received \subseteq Txs
    /\ published \subseteq committed /\ committed \subseteq Txs
    /\ size \in Sizes

\* A BroadcastTxCommit that waits misses no event of its transaction,
\* although other calls use the same subscriber and blocks may overtake it
\* between the mempool and the wait (mempool.go:115-129, 168-170).
NoMissedEvent ==
    \A c \in Clients : pc[c] = "wait" /\ Tx(c) \in published => Tx(c) \in delivered

\* Each subscription belongs to one call, which is still to give it back,
\* unless the caller went away and Unsubscribe gave up (mempool.go:125-129).
SubscriptionsOwned ==
    /\ \A t \in subs : \E c \in Clients :
          Tx(c) = t /\ (Subscribed(c) \/ (Kind(c) = "commit" /\ c \in cancelled
                                          /\ pc[c] = "returned"))
    /\ \A c, d \in Clients :
          Subscribed(c) /\ Subscribed(d) /\ Tx(c) = Tx(d) => c = d

\* A transaction that this node alone knows sits in its mempool only while a
\* call is at work on it, or after one of the three ways out that do not
\* remove it: CheckTx, a cancelled call, and a BroadcastTxCommit that could
\* not gossip (mempool.go:33-40, 60-75, 161-165, 253).
UngossipedAccounted ==
    \A t \in pool \ (gossiped \cup received) : \E c \in Clients :
        /\ Tx(c) = t
        /\ \/ InProgress(c)
           \/ Kind(c) = "check"
           \/ reply[c] = "context"
           \/ Kind(c) = "commit" /\ reply[c] = "gossip"

\* BroadcastTxAsync publishes without having seen the application's answer,
\* and peers send what they like, but a transaction the application rejects
\* is never passed on: the topic's validator asks again, and what its mempool
\* answers from the cache has been accepted once (mempool.go:28-33,
\* adapter.go:178-206).
RejectedStaysHome == (gossiped \cup received) \cap Bad = {}

\* Every call returns; with the time-out this does not depend on blocks
\* (mempool.go:167-208).
EveryCallReturns ==
    \A c \in Clients : InProgress(c) ~> pc[c] = "returned"
=============================================================================
