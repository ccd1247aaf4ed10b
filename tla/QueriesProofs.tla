---------------------------- MODULE QueriesProofs ----------------------------
(***************************************************************************)
(* Proofs about Node and Queries.  The adapter's invariant carries over to *)
(* the loops as they run in the node's process, where the application and  *)
(* the event bus may be closed under them and the process may end anywhere.*)
(***************************************************************************)
EXTENDS Queries, AdapterProofs, FiniteSetTheorems

-----------------------------------------------------------------------------
(***************************************************************************)
(* The adapter inside the process.                                         *)
(***************************************************************************)
\* What is published on a stopped bus is dropped.
Dropped ==
    /\ At("fire")
    /\ xpc' = "return"
    /\ UNCHANGED <<disk, up, xs, appended, fbEvents, stackedEvents, final, published>>

\* Dropping events leaves the adapter sound.
LEMMA DroppedInv == ASSUME IndInv, Dropped PROVE IndInv'
<1> USE DEF IndInv, Dropped, At, disk, final
<1>1. TypeOK' /\ Progress'
  BY DEF TypeOK, Progress, Working, Committed, blk
<1>2. Queue(stackedEvents)' /\ (fpc = "trim" => Queue(kept) /\ Len(kept) <= Len(stackedEvents))'
  BY DEF Queue, blk
<1> QED
  BY <1>1, <1>2
     DEF StoredBlocksComplete, StateNeverBehindApp, PublishedAfterSave, Appending, Release

\* What the process does to the adapter.
LEMMA NodeSteps ==
    ASSUME NodeNext
    PROVE  \/ [Next]_vars
           \/ Halt
           \/ up /\ ExecFails
           \/ Dropped
BY DEF NodeNext, Main, StartApp, SetupNodeAndExecutor, Launch, StartExecutor,
   StartServers, Wait, StopBus, StopIndexer, StopRPC, Cancel, CloseApp, Exit, End,
   QuitSignal, NodeReturns, Crash, ProcessEnds, LoopStep, Next, Dropped

\* Every step of the node leaves the adapter sound.
LEMMA NodeInv == ASSUME IndInv, NodeNext PROVE IndInv'
BY NodeSteps, NextInv, HaltInv, ExecFailsInv, DroppedInv

-----------------------------------------------------------------------------
(***************************************************************************)
(* The services.                                                           *)
(***************************************************************************)
LoopServices == {"app", "bus", "indexer", "rpc"}

\* The node runs only between its launch and the end of the wait, with all
\* its services, or under the clean-up of a start that failed too late.
Running ==
    /\ up => \/ startFailed
             \/ phase \in {"gossip", "servers", "wait"} /\ ~ grpcOnly
    /\ phase \in {"off", "setup", "launch"} => ~ up
    /\ phase \in {"setup", "launch", "gossip"} => ~ grpcOnly
    /\ phase = "setup" => "app" \in services
    /\ phase \in {"launch", "gossip"} => LoopServices \subseteq services
    /\ phase \in {"servers", "wait"} /\ ~ grpcOnly => LoopServices \subseteq services
    /\ grpcOnly => ~ up

\* No loop runs at first.
LEMMA RunningInit == NodeInit => Running
BY DEF NodeInit, Init, Running

\* Loops are started after the services and stopped before them.
LEMMA RunningNext == ASSUME IndInv, Running, NodeNext PROVE Running'
<1> USE DEF Running, LoopServices
<1>0. up \in BOOLEAN
  BY DEF IndInv, TypeOK
<1>1. CASE StartApp
  BY <1>1 DEF StartApp, vars
<1>2. CASE SetupNodeAndExecutor
  BY <1>2 DEF SetupNodeAndExecutor, vars
<1>3. CASE Launch
  BY <1>3 DEF Launch
<1>4. CASE StartExecutor
  BY <1>4 DEF StartExecutor, StartFails, vars
<1>5. CASE StartServers
  BY <1>5 DEF StartServers, StartFails, vars
<1>6. CASE Wait
  BY <1>6 DEF Wait, vars
<1>7. CASE StopBus \/ StopIndexer \/ StopRPC \/ CloseApp
  BY <1>7 DEF StopBus, StopIndexer, StopRPC, CloseApp, End, vars
<1>8. CASE Cancel \/ QuitSignal
  BY <1>8 DEF Cancel, QuitSignal, vars
<1>9. CASE NodeReturns
  BY <1>9 DEF NodeReturns, Halt
<1>10. CASE Exit \/ Crash
  BY <1>10 DEF Exit, Crash, ProcessEnds, Halt
<1>11. CASE LoopStep
  <2>1. UNCHANGED up
    BY <1>11 DEF LoopStep, ExecStep, InitChain, ProcessProposal, FinalizeBlock, SaveState,
       Commit, SaveBlockID, FilterBlock, SaveBlockResponse, FireEvents, StackRead,
       StackWrite, ClearAndSave, Return, ExecFails, FinalStep, SetFinal, ReleaseSave,
       ReleaseFire, TrimRead, TrimWrite, FinalFails
  <2> QED
    BY <1>11, <2>1 DEF LoopStep, procVars
<1> QED
  BY <1>1, <1>2, <1>3, <1>4, <1>5, <1>6, <1>7, <1>8, <1>9, <1>10, <1>11
     DEF NodeNext, Main

-----------------------------------------------------------------------------
(***************************************************************************)
(* The queries.                                                            *)
(***************************************************************************)
\* A step of the queries leaves the node alone.
LEMMA QuerySteps ==
    ASSUME [QNext]_allVars
    PROVE  \/ Alongside(NodeNext)
           \/ Index \/ Answer
           \/ Serving /\ \E reads, want : Ask(reads, want)
           \/ UNCHANGED allVars
BY DEF QNext, Query, Block, Header, BlockCommit, BlockResults, BlockFinal, BlockByHash,
   HeaderByHash, Tx, BlockchainInfo, BlockSearch, TxSearch, Search, Status

\* The invariant of the adapter and of the process, in the whole system.
NodeSound == IndInv /\ Running

\* The node is sound at first.
LEMMA NodeSoundInit == QInit => NodeSound
BY InitInv, RunningInit DEF QInit, NodeInit, NodeSound

\* Every step keeps the node sound.
LEMMA NodeSoundNext == NodeSound /\ [QNext]_allVars => NodeSound'
<1> SUFFICES ASSUME NodeSound, [QNext]_allVars PROVE NodeSound'
  OBVIOUS
<1>1. CASE NodeNext
  BY <1>1, NodeInv, RunningNext DEF NodeSound
<1>2. CASE UNCHANGED nodeVars
  <2>1. UNCHANGED vars /\ UNCHANGED procVars
    BY <1>2 DEF nodeVars
  <2>2. IndInv'
    BY <2>1, NextInv DEF NodeSound
  <2> QED
    BY <2>1, <2>2 DEF NodeSound, Running, vars, procVars
<1> QED
  BY <1>1, <1>2, QuerySteps DEF Alongside, Index, Answer, Ask, allVars

\* Blocks are only ever added.
LEMMA HeightGrows ==
    ASSUME IndInv, NodeNext
    PROVE  rollkitHeight' \in {rollkitHeight, rollkitHeight + 1}
<1>1. CASE [Next]_vars
  BY <1>1 DEF Next, StartNode, Stop, Halt, ExecStep, InitChain, ProcessProposal,
     FinalizeBlock, SaveState, Commit, SaveBlockID, FilterBlock, SaveBlockResponse,
     FireEvents, StackRead, StackWrite, ClearAndSave, Return, ExecFails, FinalStep,
     SetFinal, ReleaseSave, ReleaseFire, TrimRead, TrimWrite, FinalFails, Confirm,
     disk, blk, vars
<1> QED
  BY <1>1, NodeSteps DEF Halt, ExecFails, Dropped, disk

\* What is due to a query is stored, and no query has been denied a block.
Served == call.due \subseteq 1 .. rollkitHeight /\ denied = {}

\* Everything a query reads of a stored block is there.
LEMMA StoredIsReadable ==
    ASSUME IndInv, NEW h \in 1 .. rollkitHeight, NEW reads
    PROVE  Readable(reads, h)
<1>1. rollkitHeight \in Nat /\ h \in Nat
  BY DEF IndInv, TypeOK
<1>2. h \in blockIDs /\ responses[h] # "none"
  BY DEF IndInv, StoredBlocksComplete
<1>3. HasLastCommit(h)
  <2>1. h > 1 => h - 1 \in 1 .. rollkitHeight /\ h - 1 <= rollkitHeight
    BY <1>1
  <2> QED
    BY <2>1 DEF HasLastCommit, IndInv, StoredBlocksComplete
<1>4. HasLastCommit(h + 1)
  <2>1. (h + 1) - 1 = h /\ h <= rollkitHeight
    BY <1>1
  <2> QED
    BY <1>2, <2>1 DEF HasLastCommit
<1> QED
  BY <1>2, <1>3, <1>4 DEF Readable, HasMeta, HasBlock

\* What was stored when a query looked is still there when it answers.
LEMMA ServedNext == ASSUME NodeSound, Served, [QNext]_allVars PROVE Served'
<1>0. rollkitHeight \in Nat
  BY DEF NodeSound, IndInv, TypeOK
<1>1. CASE Alongside(NodeNext)
  <2>1. rollkitHeight' \in {rollkitHeight, rollkitHeight + 1}
    BY <1>1, HeightGrows DEF Alongside, NodeSound
  <2>2. 1 .. rollkitHeight \subseteq 1 .. rollkitHeight'
    BY <1>0, <2>1
  <2>3. call' \in {call, NoCall} /\ denied' = {}
    BY <1>1 DEF Alongside
  <2>4. call'.due \subseteq 1 .. rollkitHeight
    BY <2>3 DEF Served, NoCall
  <2> QED
    BY <2>2, <2>3, <2>4 DEF Served
<1>2. CASE Index
  BY <1>2 DEF Index, nodeVars, vars, Served
<1>3. CASE Answer
  <2>1. \A h \in call.due : Readable(call.reads, h)
    BY StoredIsReadable DEF Served, NodeSound
  <2>2. denied' = {} /\ call' = NoCall
    BY <1>3, <2>1 DEF Answer
  <2> QED
    BY <2>2 DEF Served, NoCall
<1>4. CASE \E reads, want : Ask(reads, want)
  BY <1>4 DEF Ask, nodeVars, vars, Served
<1>5. CASE UNCHANGED allVars
  BY <1>5 DEF allVars, nodeVars, queryVars, vars, Served
<1> QED
  BY <1>1, <1>2, <1>3, <1>4, <1>5, QuerySteps

-----------------------------------------------------------------------------
\* The adapter's invariant and the one about the process hold in the whole
\* system (server/start.go): closed services and ends of the process at any
\* point included.
THEOREM NodeInvariance == QSpec => []NodeSound
BY NodeSoundInit, NodeSoundNext, PTL DEF QSpec

\* The block and DA loops never run without the application, the event bus,
\* the indexer and the RPC server, unless a later service failed to start.
THEOREM LoopsHaveServices == QSpec => []ServicesOutliveNode
<1>1. NodeSound => ServicesOutliveNode
  BY DEF NodeSound, Running, LoopServices, ServicesOutliveNode
<1> QED
  BY <1>1, NodeInvariance, PTL

\* On a node that has executed its own blocks, no query that has resolved to a
\* block is answered with an error or a nil on its account (pkg/rpc/core), at
\* any limit, page size and chain length.
THEOREM StoredBlocksAreServed == QSpec => []ServedIfStored
<1>1. QInit => Served
  BY DEF QInit, NoCall, Served
<1>2. NodeSound /\ Served /\ [QNext]_allVars => Served'
  BY ServedNext
<1>3. Served => ServedIfStored
  BY DEF Served, ServedIfStored
<1> QED
  BY <1>1, <1>2, <1>3, NodeInvariance, PTL DEF QSpec

-----------------------------------------------------------------------------
(***************************************************************************)
(* The events of the blocks, with the default filter.                      *)
(***************************************************************************)
LEMMA NodeEvents ==
    ASSUME Filter = "always", IndInv, Unqueued, EventsAtHand, NodeNext
    PROVE  Unqueued' /\ EventsAtHand'
<1>1. CASE [Next]_vars
  BY <1>1, UnqueuedNext, EventsAtHandNext
<1>2. CASE Halt
  BY <1>2 DEF Halt, disk, Unqueued, EventsAtHand, PublishedEventsStored
<1>3. CASE ExecFails \/ Dropped
  <2>1. /\ xpc' \in {"failed", "return"}
        /\ UNCHANGED <<responses, rollkitHeight, fbEvents, stackedEvents, fpc, published>>
    BY <1>3 DEF ExecFails, Dropped, disk, final
  <2> QED
    BY <2>1 DEF Unqueued, EventsAtHand, PublishedEventsStored
<1> QED
  BY <1>1, <1>2, <1>3, NodeSteps

\* With the default filter, what is published has its events and leaves them
\* on disk, in the whole process: when the bus is closed first, too.
THEOREM NodeStoresEvents == Filter = "always" => (QSpec => []PublishedEventsStored)
<1> SUFFICES ASSUME Filter = "always" PROVE QSpec => []PublishedEventsStored
  OBVIOUS
<1>1. QInit => Unqueued /\ EventsAtHand
  BY UnqueuedInit DEF QInit, NodeInit, Init, EventsAtHand, PublishedEventsStored
<1>2. NodeSound /\ Unqueued /\ EventsAtHand /\ [QNext]_allVars
        => Unqueued' /\ EventsAtHand'
  <2> SUFFICES ASSUME NodeSound, Unqueued, EventsAtHand, [QNext]_allVars
               PROVE  Unqueued' /\ EventsAtHand'
    OBVIOUS
  <2>1. CASE NodeNext
    BY <2>1, NodeEvents DEF NodeSound
  <2>2. CASE UNCHANGED vars
    BY <2>2, UnqueuedNext, EventsAtHandNext DEF NodeSound
  <2> QED
    BY <2>1, <2>2, QuerySteps DEF Alongside, Index, Answer, Ask, allVars, nodeVars
<1>3. EventsAtHand => PublishedEventsStored
  BY DEF EventsAtHand
<1> QED
  BY <1>1, <1>2, <1>3, NodeInvariance, PTL DEF QSpec

-----------------------------------------------------------------------------
(***************************************************************************)
(* BlockchainInfo.                                                         *)
(***************************************************************************)
LEMMA MinOfTwo ==
    ASSUME NEW a \in Int, NEW b \in Int
    PROVE  Min({a, b}) = IF a <= b THEN a ELSE b
<1> DEFINE m == IF a <= b THEN a ELSE b
<1>1. m \in {a, b} /\ \A y \in {a, b} : m <= y
  OBVIOUS
<1>2. \A x \in {a, b} : (\A y \in {a, b} : x <= y) => x = m
  OBVIOUS
<1> QED
  BY <1>1, <1>2 DEF Min

\* The largest of three numbers, two of them in order.
LEMMA MaxOfThree ==
    ASSUME NEW a \in Int, NEW b \in Int, NEW c \in Int, a <= b
    PROVE  Max({a, b, c}) = IF c <= b THEN b ELSE c
<1> DEFINE m == IF c <= b THEN b ELSE c
<1>1. m \in {a, b, c} /\ \A y \in {a, b, c} : m >= y
  OBVIOUS
<1>2. \A x \in {a, b, c} : (\A y \in {a, b, c} : x >= y) => x = m
  OBVIOUS
<1> QED
  BY <1>1, <1>2 DEF Max

\* An interval, newest first.
LEMMA NewestFirst ==
    ASSUME NEW lo \in Nat, NEW hi \in Nat, lo <= hi
    PROVE  Sorted(lo .. hi, "desc") = [i \in 1 .. hi - lo + 1 |-> hi - i + 1]
<1> DEFINE Above(h) == {g \in lo .. hi : g > h}
<1>1. Cardinality(lo .. hi) = hi - lo + 1
  BY FS_Interval
<1>2. ASSUME NEW h \in lo .. hi PROVE Cardinality(Above(h)) = hi - h
  <2>1. Above(h) = (h + 1) .. hi
    OBVIOUS
  <2>2. h \in Int /\ h + 1 \in Int /\ hi \in Int /\ h <= hi
    OBVIOUS
  <2>3. Cardinality((h + 1) .. hi) = IF h + 1 > hi THEN 0 ELSE hi - (h + 1) + 1
    BY <2>2, FS_Interval
  <2>4. Cardinality((h + 1) .. hi) = hi - h
    BY <2>2, <2>3
  <2> HIDE DEF Above
  <2> QED
    BY <2>1, <2>4
<1>3. ASSUME NEW i \in 1 .. hi - lo + 1
      PROVE  (CHOOSE h \in lo .. hi : Cardinality(Above(h)) = i - 1) = hi - i + 1
  <2>1. hi - i + 1 \in lo .. hi
    OBVIOUS
  <2>2. Cardinality(Above(hi - i + 1)) = i - 1
    BY <1>2, <2>1
  <2>3. \A h \in lo .. hi : Cardinality(Above(h)) = i - 1 => h = hi - i + 1
    BY <1>2
  <2> QED
    BY <2>1, <2>2, <2>3
<1>4. Sorted(lo .. hi, "desc") =
        [i \in 1 .. Cardinality(lo .. hi) |->
            CHOOSE h \in lo .. hi : Cardinality(Above(h)) = i - 1]
  BY DEF Sorted
<1> HIDE DEF Above
<1> QED
  BY <1>1, <1>3, <1>4

\* filterMinMax keeps the newest blocks of the range.
LEMMA NewestOfRange ==
    ASSUME NEW r \in Nat, NEW mini \in Nat, NEW maxi \in Nat,
           NEW hi \in Nat, hi = IF maxi = 0 THEN r ELSE IF r <= maxi THEN r ELSE maxi,
           NEW lo \in Nat, lo = IF mini = 0 THEN 1 ELSE mini
    PROVE  /\ {h \in 1 .. r : mini <= h /\ (maxi # 0 => h <= maxi)} = lo .. hi
           /\ filterMinMax(0, r, mini, maxi) =
                 [err |-> lo > hi,
                  mini |-> IF hi - limit + 1 <= lo THEN lo ELSE hi - limit + 1,
                  maxi |-> hi]
<1>0. limit \in Nat /\ limit >= 1
  BY QueriesAssumption
<1>1. {h \in 1 .. r : mini <= h /\ (maxi # 0 => h <= maxi)} = lo .. hi
  OBVIOUS
<1>2. Min({r, IF maxi = 0 THEN r ELSE maxi}) = hi
  <2>1. CASE maxi = 0
    BY <2>1, MinOfTwo
  <2>2. CASE maxi # 0
    BY <2>2, MinOfTwo
  <2> QED
    BY <2>1, <2>2
<1>3. Max({0, lo, hi - limit + 1}) = IF hi - limit + 1 <= lo THEN lo ELSE hi - limit + 1
  BY <1>0, MaxOfThree
<1>4. (IF hi - limit + 1 <= lo THEN lo ELSE hi - limit + 1) > hi <=> lo > hi
  BY <1>0
<1>5. ~ (mini < 0) /\ ~ (maxi < 0)
  OBVIOUS
<1>6. filterMinMax(0, r, mini, maxi) =
        [err |-> (IF hi - limit + 1 <= lo THEN lo ELSE hi - limit + 1) > hi,
         mini |-> IF hi - limit + 1 <= lo THEN lo ELSE hi - limit + 1, maxi |-> hi]
  BY <1>2, <1>3, <1>5 DEF filterMinMax
<1> QED
  BY <1>1, <1>4, <1>6

\* The heights asked for, newest first, cut at the limit.
LEMMA InfoHeightsNewest ==
    ASSUME NEW lo \in Nat, NEW hi \in Nat, lo <= hi,
           NEW m, m = IF hi - limit + 1 <= lo THEN lo ELSE hi - limit + 1,
           NEW q, q = [err |-> lo > hi, mini |-> m, maxi |-> hi]
    PROVE  InfoHeights(q) =
             SubSeq(Sorted(lo .. hi, "desc"), 1, Min({limit, Cardinality(lo .. hi)}))
<1>0. limit \in Nat /\ limit >= 1
  BY QueriesAssumption
<1> DEFINE n == hi - lo + 1
           k == IF limit <= n THEN limit ELSE n
           all == [i \in 1 .. n |-> hi - i + 1]
<1>1. n \in Nat /\ k \in Nat /\ k <= n /\ hi - m + 1 = k
  BY <1>0
<1>2. Cardinality(lo .. hi) = n
  BY FS_Interval
<1>3. Min({limit, Cardinality(lo .. hi)}) = k
  BY <1>0, <1>1, <1>2, MinOfTwo
<1>4. Sorted(lo .. hi, "desc") = all
  BY NewestFirst
<1>5. all \in Seq(Int) /\ Len(all) = n
  BY <1>1
<1>6. InfoHeights(q) = [i \in 1 .. k |-> hi - i + 1]
  BY <1>1 DEF InfoHeights
<1>7. SubSeq(all, 1, k) = [i \in 1 .. k |-> hi - i + 1]
  <2>1. SubSeq(all, 1, k) = [i \in 1 .. k |-> all[i]]
    <3> HIDE DEF all, k, n
    <3> QED
      BY <1>1, <1>5
  <2>2. \A i \in 1 .. k : all[i] = hi - i + 1
    <3>1. \A i \in 1 .. k : i \in 1 .. n
      <4> HIDE DEF k, n
      <4> QED
        BY <1>1
    <3> QED
      BY <3>1
  <2> HIDE DEF all, k
  <2> QED
    BY <2>1, <2>2
<1> HIDE DEF all, k
<1> QED
  BY <1>3, <1>4, <1>6, <1>7

\* The bounds of BlockchainInfo select the newest blocks.
LEMMA InfoSound == ASSUME IndInv PROVE InfoIsNewest
<1>0. rollkitHeight \in Nat /\ MaxHeight \in Nat
  BY AdapterAssumption DEF IndInv, TypeOK
<1> SUFFICES ASSUME NEW mini \in -1 .. MaxHeight, NEW maxi \in -1 .. MaxHeight
             PROVE  LET r == filterMinMax(0, rollkitHeight, mini, maxi)
                        range == {h \in 1 .. rollkitHeight :
                                    mini <= h /\ (maxi # 0 => h <= maxi)}
                    IN  /\ r.err <=> mini < 0 \/ maxi < 0 \/ range = {}
                        /\ ~ r.err => InfoHeights(r) =
                                         SubSeq(Sorted(range, "desc"), 1,
                                                Min({limit, Cardinality(range)}))
  BY DEF InfoIsNewest
<1> DEFINE r == filterMinMax(0, rollkitHeight, mini, maxi)
           range == {h \in 1 .. rollkitHeight : mini <= h /\ (maxi # 0 => h <= maxi)}
<1> SUFFICES /\ r.err <=> mini < 0 \/ maxi < 0 \/ range = {}
             /\ ~ r.err => InfoHeights(r) = SubSeq(Sorted(range, "desc"), 1,
                                                   Min({limit, Cardinality(range)}))
  OBVIOUS
<1>1. CASE mini < 0 \/ maxi < 0
  <2>1. r.err
    BY <1>1 DEF filterMinMax
  <2> HIDE DEF r
  <2> QED
    BY <1>1, <2>1
<1>2. CASE ~ (mini < 0) /\ ~ (maxi < 0)
  <2>1. mini \in Nat /\ maxi \in Nat
    BY <1>0, <1>2
  <2>2. PICK hi \in Nat : hi = IF maxi = 0 THEN rollkitHeight
                               ELSE IF rollkitHeight <= maxi THEN rollkitHeight ELSE maxi
    BY <1>0, <2>1
  <2>3. PICK lo \in Nat : lo = IF mini = 0 THEN 1 ELSE mini
    BY <2>1
  <2>4. PICK m : m = IF hi - limit + 1 <= lo THEN lo ELSE hi - limit + 1
    OBVIOUS
  <2>5. range = lo .. hi /\ r = [err |-> lo > hi, mini |-> m, maxi |-> hi]
    BY <1>0, <2>1, <2>2, <2>3, <2>4, NewestOfRange
  <2>6. r.err <=> lo > hi
    <3> HIDE DEF r
    <3> QED
      BY <2>5
  <2>7. range = {} <=> lo > hi
    <3> HIDE DEF range
    <3> QED
      BY <2>5
  <2>8. lo <= hi => InfoHeights(r) = SubSeq(Sorted(range, "desc"), 1,
                                            Min({limit, Cardinality(range)}))
    <3> HIDE DEF r, range
    <3> QED
      BY <2>4, <2>5, InfoHeightsNewest
  <2>9. lo > hi \/ lo <= hi
    OBVIOUS
  <2> HIDE DEF r, range
  <2> QED
    BY <1>2, <2>6, <2>7, <2>8, <2>9
<1> QED
  BY <1>1, <1>2

\* BlockchainInfo answers with the newest blocks of the range asked for, for
\* every chain length, range and limit, and refuses only an empty range.
THEOREM InfoIsAlwaysNewest == QSpec => []InfoIsNewest
<1>1. NodeSound => InfoIsNewest
  BY InfoSound DEF NodeSound
<1> QED
  BY <1>1, NodeInvariance, PTL

-----------------------------------------------------------------------------
(***************************************************************************)
(* Pagination.                                                             *)
(***************************************************************************)
\* F puts the first sequences of seqs together, one more at each step.
Joins(F, seqs, n) == /\ n \in Nat /\ n >= 1 /\ Len(seqs) = n
                     /\ F = [i \in 1 .. n |-> F[i]]
                     /\ F[1] = seqs[1]
                     /\ \A i \in 2 .. n : F[i] = F[i - 1] \o seqs[i]

\* FlattenSeq is defined by recursion; this is what it computes.
LEMMA FlattenComputes ==
    ASSUME NEW n, NEW seqs, NEW F, Joins(F, seqs, n)
    PROVE  FlattenSeq(seqs) = F[n]
<1>j. /\ n \in Nat /\ n >= 1 /\ Len(seqs) = n
      /\ F = [i \in 1 .. n |-> F[i]] /\ F[1] = seqs[1]
      /\ \A i \in 2 .. n : F[i] = F[i - 1] \o seqs[i]
  BY DEF Joins
<1> USE <1>j
<1> DEFINE Join(x, y) == x \o y
           Step(g) == [i \in 1 .. Len(seqs) |->
                         IF i = 1 THEN seqs[i] ELSE Join(g[i - 1], seqs[i])]
           G == CHOOSE g : g = Step(g)
<1>0. \A i \in 2 .. n : F[i] = Join(F[i - 1], seqs[i])
  OBVIOUS
<1>3. FlattenSeq(seqs) = G[n]
  BY DEF FlattenSeq
<1> HIDE DEF Join
<1>s. \A i \in 1 .. n : i = 1 \/ (i # 1 /\ i \in 2 .. n)
  OBVIOUS
<1>1. F = Step(F)
  <2>1. ASSUME NEW i \in 1 .. n
        PROVE  F[i] = IF i = 1 THEN seqs[i] ELSE Join(F[i - 1], seqs[i])
    BY <1>0, <1>s
  <2>2. F = [i \in 1 .. n |-> IF i = 1 THEN seqs[i] ELSE Join(F[i - 1], seqs[i])]
    BY <2>1
  <2> QED
    BY <2>2
<1>2. G = Step(G)
  BY <1>1
<1> HIDE DEF G
<1>4. G[1] = seqs[1] /\ \A i \in 2 .. n : G[i] = Join(G[i - 1], seqs[i])
  <2>1. \A i \in 1 .. n : G[i] = IF i = 1 THEN seqs[i] ELSE Join(G[i - 1], seqs[i])
    <3>1. \A i \in 1 .. n : Step(G)[i] = IF i = 1 THEN seqs[i] ELSE Join(G[i - 1], seqs[i])
      OBVIOUS
    <3> HIDE DEF Step
    <3> QED
      BY <1>2, <3>1
  <2>2. 1 \in 1 .. n /\ \A i \in 2 .. n : i \in 1 .. n /\ i # 1
    OBVIOUS
  <2> HIDE DEF Step
  <2> QED
    BY <2>1, <2>2
<1> HIDE DEF Step
<1> DEFINE Differ == {i \in 1 .. n : G[i] # F[i]}
<1>5. Differ = {}
  <2> SUFFICES ASSUME Differ # {} PROVE FALSE
    OBVIOUS
  <2>1. Differ \subseteq Nat
    OBVIOUS
  <2>2. PICK m \in Differ : \A k \in Differ : m <= k
    BY <2>1, Least
  <2>3. m \in 1 .. n /\ G[m] # F[m]
    OBVIOUS
  <2>4. m # 1
    BY <1>4, <2>3
  <2>5. m \in 2 .. n /\ m - 1 \in 1 .. n /\ ~ (m <= m - 1)
    BY <2>3, <2>4
  <2>6. G[m - 1] = F[m - 1]
    BY <2>2, <2>5
  <2> QED
    BY <1>0, <1>4, <2>3, <2>5, <2>6
<1>6. n \in 1 .. n
  OBVIOUS
<1> QED
  BY <1>3, <1>5, <1>6

\* A prefix and what follows it.
LEMMA PrefixJoin ==
    ASSUME NEW S, NEW q \in Seq(S), NEW a \in Nat, NEW b \in Nat, a <= b, b <= Len(q)
    PROVE  SubSeq(q, 1, a) \o SubSeq(q, a + 1, b) = SubSeq(q, 1, b)
<1>0. Len(q) \in Nat
  OBVIOUS
<1>1. /\ SubSeq(q, 1, a) \in Seq(S) /\ Len(SubSeq(q, 1, a)) = a
      /\ \A i \in 1 .. a : SubSeq(q, 1, a)[i] = q[i]
  BY <1>0
<1>2. /\ SubSeq(q, a + 1, b) \in Seq(S) /\ Len(SubSeq(q, a + 1, b)) = b - a
      /\ \A i \in 1 .. b - a : SubSeq(q, a + 1, b)[i] = q[a + i]
  BY <1>0
<1>3. /\ SubSeq(q, 1, b) \in Seq(S) /\ Len(SubSeq(q, 1, b)) = b
      /\ \A i \in 1 .. b : SubSeq(q, 1, b)[i] = q[i]
  BY <1>0
<1> DEFINE x == SubSeq(q, 1, a)
           y == SubSeq(q, a + 1, b)
           z == SubSeq(q, 1, b)
<1> HIDE DEF x, y, z
<1>4. /\ x \o y \in Seq(S) /\ Len(x \o y) = b
      /\ \A i \in 1 .. b : (x \o y)[i] = IF i <= a THEN x[i] ELSE y[i - a]
  <2>1. x \in Seq(S) /\ y \in Seq(S) /\ Len(x) = a /\ Len(y) = b - a
    BY <1>1, <1>2 DEF x, y
  <2> QED
    BY <2>1, ConcatProperties
<1>5. ASSUME NEW i \in 1 .. b PROVE (x \o y)[i] = z[i]
  <2>1. CASE i <= a
    <3>1. i \in 1 .. a
      BY <2>1
    <3> QED
      BY <1>1, <1>3, <1>4, <2>1, <3>1 DEF x, z
  <2>2. CASE ~ (i <= a)
    <3>1. i - a \in 1 .. b - a /\ a + (i - a) = i
      BY <2>2
    <3>2. y[i - a] = q[i]
      BY <1>2, <3>1 DEF y
    <3> QED
      BY <1>3, <1>4, <2>2, <3>2 DEF z
  <2> QED
    BY <2>1, <2>2
<1>6. z \in Seq(S) /\ Len(z) = b
  BY <1>3 DEF z
<1>7. x \o y = z
  BY <1>4, <1>5, <1>6, SeqEqual
<1> QED
  BY <1>7 DEF x, y, z

\* Two numbers in order stay so when multiplied by the page size.
LEMMA TimesMonotonic ==
    ASSUME NEW a \in Nat, NEW b \in Nat, NEW p \in Nat, a <= b
    PROVE  a * p <= b * p
OBVIOUS

\* The number of pages: the last one begins within the results and ends with
\* them.
LEMMA PagesBound ==
    ASSUME NEW N \in Nat, NEW p \in Nat, p >= 1, NEW n, n = Pages(p, N)
    PROVE  /\ n \in Nat /\ n >= 1
           /\ (n - 1) * p <= N
           /\ N <= n * p
<1>1. CASE N = 0
  <2>1. Quo(N - 1, p) = -(1 \div p)
    BY <1>1 DEF Quo
  <2>2. 1 \div p \in {0, 1}
    OBVIOUS
  <2>3. n = 1
    BY <2>1, <2>2 DEF Pages
  <2> QED
    BY <1>1, <2>3
<1>2. CASE N >= 1
  <2> DEFINE d == (N - 1) \div p
             e == (N - 1) % p
  <2>1. d \in Nat /\ e \in Nat /\ e < p /\ N - 1 = d * p + e
    BY <1>2
  <2>2. Quo(N - 1, p) = d
    BY <1>2 DEF Quo
  <2> HIDE DEF d, e
  <2>3. n = d + 1
    BY <2>1, <2>2 DEF Pages
  <2>4. (d + 1) * p = d * p + p /\ d * p \in Nat
    BY <2>1
  <2>5. n - 1 = d
    BY <2>1, <2>3
  <2> QED
    BY <2>1, <2>3, <2>4, <2>5
<1> QED
  BY <1>1, <1>2

\* What validatePerPage makes of a client's per_page is usable.
LEMMA PerPageValid ==
    ASSUME NEW perPage \in PerPages
    PROVE  validatePerPage(perPage) \in Nat /\ validatePerPage(perPage) >= 1
<1>1. /\ perPage = Nil \/ (perPage # Nil /\ perPage \in Int)
      /\ defaultPerPage \in Nat /\ defaultPerPage >= 1
      /\ maxPerPage \in Nat /\ maxPerPage >= 1
  BY QueriesAssumption
<1> QED
  BY <1>1 DEF validatePerPage

\* Page k of the results ends where k full pages end, or with the results.
LEMMA PageIs ==
    ASSUME NEW S, NEW results \in Seq(S), NEW perPage \in PerPages,
           NEW p \in Nat, p >= 1, p = validatePerPage(perPage),
           NEW k \in Nat, k >= 1, (k - 1) * p <= Len(results)
    PROVE  Page(results, k, perPage) =
             SubSeq(results, (k - 1) * p + 1,
                    IF k * p <= Len(results) THEN k * p ELSE Len(results))
<1>0. Len(results) \in Nat /\ k # Nil
  BY QueriesAssumption
<1>1. PICK skip \in Nat : skip = (k - 1) * p
  OBVIOUS
<1>2. k * p = skip + p
  BY <1>1
<1>3. validateSkipCount(k, p) = skip
  BY <1>1 DEF validateSkipCount
<1>4. Min({p, Len(results) - skip}) = IF p <= Len(results) - skip THEN p ELSE Len(results) - skip
  BY <1>0, MinOfTwo
<1>5. skip + Min({p, Len(results) - skip}) =
        IF skip + p <= Len(results) THEN skip + p ELSE Len(results)
  BY <1>0, <1>4
<1>6. Page(results, k, perPage) =
        SubSeq(results, skip + 1, skip + Min({p, Len(results) - skip}))
  BY <1>0, <1>3 DEF Page
<1> QED
  BY <1>1, <1>2, <1>5, <1>6

\* Put together, the pages are the results.
LEMMA PagesJoin ==
    ASSUME NEW S, NEW results \in Seq(S), NEW perPage \in PerPages,
           NEW n, n = Pages(validatePerPage(perPage), Len(results))
    PROVE  FlattenSeq([k \in 1 .. n |-> Page(results, k, perPage)]) = results
<1>1. PICK p \in Nat : p >= 1 /\ p = validatePerPage(perPage)
  BY PerPageValid
<1>2. PICK N \in Nat : N = Len(results)
  OBVIOUS
<1>3. n \in Nat /\ n >= 1 /\ (n - 1) * p <= N /\ N <= n * p
  BY <1>1, <1>2, PagesBound
<1> DEFINE Cut(k) == IF k * p <= N THEN k * p ELSE N
           F == [k \in 1 .. n |-> SubSeq(results, 1, Cut(k))]
           seqs == [k \in 1 .. n |-> Page(results, k, perPage)]
<1>4. \A k \in Nat : k * p \in Nat
  OBVIOUS
<1>5. \A k \in Nat : Cut(k) \in Nat /\ Cut(k) <= N
  BY <1>4
<1>6. ASSUME NEW k \in 1 .. n
      PROVE  /\ k \in Nat /\ k >= 1 /\ k - 1 \in Nat
             /\ (k - 1) * p <= N /\ Cut(k - 1) = (k - 1) * p
             /\ Cut(k - 1) <= Cut(k)
             /\ Page(results, k, perPage) = SubSeq(results, Cut(k - 1) + 1, Cut(k))
  <2>1. k \in Nat /\ k >= 1 /\ k - 1 \in Nat /\ n - 1 \in Nat /\ k - 1 <= n - 1
    BY <1>3
  <2>2. (k - 1) * p <= (n - 1) * p
    BY <2>1, TimesMonotonic
  <2>3. (k - 1) * p <= N
    <3>1. (k - 1) * p \in Nat /\ (n - 1) * p \in Nat
      BY <1>4, <2>1
    <3>2. PICK u \in Nat, w \in Nat : u = (k - 1) * p /\ w = (n - 1) * p
      BY <3>1
    <3>3. u <= w /\ w <= N
      BY <1>3, <2>2, <3>2
    <3>4. u <= N
      BY <3>3
    <3> QED
      BY <3>2, <3>4
  <2>4. Cut(k - 1) = (k - 1) * p
    BY <2>3
  <2>5. Cut(k - 1) <= Cut(k)
    <3>1. (k - 1) * p <= k * p
      BY <2>1, TimesMonotonic
    <3> QED
      BY <2>3, <2>4, <3>1
  <2>6. Page(results, k, perPage) = SubSeq(results, (k - 1) * p + 1, Cut(k))
    BY <1>1, <1>2, <2>1, <2>3, PageIs
  <2> HIDE DEF Cut
  <2> QED
    BY <2>1, <2>3, <2>4, <2>5, <2>6
<1>7. Cut(0) = 0
  OBVIOUS
<1>8. Cut(n) = N
  <2>1. PICK u \in Nat : u = n * p
    BY <1>3, <1>4
  <2> QED
    BY <1>3, <2>1
<1> HIDE DEF Cut
<1>9. F[1] = seqs[1]
  <2>1. 1 \in 1 .. n /\ 1 - 1 = 0 /\ 0 + 1 = 1
    BY <1>3
  <2>2. Page(results, 1, perPage) = SubSeq(results, 1, Cut(1))
    BY <1>6, <1>7, <2>1
  <2> QED
    BY <2>1, <2>2
<1>10. ASSUME NEW k \in 2 .. n PROVE F[k] = F[k - 1] \o seqs[k]
  <2>1. k \in 1 .. n /\ k - 1 \in 1 .. n
    BY <1>3
  <2>2. F[k] = SubSeq(results, 1, Cut(k)) /\ F[k - 1] = SubSeq(results, 1, Cut(k - 1))
        /\ seqs[k] = SubSeq(results, Cut(k - 1) + 1, Cut(k))
    BY <1>6, <2>1
  <2>3. /\ Cut(k - 1) \in Nat /\ Cut(k) \in Nat
        /\ Cut(k - 1) <= Cut(k) /\ Cut(k) <= Len(results)
    BY <1>2, <1>5, <1>6, <2>1
  <2>4. SubSeq(results, 1, Cut(k - 1)) \o SubSeq(results, Cut(k - 1) + 1, Cut(k))
          = SubSeq(results, 1, Cut(k))
    BY <2>3, PrefixJoin
  <2> HIDE DEF F, seqs
  <2> QED
    BY <2>2, <2>4
<1>11. F = [k \in 1 .. n |-> F[k]]
  OBVIOUS
<1>12. Len(seqs) = n
  BY <1>3
<1>13. F[n] = results
  <2>1. n \in 1 .. n
    BY <1>3
  <2>2. F[n] = SubSeq(results, 1, Len(results))
    BY <1>2, <1>8, <2>1
  <2>3. SubSeq(results, 1, Len(results)) = results
    OBVIOUS
  <2> QED
    BY <2>2, <2>3
<1> HIDE DEF F, seqs
<1>14. \A k \in 2 .. n : F[k] = F[k - 1] \o seqs[k]
  BY <1>10
<1>15. FlattenSeq(seqs) = F[n]
  <2>1. Joins(F, seqs, n)
    BY <1>3, <1>9, <1>11, <1>12, <1>14 DEF Joins
  <2> QED
    BY <2>1, FlattenComputes
<1> QED
  BY <1>13, <1>15 DEF seqs

\* The index holds heights.
Indexed == indexed \subseteq Heights /\ indexPos \in Nat

\* Only published blocks are indexed.
LEMMA IndexedNext == ASSUME NodeSound, Indexed, [QNext]_allVars PROVE Indexed'
<1>0. published \in Seq(Publications)
  BY DEF NodeSound, IndInv, TypeOK, Publications
<1>1. CASE Index
  <2>1. indexPos < Len(published) /\ indexPos' = indexPos + 1
        /\ indexed' = indexed \cup {published[indexPos + 1].height}
    BY <1>1 DEF Index
  <2>2. indexPos + 1 \in DOMAIN published
    BY <1>0, <2>1 DEF Indexed
  <2>3. published[indexPos + 1].height \in Heights
    BY <2>2, PublishedHeight DEF NodeSound
  <2> QED
    BY <2>1, <2>3 DEF Indexed
<1>2. CASE Alongside(NodeNext)
  <2>1. indexed' = indexed /\ indexPos' \in {indexPos, Len(published)}
    BY <1>2 DEF Alongside
  <2>2. Len(published) \in Nat
    BY <1>0
  <2> QED
    BY <2>1, <2>2 DEF Indexed
<1> QED
  BY <1>1, <1>2, QuerySteps DEF Answer, Ask, allVars, queryVars, Indexed

\* The pages of what is indexed are a partition of it.
LEMMA PagesSound == ASSUME Indexed PROVE PagesPartition
<1>1. IsFiniteSet(indexed) /\ Cardinality(indexed) \in Nat
  <2>1. IsFiniteSet(Heights)
    BY AdapterAssumption, FS_Interval DEF Heights
  <2>2. IsFiniteSet(indexed)
    BY <2>1, FS_Subset DEF Indexed
  <2> QED
    BY <2>2, FS_CardinalityType
<1> SUFFICES ASSUME NEW perPage \in PerPages, NEW orderBy \in {"asc", "desc"}
             PROVE  LET results == Sorted(indexed, orderBy)
                        n == Pages(validatePerPage(perPage), Len(results))
                    IN  FlattenSeq([k \in 1 .. n |-> Page(results, k, perPage)]) = results
  BY DEF PagesPartition
<1> DEFINE results == Sorted(indexed, orderBy)
<1>2. results = [i \in 1 .. Cardinality(indexed) |-> results[i]]
  <2> DEFINE Nth(i) ==
               CHOOSE h \in indexed :
                   Cardinality({g \in indexed : IF orderBy = "desc" THEN g > h ELSE g < h})
                       = i - 1
  <2>1. results = [i \in 1 .. Cardinality(indexed) |-> Nth(i)]
    BY DEF Sorted
  <2> HIDE DEF results, Nth
  <2> QED
    BY <2>1
<1> HIDE DEF results
<1>3. PICK S : S = {results[i] : i \in 1 .. Cardinality(indexed)}
  OBVIOUS
<1>4. results \in Seq(S)
  BY <1>1, <1>2, <1>3
<1>5. FlattenSeq([k \in 1 .. Pages(validatePerPage(perPage), Len(results)) |->
                     Page(results, k, perPage)]) = results
  BY <1>4, PagesJoin
<1> QED
  BY <1>5 DEF results

\* The pages of a search partition its results, whatever per_page a client
\* asks for, however many blocks the index has found.
THEOREM PagesAlwaysPartition == QSpec => []PagesPartition
<1>1. QInit => Indexed
  BY DEF QInit, Indexed
<1>2. NodeSound /\ Indexed /\ [QNext]_allVars => Indexed'
  BY IndexedNext
<1>3. Indexed => PagesPartition
  BY PagesSound
<1> QED
  BY <1>1, <1>2, <1>3, NodeInvariance, PTL DEF QSpec
=============================================================================
