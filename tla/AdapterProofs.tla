---------------------------- MODULE AdapterProofs ----------------------------
(***************************************************************************)
(* Proofs about Adapter, for any number of blocks, any validator updates,  *)
(* both filters and every combination of failures.                         *)
(*                                                                         *)
(* The inductive invariant says how far each step of ExecuteTxs has got    *)
(* (Progress), what is in the queue (Queue) and where SetFinal stands in   *)
(* it (Release).  The queue part has to survive the unlocked accesses of   *)
(* the two loops: the view of the queue that append will write back is     *)
(* longer than any queue SetFinal has scanned meanwhile.  On top of it:    *)
(* the validators of the saved state, what a restart can recover, the      *)
(* events that reach the subscribers, and the refinement of Publication.   *)
(***************************************************************************)
EXTENDS Adapter, SequenceTheorems, WellFoundedInduction, TLAPS

\* What the event bus has carried.
Publications == [height : Heights, response : {"cleared", "full"}]

\* ExecuteTxs is past the application's commit.
Committed == {"saveBlockID", "filter", "saveResponse", "fire", "stack",
              "stackWrite", "clear", "return"}

\* ExecuteTxs is under way.
Working == Committed \cup {"finalize", "saveState", "commit"}

Progress ==
    /\ xpc \in Working => blk <= MaxHeight
    /\ ~ up => xpc = "idle"
    /\ xpc = "initChain" => rollkitHeight = 0
    /\ xpc = "saveState" => xs.height = blk
    /\ xpc \in {"saveState", "commit"} => appHeight = rollkitHeight
    /\ xpc \in Committed \cup {"commit"} => state.height = blk
    /\ xpc \in Committed => appHeight = blk
    /\ xpc \in Committed \ {"saveBlockID"} => blk \in blockIDs
    /\ xpc \in {"fire", "return"} => responses[blk] # "none"

\* The blocks in a queue are stored, except that the last one may be the
\* block whose execution is about to return.
Queue(q) ==
    \A i \in DOMAIN q :
        \/ q[i] <= rollkitHeight
        \/ /\ i = Len(q)
           /\ q[i] = blk
           /\ xpc \in {"clear", "return", "failed"}

Appending ==
    xpc = "stackWrite" =>
        /\ Len(appended) > Len(stackedEvents)
        /\ appended[Len(appended)] = blk
        /\ \A i \in 1 .. Len(appended) - 1 : appended[i] <= rollkitHeight

Release ==
    /\ fpc \notin {"idle", "failed"} => daHeight < rollkitHeight
    /\ fpc \in {"release", "releaseFire"} =>
          /\ 1 <= pos /\ pos <= maxPosReleased
          /\ maxPosReleased <= Len(stackedEvents)
          /\ stackedEvents[maxPosReleased] <= rollkitHeight
    /\ daHeight <= rollkitHeight

IndInv ==
    /\ TypeOK
    /\ Progress
    /\ StoredBlocksComplete
    /\ StateNeverBehindApp
    /\ Queue(stackedEvents)
    /\ fpc = "trim" => Queue(kept) /\ Len(kept) <= Len(stackedEvents)
    /\ Appending
    /\ Release
    /\ PublishedAfterSave

-----------------------------------------------------------------------------
\* The height of a queue entry.
LEMMA SeqElement ==
    ASSUME NEW q \in Seq(Heights), NEW i \in DOMAIN q
    PROVE  q[i] \in Heights /\ i \in 1 .. Len(q) /\ Len(q) \in Nat
OBVIOUS

\* The states that InitChain and a restart leave have the type of a state.
LEMMA StateTypes == NoState \in States /\ GenesisState \in States
<1>1. NoState \in States
  BY AdapterAssumption DEF NoState, States
<1>2. {Genesis} \in SUBSET Vals /\ 0 \in 0 .. MaxHeight
  BY AdapterAssumption
<1> QED
  BY <1>1, <1>2 DEF GenesisState, States

\* The block under execution is within the bound.
LEMMA BlkType ==
    ASSUME IndInv, xpc \in Working
    PROVE  blk \in Heights /\ blk \in 0 .. MaxHeight
BY AdapterAssumption DEF IndInv, TypeOK, Progress, blk, Heights

\* The height of a publication.
LEMMA PublishedHeight ==
    ASSUME IndInv
    PROVE  \A i \in DOMAIN published : published[i].height \in Heights
<1>1. published \in Seq(Publications)
  BY DEF IndInv, TypeOK, Publications
<1>2. ASSUME NEW i \in DOMAIN published PROVE published[i] \in Publications
  BY <1>1, ElementOfSeq
<1> QED
  BY <1>2 DEF Publications

\* A publication has its type.
LEMMA PublishType ==
    ASSUME TypeOK, NEW h \in Heights, published' = Append(published, Publication(h))
    PROVE  published' \in Seq(Publications)
<1>1. Publication(h) \in Publications
  BY DEF Publication, Response, Publications
<1>2. published \in Seq(Publications)
  BY DEF TypeOK, Publications
<1> QED
  BY <1>1, <1>2, AppendProperties

\* Publishing a block that is committed and saved.
LEMMA PublishSaved ==
    ASSUME IndInv, NEW h \in Heights, published' = Append(published, Publication(h)),
           h <= appHeight, h \in blockIDs, responses[h] # "none",
           UNCHANGED <<appHeight, blockIDs, responses>>
    PROVE  PublishedAfterSave'
<1>1. published \in Seq(Publications)
  BY DEF IndInv, TypeOK, Publications
<1>2. Publication(h).height = h
  BY DEF Publication
<1>3. ASSUME NEW i \in DOMAIN published'
      PROVE  (i \in DOMAIN published /\ published'[i] = published[i])
             \/ published'[i] = Publication(h)
  BY <1>1
<1> QED
  BY <1>2, <1>3 DEF IndInv, PublishedAfterSave

\* The start state satisfies the invariant.
LEMMA InitInv == Init => IndInv
<1> SUFFICES ASSUME Init PROVE IndInv
  OBVIOUS
<1>1. NoState \in States
  BY StateTypes
<1>a. /\ appHeight \in 0 .. MaxHeight
      /\ rollkitHeight \in 0 .. MaxHeight
      /\ daHeight \in 0 .. MaxHeight
      /\ pos \in Nat /\ maxPosReleased \in Nat
  BY AdapterAssumption DEF Init
<1>b. /\ appended \in Seq(Heights)
      /\ stackedEvents \in Seq(Heights)
      /\ kept \in Seq(Heights)
      /\ published \in Seq(Publications)
  BY DEF Init
<1>c. up \in BOOLEAN /\ responses \in [Heights -> {"none", "cleared", "full"}]
  BY Zenon DEF Init
<1>2. TypeOK
  BY <1>1, <1>a, <1>b, <1>c, Zenon DEF Init, TypeOK, Publications
<1>3. Progress /\ StoredBlocksComplete /\ StateNeverBehindApp
  BY AdapterAssumption DEF Init, Progress, Working, Committed, blk,
     StoredBlocksComplete, StateNeverBehindApp
<1>4. Queue(stackedEvents) /\ Appending /\ Release /\ PublishedAfterSave
  BY DEF Init, Queue, Appending, Release, PublishedAfterSave
<1> QED
  BY <1>2, <1>3, <1>4 DEF Init, IndInv

\* An error of the block loop preserves the invariant.
LEMMA ExecFailsInv == ASSUME IndInv, up, ExecFails PROVE IndInv'
<1> USE DEF IndInv, ExecFails, disk, final
<1>1. TypeOK' 
  BY DEF TypeOK
<1>2. Progress' /\ StoredBlocksComplete' /\ StateNeverBehindApp' /\ PublishedAfterSave'
  BY DEF Progress, Working, Committed, StoredBlocksComplete, StateNeverBehindApp, PublishedAfterSave
<1>3. Queue(stackedEvents)' /\ (fpc = "trim" => Queue(kept) /\ Len(kept) <= Len(stackedEvents))'
  BY DEF Queue, blk
<1>4. Appending' /\ Release'
  BY DEF Appending, Release
<1> QED
  BY <1>1, <1>2, <1>3, <1>4 

\* So does an error of SetFinal.
LEMMA FinalFailsInv == ASSUME IndInv, FinalFails PROVE IndInv'
<1> USE DEF IndInv, FinalFails, disk, exec
<1>1. TypeOK' 
  BY DEF TypeOK
<1>2. Progress' /\ StoredBlocksComplete' /\ StateNeverBehindApp' /\ PublishedAfterSave'
  BY DEF Progress, blk, StoredBlocksComplete, StateNeverBehindApp, PublishedAfterSave
<1>3. Queue(stackedEvents)' /\ (fpc = "trim" => Queue(kept) /\ Len(kept) <= Len(stackedEvents))'
  BY DEF Queue, blk
<1>4. Appending' /\ Release'
  BY DEF Appending, Release, blk
<1> QED
  BY <1>1, <1>2, <1>3, <1>4 
\* StartNode.
LEMMA StartNodeInv == ASSUME IndInv, StartNode PROVE IndInv'
<1> USE DEF IndInv, StartNode, disk, final
<1>1. TypeOK'
  BY DEF TypeOK
<1>2. Progress'
  BY DEF TypeOK, Progress, Working, Committed, blk
<1>4. Queue(stackedEvents)' /\ (fpc = "trim" => Queue(kept) /\ Len(kept) <= Len(stackedEvents))'
  BY DEF TypeOK, Progress, Queue, blk
<1> QED
  BY <1>1, <1>2, <1>4
     DEF StoredBlocksComplete, StateNeverBehindApp, Appending, Release, PublishedAfterSave

\* Whatever stops the node, the disk is left as it is.
LEMMA HaltInv == ASSUME IndInv, Halt PROVE IndInv'
<1> USE DEF IndInv, Halt, disk
<1>1. TypeOK'
  <2>1. xs' \in States
    BY StateTypes
  <2>a. up' \in BOOLEAN
    BY Zenon
  <2>2. /\ appended' \in Seq(Heights) /\ kept' \in Seq(Heights)
        /\ stackedEvents' \in Seq(Heights)
        /\ pos' \in Nat /\ maxPosReleased' \in Nat
    OBVIOUS
  <2> QED
    BY <2>1, <2>a, <2>2 DEF TypeOK
<1>2. Progress' /\ Queue(stackedEvents)' /\ Appending' /\ Release'
  BY DEF TypeOK, Progress, Working, Committed, Queue, Appending, Release
<1> QED
  BY <1>1, <1>2 DEF StoredBlocksComplete, StateNeverBehindApp, PublishedAfterSave

\* InitChain.
LEMMA InitChainInv == ASSUME IndInv, InitChain PROVE IndInv'
<1>1. CASE ExecFails
  BY <1>1, ExecFailsInv DEF InitChain, At
<1>2. CASE ~ ExecFails
  <2> USE <1>2 DEF IndInv, InitChain, At, final
  <2>1. TypeOK'
    <3>1. state' \in States
      BY StateTypes
    <3> QED
      BY <3>1 DEF TypeOK
  <2>2. Progress'
    BY DEF Progress, Working, Committed
  <2>3. StoredBlocksComplete' /\ StateNeverBehindApp'
    <3>1. rollkitHeight' = 0 /\ rollkitHeight = 0 /\ UNCHANGED <<appHeight, blockIDs, responses>>
      BY DEF Progress
    <3> QED
      BY <3>1 DEF StoredBlocksComplete, StateNeverBehindApp
  <2>4. Queue(stackedEvents)' /\ (fpc = "trim" => Queue(kept) /\ Len(kept) <= Len(stackedEvents))'
    BY DEF Queue, blk
  <2> QED
    BY <2>1, <2>2, <2>3, <2>4 DEF Appending, Release, PublishedAfterSave
<1> QED
  BY <1>1, <1>2

\* FinalizeBlock.
LEMMA FinalizeBlockInv == ASSUME IndInv, FinalizeBlock PROVE IndInv'
<1>1. CASE ExecFails
  BY <1>1, ExecFailsInv DEF FinalizeBlock, At
<1>2. CASE ~ ExecFails
  <2> USE <1>2 DEF IndInv, FinalizeBlock, At, disk, final
  <2>0. /\ blk \in Heights /\ blk \in 0 .. MaxHeight
        /\ xs' = NextState(xs, blk, ValUpdates[blk])
        /\ appHeight + 1 = blk
    BY BlkType DEF Working, AppAccepts
  <2>1. TypeOK'
    <3>1. xs' \in States
      <4>1. ValUpdates[blk].add \in SUBSET Vals
        BY <2>0, AdapterAssumption
      <4>2. xs.vals \in SUBSET Vals
        BY DEF TypeOK, States
      <4> QED
        BY <2>0, <4>1, <4>2 DEF NextState, States
    <3> QED
      BY <2>0, <3>1 DEF TypeOK
  <2>2. Progress'
    <3>1. xs'.height = blk
      BY <2>0 DEF NextState
    <3>2. appHeight = rollkitHeight
      BY <2>0 DEF TypeOK, blk
    <3> QED
      BY <3>1, <3>2 DEF Progress, Working, Committed, blk
  <2>4. Queue(stackedEvents)' /\ (fpc = "trim" => Queue(kept) /\ Len(kept) <= Len(stackedEvents))'
    BY DEF Queue, blk
  <2> QED
    BY <2>1, <2>2, <2>4
       DEF StoredBlocksComplete, StateNeverBehindApp, Appending, Release, PublishedAfterSave
<1> QED
  BY <1>1, <1>2

\* SaveState.
LEMMA SaveStateInv == ASSUME IndInv, SaveState PROVE IndInv'
<1>1. CASE ExecFails
  BY <1>1, ExecFailsInv DEF SaveState, At
<1>2. CASE ~ ExecFails
  <2> USE <1>2 DEF IndInv, SaveState, At, final
  <2>1. TypeOK'
    BY DEF TypeOK
  <2>2. Progress'
    BY DEF TypeOK, Progress, Working, Committed, blk
  <2>3. StoredBlocksComplete' /\ StateNeverBehindApp'
    BY DEF TypeOK, Progress, blk, StoredBlocksComplete, StateNeverBehindApp
  <2>4. Queue(stackedEvents)' /\ (fpc = "trim" => Queue(kept) /\ Len(kept) <= Len(stackedEvents))'
    BY DEF Queue, blk
  <2> QED
    BY <2>1, <2>2, <2>3, <2>4 DEF Appending, Release, PublishedAfterSave
<1> QED
  BY <1>1, <1>2

\* Commit.
LEMMA CommitInv == ASSUME IndInv, Commit PROVE IndInv'
<1>1. CASE ExecFails
  BY <1>1, ExecFailsInv DEF Commit, At
<1>2. CASE ~ ExecFails
  <2> USE <1>2 DEF IndInv, Commit, At, final
  <2>1. TypeOK'
    BY BlkType DEF TypeOK, Working
  <2>2. Progress'
    BY DEF TypeOK, Progress, Working, Committed, blk
  <2>3. StoredBlocksComplete' /\ StateNeverBehindApp'
    BY DEF TypeOK, Progress, Committed, blk, StoredBlocksComplete, StateNeverBehindApp
  <2>4. Queue(stackedEvents)' /\ (fpc = "trim" => Queue(kept) /\ Len(kept) <= Len(stackedEvents))'
    BY DEF Queue, blk
  <2>5. PublishedAfterSave'
    <3>1. appHeight \in Nat /\ appHeight = rollkitHeight
      BY DEF TypeOK, Progress
    <3>2. appHeight' = rollkitHeight + 1 /\ UNCHANGED <<blockIDs, responses, published>>
      BY DEF blk
    <3>3. \A i \in DOMAIN published : published[i].height \in Nat
      BY PublishedHeight DEF Heights
    <3> HIDE DEF Commit
    <3> QED
      BY <3>1, <3>2, <3>3 DEF PublishedAfterSave
  <2> QED
    BY <2>1, <2>2, <2>3, <2>4, <2>5 DEF Appending, Release
<1> QED
  BY <1>1, <1>2

\* SaveBlockID.
LEMMA SaveBlockIDInv == ASSUME IndInv, SaveBlockID PROVE IndInv'
<1>1. CASE ExecFails
  BY <1>1, ExecFailsInv DEF SaveBlockID, At
<1>2. CASE ~ ExecFails
  <2> USE <1>2 DEF IndInv, SaveBlockID, At, final
  <2>1. TypeOK'
    <3>1. blk \in Heights
      BY DEF TypeOK, Progress, Working, Committed, blk, Heights
    <3> QED
      BY <3>1 DEF TypeOK
  <2>2. Progress'
    BY DEF Progress, Working, Committed, blk
  <2>3. StoredBlocksComplete' /\ StateNeverBehindApp' /\ PublishedAfterSave'
    BY DEF StoredBlocksComplete, StateNeverBehindApp, PublishedAfterSave
  <2>4. Queue(stackedEvents)' /\ (fpc = "trim" => Queue(kept) /\ Len(kept) <= Len(stackedEvents))'
    BY DEF Queue, blk
  <2> QED
    BY <2>1, <2>2, <2>3, <2>4 DEF Appending, Release
<1> QED
  BY <1>1, <1>2

\* ProcessProposal and FilterBlock only move the block loop on.
LEMMA ProcessProposalInv == ASSUME IndInv, ProcessProposal PROVE IndInv'
<1>1. CASE ExecFails
  BY <1>1, ExecFailsInv DEF ProcessProposal, At
<1>2. CASE ~ ExecFails
  <2> USE <1>2 DEF IndInv, ProcessProposal, At, disk, final
  <2>1. TypeOK' /\ Progress'
    BY DEF TypeOK, Progress, Working, Committed, blk
  <2>2. Queue(stackedEvents)' /\ (fpc = "trim" => Queue(kept) /\ Len(kept) <= Len(stackedEvents))'
    BY DEF Queue, blk
  <2> QED
    BY <2>1, <2>2
       DEF StoredBlocksComplete, StateNeverBehindApp, PublishedAfterSave, Appending, Release
<1> QED
  BY <1>1, <1>2

\* The filter decides between publishing and queueing.
LEMMA FilterBlockInv == ASSUME IndInv, FilterBlock PROVE IndInv'
<1> USE DEF IndInv, FilterBlock, At, disk, final
<1>1. TypeOK' /\ Progress'
  BY DEF TypeOK, Progress, Working, Committed, blk
<1>2. Queue(stackedEvents)' /\ (fpc = "trim" => Queue(kept) /\ Len(kept) <= Len(stackedEvents))'
  BY DEF Queue, blk
<1> QED
  BY <1>1, <1>2
     DEF StoredBlocksComplete, StateNeverBehindApp, PublishedAfterSave, Appending, Release

\* SaveBlockResponse.
LEMMA SaveBlockResponseInv == ASSUME IndInv, SaveBlockResponse PROVE IndInv'
<1>1. CASE ExecFails
  BY <1>1, ExecFailsInv DEF SaveBlockResponse, At
<1>2. CASE ~ ExecFails
  <2> USE <1>2 DEF IndInv, SaveBlockResponse, At, final
  <2>0. blk \in Heights
    BY DEF TypeOK, Progress, Working, Committed, blk, Heights
  <2>1. TypeOK'
    BY <2>0 DEF TypeOK
  <2>2. Progress'
    BY <2>0 DEF TypeOK, Progress, Working, Committed, blk
  <2>3. StoredBlocksComplete' /\ StateNeverBehindApp'
    BY <2>0 DEF TypeOK, StoredBlocksComplete, StateNeverBehindApp, Heights
  <2>4. Queue(stackedEvents)' /\ (fpc = "trim" => Queue(kept) /\ Len(kept) <= Len(stackedEvents))'
    BY DEF Queue, blk
  <2>5. PublishedAfterSave'
    <3>1. \A h \in Heights : responses[h] # "none" => responses'[h] # "none"
      BY <2>0 DEF TypeOK
    <3> QED
      BY <3>1, PublishedHeight DEF PublishedAfterSave
  <2> QED
    BY <2>1, <2>2, <2>3, <2>4, <2>5 DEF Appending, Release
<1> QED
  BY <1>1, <1>2

\* FireEvents.
LEMMA FireEventsInv == ASSUME IndInv, FireEvents PROVE IndInv'
<1>1. CASE ExecFails
  BY <1>1, ExecFailsInv DEF FireEvents, At
<1>2. CASE ~ ExecFails
  <2> USE <1>2 DEF IndInv, FireEvents, At, disk, final
  <2>0. blk \in Heights /\ blk = appHeight /\ blk \in blockIDs /\ responses[blk] # "none"
    BY DEF TypeOK, Progress, Working, Committed, blk, Heights
  <2>1. TypeOK'
    BY <2>0, PublishType DEF TypeOK, Publications
  <2>2. Progress'
    BY DEF Progress, Working, Committed, blk
  <2>3. Queue(stackedEvents)' /\ (fpc = "trim" => Queue(kept) /\ Len(kept) <= Len(stackedEvents))'
    BY DEF Queue, blk
  <2>4. PublishedAfterSave'
    <3>1. published' = Append(published, Publication(blk))
      OBVIOUS
    <3>2. blk <= appHeight
      BY <2>0 DEF Heights
    <3> QED
      BY <2>0, <3>1, <3>2, PublishSaved
  <2> QED
    BY <2>1, <2>2, <2>3, <2>4 DEF StoredBlocksComplete, StateNeverBehindApp, Appending, Release
<1> QED
  BY <1>1, <1>2

\* StackRead and StackWrite: whatever SetFinal has cut off meanwhile, the
\* queue written back is longer than the one it replaces.
LEMMA StackReadInv == ASSUME IndInv, StackRead PROVE IndInv'
<1> USE DEF IndInv, StackRead, At, disk, final
<1>1. blk \in Heights
  BY DEF TypeOK, Progress, Working, Committed, blk, Heights
<1>2. TypeOK' /\ Progress'
  BY <1>1 DEF TypeOK, Progress, Working, Committed, blk
<1>3. Queue(stackedEvents)' /\ (fpc = "trim" => Queue(kept) /\ Len(kept) <= Len(stackedEvents))'
  BY DEF Queue, blk
<1>4. Appending'
  BY <1>1 DEF TypeOK, Appending, Queue, blk
<1> QED
  BY <1>2, <1>3, <1>4
     DEF StoredBlocksComplete, StateNeverBehindApp, PublishedAfterSave, Release

\* The queue gets the copy that was read, and the block.
LEMMA StackWriteInv == ASSUME IndInv, StackWrite PROVE IndInv'
<1> USE DEF IndInv, StackWrite, At, disk, final
<1>1. TypeOK' /\ Progress'
  BY DEF TypeOK, Progress, Working, Committed, blk
<1>2. Queue(stackedEvents)' /\ (fpc = "trim" => Queue(kept) /\ Len(kept) <= Len(stackedEvents))'
  BY DEF TypeOK, Queue, Appending, blk
<1>3. Appending' /\ Release'
  BY DEF TypeOK, Appending, Release, Queue, blk
<1> QED
  BY <1>1, <1>2, <1>3 DEF StoredBlocksComplete, StateNeverBehindApp, PublishedAfterSave

\* ClearAndSave.
LEMMA ClearAndSaveInv == ASSUME IndInv, ClearAndSave PROVE IndInv'
<1> USE DEF IndInv, ClearAndSave, At, final
<1>0. blk \in Heights
  BY DEF TypeOK, Progress, Working, Committed, blk, Heights
<1>1. TypeOK'
  BY <1>0 DEF TypeOK
<1>2. Progress'
  BY <1>0 DEF TypeOK, Progress, Working, Committed, blk
<1>3. StoredBlocksComplete' /\ StateNeverBehindApp'
  BY <1>0 DEF TypeOK, StoredBlocksComplete, StateNeverBehindApp, Heights
<1>4. Queue(stackedEvents)' /\ (fpc = "trim" => Queue(kept) /\ Len(kept) <= Len(stackedEvents))'
  BY DEF Queue, blk
<1>5. PublishedAfterSave'
  <2>1. \A h \in Heights : responses[h] # "none" => responses'[h] # "none"
    BY <1>0 DEF TypeOK
  <2> QED
    BY <2>1, PublishedHeight DEF PublishedAfterSave
<1> QED
  BY <1>1, <1>2, <1>3, <1>4, <1>5 DEF Appending, Release

\* Return: the block that was the exception in the queue is now stored.
LEMMA ReturnInv == ASSUME IndInv, Return PROVE IndInv'
<1> USE DEF IndInv, Return, At, final
<1>0. /\ rollkitHeight \in Nat /\ rollkitHeight' = rollkitHeight + 1
      /\ daHeight \in Nat /\ rollkitHeight' <= MaxHeight
  BY DEF TypeOK, Progress, Working, Committed, blk
<1>1. TypeOK' /\ Progress'
  BY <1>0 DEF TypeOK, Progress, Working, Committed, blk
<1>2. StoredBlocksComplete' /\ StateNeverBehindApp'
  BY <1>0 DEF TypeOK, Progress, Committed, blk, StoredBlocksComplete, StateNeverBehindApp
<1>3. Queue(stackedEvents)' /\ (fpc = "trim" => Queue(kept) /\ Len(kept) <= Len(stackedEvents))'
  <2>1. ASSUME NEW q \in Seq(Heights), Queue(q)
        PROVE  \A i \in DOMAIN q : q[i] <= rollkitHeight + 1
    BY <1>0, <2>1, SeqElement DEF Queue, blk, Heights
  <2>2. \A i \in DOMAIN stackedEvents' : stackedEvents'[i] <= rollkitHeight'
    BY <1>0, <2>1 DEF TypeOK
  <2>3. fpc' = "trim" => \A i \in DOMAIN kept' : kept'[i] <= rollkitHeight'
    BY <1>0, <2>1 DEF TypeOK
  <2> QED
    BY <2>2, <2>3 DEF Queue
<1>4. Appending' /\ Release'
  <2>1. fpc \in {"release", "releaseFire"} =>
            stackedEvents[maxPosReleased] \in Heights
    BY SeqElement DEF TypeOK, Release
  <2> QED
    BY <1>0, <2>1 DEF Appending, Release, Heights
<1> QED
  BY <1>1, <1>2, <1>3, <1>4 DEF PublishedAfterSave

-----------------------------------------------------------------------------
\* SetFinal: only blocks that are stored are releasable.
LEMMA SetFinalInv == ASSUME IndInv, SetFinal PROVE IndInv'
<1> USE DEF IndInv, SetFinal, exec
<1>0. /\ daHeight' \in {daHeight, daHeight + 1}
      /\ daHeight' \in 0 .. MaxHeight /\ daHeight' <= rollkitHeight
  BY AdapterAssumption DEF TypeOK, NothingReleased
<1>1. TypeOK'
  <2>1. maxPosReleased' \in Nat /\ pos' \in Nat
    BY DEF TypeOK, NothingReleased, final
  <2>2. fpc' \in {"idle", "release"} /\ kept' = kept
    BY DEF NothingReleased, final
  <2> QED
    BY <1>0, <2>1, <2>2 DEF TypeOK
<1>2. Progress'
  BY DEF Progress, blk
<1>3. Queue(stackedEvents)' /\ fpc' # "trim"
  BY DEF NothingReleased, final, Queue, blk
<1>4. Appending' /\ Release'
  <2>1. CASE NothingReleased
    BY <1>0, <2>1 DEF TypeOK, Appending, Release, NothingReleased, final, blk
  <2>2. CASE ~ NothingReleased
    <3>1. PICK i \in DOMAIN stackedEvents : LastReleasable(i) /\ maxPosReleased' = i
      BY <2>2
    <3>2. i \in 1 .. Len(stackedEvents) /\ stackedEvents[i] \in Heights
      BY SeqElement DEF TypeOK
    <3>3. stackedEvents[i] <= rollkitHeight
      BY <3>1, <3>2 DEF TypeOK, Heights, LastReleasable, Releasable
    <3>4. Release'
      BY <2>2, <3>1, <3>2, <3>3 DEF TypeOK, Release
    <3> QED
      BY <2>2, <3>4 DEF Appending, blk
  <2> QED
    BY <2>1, <2>2
<1> QED
  BY <1>1, <1>2, <1>3, <1>4 DEF StoredBlocksComplete, StateNeverBehindApp, PublishedAfterSave

\* While SetFinal releases, the block at its position is stored.
LEMMA ReleasedStored ==
    ASSUME IndInv, fpc \in {"release", "releaseFire"}
    PROVE  /\ stackedEvents[pos] \in Heights
           /\ stackedEvents[pos] \in 1 .. rollkitHeight
           /\ stackedEvents[pos] <= appHeight
           /\ stackedEvents[pos] \in blockIDs
           /\ responses[stackedEvents[pos]] # "none"
<1>1. pos \in DOMAIN stackedEvents /\ stackedEvents[pos] \in Heights
  BY SeqElement DEF IndInv, TypeOK, Release
<1>2. stackedEvents[pos] <= rollkitHeight
  BY <1>1 DEF IndInv, TypeOK, Release, Queue
<1>3. stackedEvents[pos] \in 1 .. rollkitHeight
  BY <1>1, <1>2 DEF IndInv, TypeOK, Heights
<1> QED
  BY <1>1, <1>3 DEF IndInv, TypeOK, StateNeverBehindApp, StoredBlocksComplete

\* ReleaseSave.
LEMMA ReleaseSaveInv == ASSUME IndInv, ReleaseSave PROVE IndInv'
<1>1. CASE FinalFails
  BY <1>1, FinalFailsInv
<1>2. CASE ~ FinalFails
  <2> USE <1>2 DEF IndInv, ReleaseSave, exec
  <2>1. /\ responses' \in [Heights -> {"none", "cleared", "full"}]
        /\ \A h \in Heights : responses[h] # "none" => responses'[h] # "none"
    BY ReleasedStored DEF TypeOK, Response, disk
  <2>2. TypeOK'
    BY <2>1 DEF TypeOK, disk
  <2>3. Progress'
    BY <2>1 DEF TypeOK, Progress, Working, Committed, blk, Heights, disk
  <2>4. StoredBlocksComplete' /\ StateNeverBehindApp'
    BY <2>1 DEF TypeOK, StoredBlocksComplete, StateNeverBehindApp, Heights, disk
  <2>5. Queue(stackedEvents)' /\ fpc' # "trim"
    <3>1. /\ UNCHANGED <<stackedEvents, xpc, rollkitHeight>>
          /\ fpc' \in {"releaseFire", "trimRead"}
      BY DEF disk
    <3> QED
      BY <3>1 DEF Queue, blk
  <2>6. Appending' /\ Release'
    BY DEF TypeOK, Appending, Release, blk, disk
  <2>7. PublishedAfterSave'
    BY <2>1, PublishedHeight DEF PublishedAfterSave, disk
  <2> QED
    BY <2>2, <2>3, <2>4, <2>5, <2>6, <2>7
<1> QED
  BY <1>1, <1>2

\* ReleaseFire.
LEMMA ReleaseFireInv == ASSUME IndInv, ReleaseFire PROVE IndInv'
<1>1. CASE FinalFails
  BY <1>1, FinalFailsInv
<1>2. CASE ~ FinalFails
  <2> USE <1>2 DEF IndInv, ReleaseFire, disk, exec
  <2>0. /\ published' = Append(published, Publication(stackedEvents[pos]))
        /\ UNCHANGED <<appHeight, blockIDs, responses>>
    OBVIOUS
  <2>f. fpc' \in {"trimRead", "release"}
    OBVIOUS
  <2>1. TypeOK'
    <3>1. published' \in Seq(Publications)
      BY <2>0, ReleasedStored, PublishType
    <3>2. pos' \in Nat
      <4>1. pos' = pos + 1
        OBVIOUS
      <4> HIDE DEF ReleaseFire
      <4> QED
        BY <4>1 DEF TypeOK
    <3> QED
      BY <2>f, <3>1, <3>2 DEF TypeOK, Publications
  <2>2. Progress'
    BY DEF Progress, blk
  <2>3. Queue(stackedEvents)' /\ fpc' # "trim"
    BY DEF Queue, blk
  <2>4. Appending' /\ Release'
    <3>1. pos' = pos + 1 /\ (fpc' = "release" => pos # maxPosReleased)
      OBVIOUS
    <3>2. Release'
      <4> HIDE DEF ReleaseFire
      <4>1. /\ fpc = "releaseFire"
            /\ UNCHANGED <<daHeight, rollkitHeight, maxPosReleased, stackedEvents>>
        BY DEF ReleaseFire
      <4> QED
        BY <2>f, <3>1, <4>1 DEF TypeOK, Release
    <3> QED
      BY <2>f, <3>2 DEF Appending, blk
  <2>5. PublishedAfterSave'
    BY <2>0, ReleasedStored, PublishSaved
  <2> QED
    BY <2>1, <2>2, <2>3, <2>4, <2>5 DEF StoredBlocksComplete, StateNeverBehindApp
<1> QED
  BY <1>1, <1>2

\* TrimRead and TrimWrite.
LEMMA TrimReadInv == ASSUME IndInv, TrimRead PROVE IndInv'
<1> USE DEF IndInv, TrimRead, Trimmed, disk, exec
<1>1. TypeOK'
  BY DEF TypeOK
<1>2. Progress'
  BY DEF Progress, blk
<1>3. Queue(stackedEvents)' /\ (fpc = "trim" => Queue(kept) /\ Len(kept) <= Len(stackedEvents))'
  BY DEF TypeOK, Queue, blk
<1>4. Appending' /\ Release'
  BY DEF TypeOK, Appending, Release, blk
<1> QED
  BY <1>1, <1>2, <1>3, <1>4 DEF StoredBlocksComplete, StateNeverBehindApp, PublishedAfterSave

\* The queue gets the copy that was read, less what was released.
LEMMA TrimWriteInv == ASSUME IndInv, TrimWrite PROVE IndInv'
<1> USE DEF IndInv, TrimWrite, exec
<1>1. TypeOK'
  BY AdapterAssumption DEF TypeOK, Release
<1>2. Progress'
  BY DEF Progress, blk
<1>3. Queue(stackedEvents)' /\ fpc' # "trim"
  BY DEF Queue, blk
<1>4. Appending' /\ Release'
  BY DEF TypeOK, Appending, Release, blk
<1> QED
  BY <1>1, <1>2, <1>3, <1>4 DEF StoredBlocksComplete, StateNeverBehindApp, PublishedAfterSave

\* Confirm.
LEMMA ConfirmInv == ASSUME IndInv, NEW h \in Heights, Confirm(h) PROVE IndInv'
<1> USE DEF IndInv, Confirm, exec, final
<1>1. TypeOK'
  BY DEF TypeOK
<1>2. Progress'
  BY DEF Progress, blk
<1>3. Queue(stackedEvents)' /\ (fpc = "trim" => Queue(kept) /\ Len(kept) <= Len(stackedEvents))'
  BY DEF Queue, blk
<1>4. Appending' /\ Release'
  BY DEF Appending, Release, blk
<1> QED
  BY <1>1, <1>2, <1>3, <1>4 DEF StoredBlocksComplete, StateNeverBehindApp, PublishedAfterSave

\* Every step preserves the invariant.
LEMMA NextInv == IndInv /\ [Next]_vars => IndInv'
<1> SUFFICES ASSUME IndInv, [Next]_vars PROVE IndInv'
  OBVIOUS
<1>1. CASE UNCHANGED vars
  BY <1>1 DEF vars, IndInv, TypeOK, Progress, blk, StoredBlocksComplete,
     StateNeverBehindApp, Queue, Appending, Release, PublishedAfterSave
<1>2. CASE ExecStep
  BY <1>2, InitChainInv, ProcessProposalInv, FinalizeBlockInv, SaveStateInv,
     CommitInv, SaveBlockIDInv, FilterBlockInv, SaveBlockResponseInv,
     FireEventsInv, StackReadInv, StackWriteInv, ClearAndSaveInv, ReturnInv
     DEF ExecStep
<1>3. CASE FinalStep
  BY <1>3, SetFinalInv, ReleaseSaveInv, ReleaseFireInv, TrimReadInv,
     TrimWriteInv DEF FinalStep
<1> QED
  BY <1>1, <1>2, <1>3, StartNodeInv, HaltInv, ConfirmInv DEF Next, Stop

-----------------------------------------------------------------------------
\* The invariant holds in every reachable state of the adapter
\* (pkg/adapter/adapter.go), for every chain length and all failures.
THEOREM Invariance == Spec => []IndInv
BY InitInv, NextInv, PTL DEF Spec

\* The adapter's disk and memory stay well-formed: SetFinal never reads past
\* the end of the queue, although ExecuteTxs replaces it without a lock.
THEOREM TypeCorrect == Spec => []TypeOK
<1>1. IndInv => TypeOK
  BY DEF IndInv
<1> QED
  BY <1>1, Invariance, PTL

\* Every block the block manager has stored has its block id and response on
\* disk, whatever crashed or failed before it was stored.
THEOREM StoredBlocksAreComplete == Spec => []StoredBlocksComplete
<1>1. IndInv => StoredBlocksComplete
  BY DEF IndInv
<1> QED
  BY <1>1, Invariance, PTL

\* The saved state is never behind the application, which is at most one
\* block ahead of the block manager.
THEOREM StateIsNeverBehindApp == Spec => []StateNeverBehindApp
<1>1. IndInv => StateNeverBehindApp
  BY DEF IndInv
<1> QED
  BY <1>1, Invariance, PTL

\* A subscriber that sees the events of a block finds the block committed and
\* its results stored, even if both loops race on the queue.
THEOREM EventsFollowResults == Spec => []PublishedAfterSave
<1>1. IndInv => PublishedAfterSave
  BY DEF IndInv
<1> QED
  BY <1>1, Invariance, PTL

-----------------------------------------------------------------------------
(***************************************************************************)
(* The validators.                                                         *)
(***************************************************************************)
\* Every nonempty set of naturals has a least element.
LEMMA Least ==
    ASSUME NEW S, S \subseteq Nat, S # {}
    PROVE  \E m \in S : \A k \in S : m <= k
<1> DEFINE R == {p \in Nat \X Nat : p[1] < p[2]}
<1>1. R = OpToRel(<, Nat)
  BY DEF OpToRel
<1>2. IsWellFoundedOn(R, Nat)
  BY <1>1, NatLessThanWellFounded
<1> HIDE DEF R
<1>3. PICK m \in S : \A k \in S : ~ (<<k, m>> \in R)
  BY <1>2, WFMin
<1>4. ASSUME NEW k \in S PROVE m <= k
  <2>1. k \in Nat /\ m \in Nat
    OBVIOUS
  <2>2. k < m => <<k, m>> \in R
    BY <2>1 DEF R
  <2> QED
    BY <1>3, <2>1, <2>2
<1> QED
  BY <1>4

\* What block h makes of the validators vs.
After(vs, h) == (vs \cup ValUpdates[h].add) \ ValUpdates[h].remove

\* f gives the validators after each of the first n blocks.
History(f, n) == /\ f \in [0 .. n -> SUBSET Vals]
                 /\ f[0] = {Genesis}
                 /\ \A h \in 1 .. n : f[h] = After(f[h - 1], h)

\* There is such a history for every number of blocks.
LEMMA HistoryExists == \E f : History(f, MaxHeight)
<1> DEFINE Missing == {n \in 0 .. MaxHeight : ~ \E f : History(f, n)}
<1>1. MaxHeight \in Nat /\ Genesis \in Vals
  BY AdapterAssumption
<1>2. CASE Missing # {}
  <2> HIDE DEF Missing
  <2>1. PICK m \in Missing : \A k \in Missing : m <= k
    <3>1. Missing \subseteq Nat
      BY <1>1 DEF Missing
    <3> QED
      BY <1>2, <3>1, Least
  <2>2. m \in Nat /\ m \in 0 .. MaxHeight /\ ~ \E f : History(f, m)
    BY <1>1 DEF Missing
  <2>3. CASE m = 0
    <3>1. History([k \in 0 .. 0 |-> {Genesis}], 0)
      BY <1>1 DEF History
    <3> QED
      BY <2>2, <2>3, <3>1
  <2>4. CASE m > 0
    <3>1. m - 1 \in 0 .. MaxHeight /\ m - 1 \in Nat /\ ~ (m <= m - 1)
      BY <1>1, <2>2, <2>4
    <3>2. PICK f : History(f, m - 1)
      BY <2>1, <3>1 DEF Missing
    <3> DEFINE g == [k \in 0 .. m |-> IF k < m THEN f[k] ELSE After(f[m - 1], m)]
    <3>3. m \in Heights
      BY <1>1, <2>2, <2>4 DEF Heights
    <3>4. ValUpdates[m].add \in SUBSET Vals
      BY <3>3, AdapterAssumption
    <3>5. \A k \in 0 .. m - 1 : f[k] \in SUBSET Vals
      BY <3>2 DEF History
    <3>6. After(f[m - 1], m) \in SUBSET Vals
      BY <2>2, <3>1, <3>4, <3>5 DEF After
    <3>7. g \in [0 .. m -> SUBSET Vals]
      BY <2>2, <3>5, <3>6
    <3>8. g[0] = {Genesis}
      BY <2>2, <2>4, <3>2 DEF History
    <3>9. ASSUME NEW h \in 1 .. m PROVE g[h] = After(g[h - 1], h)
      <4>1. g[h - 1] = f[h - 1]
        BY <2>2
      <4>2. CASE h = m
        BY <2>2, <4>1, <4>2
      <4>3. CASE h < m
        <5>1. g[h] = f[h] /\ h \in 1 .. m - 1
          BY <2>2, <4>3
        <5> QED
          BY <3>2, <4>1, <5>1 DEF History
      <4> QED
        BY <2>2, <4>2, <4>3
    <3> HIDE DEF g
    <3>10. History(g, m)
      BY <3>7, <3>8, <3>9 DEF History
    <3> QED
      BY <2>2, <3>10
  <2> QED
    BY <2>2, <2>3, <2>4
<1>3. CASE Missing = {}
  <2>1. MaxHeight \in 0 .. MaxHeight
    BY <1>1
  <2> QED
    BY <1>3, <2>1
<1> QED
  BY <1>2, <1>3

\* So the recursion that defines ValsAfter has a solution.
LEMMA ValsAfterStep ==
    /\ ValsAfter[0] = {Genesis}
    /\ \A h \in Heights : ValsAfter[h] = After(ValsAfter[h - 1], h)
<1> DEFINE Step(f) == [h \in 0 .. MaxHeight |->
                         IF h = 0 THEN {Genesis}
                         ELSE (f[h - 1] \cup ValUpdates[h].add)
                                 \ ValUpdates[h].remove]
<1>1. PICK f : History(f, MaxHeight)
  BY HistoryExists
<1>2. f = Step(f)
  <2>1. MaxHeight \in Nat
    BY AdapterAssumption
  <2>2. \A h \in 0 .. MaxHeight : f[h] = Step(f)[h]
    BY <1>1, <2>1 DEF History, After
  <2>3. f = [h \in 0 .. MaxHeight |-> f[h]]
    BY <1>1 DEF History
  <2> QED
    BY <2>2, <2>3
<1>3. ValsAfter = CHOOSE g : g = Step(g)
  BY DEF ValsAfter
<1>4. ValsAfter = Step(ValsAfter)
  BY <1>2, <1>3
<1> HIDE DEF ValsAfter
<1> QED
  BY <1>4, AdapterAssumption DEF Heights, After

\* The state a call of ExecuteTxs works on, and what it will save.
Validators ==
    /\ xpc = "finalize" => xs = state /\ state.saved
    /\ xpc = "saveState" => xs.saved /\ xs.vals = ValsAfter[xs.height]
    /\ rollkitHeight = 0 => state.height <= 1
    /\ ValidatorsFollowApp

\* Applying a block's changes again, where they can be applied, changes
\* nothing.
LEMMA ChangesApplyOnce ==
    ASSUME NEW h \in Heights, NEW g \in {h - 1, h},
           ChangeSetApplies(ValsAfter[g], ValUpdates[h])
    PROVE  After(ValsAfter[g], h) = ValsAfter[h]
<1>1. ValsAfter[h] = After(ValsAfter[h - 1], h)
  BY ValsAfterStep
<1> HIDE DEF ValsAfter
<1>2. CASE g = h
  BY <1>1, <1>2 DEF After, ChangeSetApplies
<1> QED
  BY <1>1, <1>2

\* The genesis validators are right.
LEMMA ValidatorsInit == Init => Validators
<1> SUFFICES ASSUME Init PROVE Validators
  OBVIOUS
<1> QED
  BY DEF Init, NoState, Validators, ValidatorsFollowApp

\* A block changes the validators as its updates say; no other step does.
LEMMA ValidatorsNext ==
    ASSUME IndInv, Validators, [Next]_vars
    PROVE  Validators'
<1> USE DEF Validators, ValidatorsFollowApp
<1>1. CASE StartNode
  BY <1>1 DEF StartNode, disk, IndInv, TypeOK
<1>2. CASE Stop
  BY <1>2 DEF Stop, Halt, disk
<1>3. CASE InitChain
  <2>1. CASE ExecFails
    BY <2>1 DEF ExecFails, disk
  <2>2. CASE ~ ExecFails
    <3>1. state' = GenesisState /\ xpc' = "idle"
      BY <1>3, <2>2 DEF InitChain
    <3>2. state'.height = 0 /\ state'.vals = {Genesis}
      BY <3>1 DEF GenesisState
    <3> HIDE DEF ValsAfter
    <3> QED
      BY <3>1, <3>2, ValsAfterStep
  <2> QED
    BY <2>1, <2>2
<1>4. CASE ProcessProposal
  BY <1>4 DEF ProcessProposal, At, ExecFails, disk
<1>5. CASE FinalizeBlock
  <2>1. CASE ExecFails
    BY <2>1 DEF ExecFails, disk
  <2>2. CASE ~ ExecFails
    <3>1. /\ xpc = "finalize" /\ xpc' = "saveState" /\ UNCHANGED disk
          /\ xs' = NextState(xs, blk, ValUpdates[blk])
          /\ ChangeSetApplies(xs.vals, ValUpdates[blk])
          /\ appHeight + 1 = blk
      BY <1>5, <2>2 DEF FinalizeBlock, At, AppAccepts
    <3>2. blk \in Heights /\ rollkitHeight \in Nat /\ appHeight \in Nat
      BY <3>1, BlkType DEF Working, IndInv, TypeOK
    <3>3. state.height \in Nat
      BY DEF IndInv, TypeOK, States
    <3>4. xs = state /\ state.vals = ValsAfter[state.height]
      BY <3>1
    <3>5. state.height \in {blk - 1, blk}
      BY <3>1, <3>2, <3>3 DEF IndInv, StateNeverBehindApp, blk
    <3>6. After(state.vals, blk) = ValsAfter[blk]
      BY <3>1, <3>2, <3>4, <3>5, ChangesApplyOnce
    <3>7. xs'.saved /\ xs'.height = blk /\ xs'.vals = After(state.vals, blk)
      BY <3>1, <3>4 DEF NextState, After
    <3> QED
      BY <3>1, <3>6, <3>7 DEF disk
  <2> QED
    BY <2>1, <2>2
<1>6. CASE SaveState
  <2>1. CASE ExecFails
    BY <2>1 DEF ExecFails, disk
  <2>2. CASE ~ ExecFails
    <3>1. xpc = "saveState" /\ xpc' = "commit" /\ state' = xs /\ UNCHANGED rollkitHeight
      BY <1>6, <2>2 DEF SaveState, At
    <3>2. xs.height = rollkitHeight + 1
      BY <3>1 DEF IndInv, Progress, blk
    <3> QED
      BY <3>1, <3>2
  <2> QED
    BY <2>1, <2>2
<1>7. CASE Commit
  BY <1>7 DEF Commit, At, ExecFails, disk
<1>8. CASE SaveBlockID \/ FilterBlock \/ SaveBlockResponse \/ FireEvents
           \/ StackRead \/ StackWrite \/ ClearAndSave
  BY <1>8 DEF SaveBlockID, FilterBlock, SaveBlockResponse, FireEvents, StackRead,
     StackWrite, ClearAndSave, At, ExecFails, disk
<1>9. CASE Return
  BY <1>9 DEF Return, At, blk, IndInv, TypeOK
<1>10. CASE FinalStep
  <2>1. UNCHANGED <<xpc, xs, state, rollkitHeight>>
    BY <1>10 DEF FinalStep, SetFinal, ReleaseSave, ReleaseFire, TrimRead, TrimWrite,
       FinalFails, disk, exec
  <2> QED
    BY <2>1
<1>11. CASE \E h \in Heights : Confirm(h)
  BY <1>11 DEF Confirm, exec
<1>12. CASE UNCHANGED vars
  BY <1>12 DEF vars
<1> QED
  BY <1>1, <1>2, <1>3, <1>4, <1>5, <1>6, <1>7, <1>8, <1>9, <1>10, <1>11, <1>12
     DEF Next, ExecStep

\* A block that is executed again after a crash leaves the right validators
\* behind: those of the saved height, each block's changes applied once.
THEOREM ValidatorsAreRight == Spec => []ValidatorsFollowApp
<1>1. Validators => ValidatorsFollowApp
  BY DEF Validators
<1>2. IndInv /\ Validators /\ [Next]_vars => Validators'
  BY ValidatorsNext
<1> QED
  BY <1>1, <1>2, ValidatorsInit, Invariance, PTL DEF Spec

-----------------------------------------------------------------------------
(***************************************************************************)
(* Recovery after a restart.                                               *)
(***************************************************************************)
\* The step that costs the node its next block is the application's commit,
\* or the save of a state whose removals cannot be applied again.
CostlyStep == \/ xpc = "commit" /\ appHeight' = blk
              \/ xpc = "saveState" /\ ~ ChangeSetApplies(xs.vals, ValUpdates[blk])

\* What the next block needs is on disk, and only these steps touch it.
LEMMA RecoverableSteps ==
    ASSUME IndInv, Validators, Next
    PROVE  Recoverable /\ ~ Recoverable' => CostlyStep
<1>1. CASE UNCHANGED <<state, blockIDs, appHeight, rollkitHeight>>
  BY <1>1 DEF Recoverable, HasLastCommit, AppAccepts, blk
<1>2. CASE InitChain
  <2>1. rollkitHeight = 0 /\ rollkitHeight' = 0 /\ UNCHANGED <<blockIDs, appHeight>>
    BY <1>2 DEF InitChain, At, IndInv, Progress, ExecFails, disk
  <2> QED
    BY <2>1 DEF Recoverable, HasLastCommit, AppAccepts, blk
<1>3. CASE SaveState
  <2>1. xpc = "saveState" /\ xs.saved
    BY <1>3 DEF SaveState, At, Validators
  <2>2. UNCHANGED <<blockIDs, appHeight, rollkitHeight>> /\ (state' = xs \/ state' = state)
    BY <1>3 DEF SaveState, ExecFails, disk
  <2> QED
    BY <2>1, <2>2 DEF Recoverable, HasLastCommit, AppAccepts, blk, CostlyStep
<1>4. CASE Commit
  <2>1. CASE appHeight' = blk
    BY <1>4, <2>1 DEF Commit, At, CostlyStep
  <2> QED
    BY <1>1, <1>4, <2>1 DEF Commit, ExecFails, disk
<1>5. CASE SaveBlockID
  <2>1. UNCHANGED <<state, appHeight, rollkitHeight>> /\ blockIDs \subseteq blockIDs'
    BY <1>5 DEF SaveBlockID, ExecFails, disk
  <2> QED
    BY <2>1 DEF Recoverable, HasLastCommit, AppAccepts, blk
<1>6. CASE Return
  <2>1. xpc = "return" /\ appHeight = blk /\ blk <= MaxHeight /\ blk \in Nat
    BY <1>6, BlkType DEF Return, At, Working, Committed, IndInv, Progress, Heights
  <2>2. ~ Recoverable
    BY <2>1 DEF Recoverable, AppAccepts
  <2> QED
    BY <2>2
<1>7. CASE StartNode \/ Stop \/ ProcessProposal \/ FinalizeBlock \/ FilterBlock
           \/ SaveBlockResponse \/ FireEvents \/ StackRead \/ StackWrite
           \/ ClearAndSave
  <2>1. UNCHANGED <<state, blockIDs, appHeight, rollkitHeight>>
    BY <1>7 DEF StartNode, Stop, Halt, ProcessProposal, FinalizeBlock, FilterBlock,
       SaveBlockResponse, FireEvents, StackRead, StackWrite, ClearAndSave, ExecFails,
       disk
  <2> QED
    BY <1>1, <2>1
<1>8. CASE FinalStep \/ \E h \in Heights : Confirm(h)
  <2>1. UNCHANGED <<state, blockIDs, appHeight, rollkitHeight>>
    BY <1>8 DEF FinalStep, SetFinal, ReleaseSave, ReleaseFire, TrimRead, TrimWrite,
       FinalFails, Confirm, disk
  <2> QED
    BY <1>1, <2>1
<1> QED
  BY <1>2, <1>3, <1>4, <1>5, <1>6, <1>7, <1>8 DEF Next, ExecStep

\* A crash costs the node its next block at no other point of ExecuteTxs or
\* SetFinal, whichever failures came before.
THEOREM RecoverableUntilCommit == Spec => RecoverabilityLostOnlyByCommit
<1>1. Spec => []Validators
  <2>1. IndInv /\ Validators /\ [Next]_vars => Validators'
    BY ValidatorsNext
  <2> QED
    BY <2>1, ValidatorsInit, Invariance, PTL DEF Spec
<1>2. IndInv /\ Validators /\ [Next]_vars =>
        [Recoverable /\ ~ Recoverable' =>
            \/ xpc = "commit" /\ appHeight' = blk
            \/ xpc = "saveState" /\ ~ ChangeSetApplies(xs.vals, ValUpdates[blk])]_vars
  BY RecoverableSteps DEF CostlyStep
<1> QED
  BY <1>1, <1>2, Invariance, PTL DEF Spec, RecoverabilityLostOnlyByCommit

-----------------------------------------------------------------------------
(***************************************************************************)
(* The queue under races.  Both loops write back views of the queue that   *)
(* may be out of date.  Every view is in order, and a later view of the    *)
(* queue has, position by position, blocks that are no younger than the    *)
(* ones of the view it replaces: what SetFinal found confirmed still       *)
(* bounds what it finds at those positions when it gets there.             *)
(***************************************************************************)
InOrder(q) == \A i, j \in DOMAIN q : i < j => q[i] < q[j]

Below(a, b) == Len(b) <= Len(a) /\ \A i \in DOMAIN b : a[i] <= b[i]

Views ==
    /\ InOrder(stackedEvents)
    /\ xpc = "stackWrite" => InOrder(appended) /\ Below(appended, stackedEvents)
    /\ fpc = "trim" => InOrder(kept) /\ Below(stackedEvents, kept)
    /\ fpc = "trim" /\ xpc = "stackWrite" => Below(appended, kept)

\* h is a soft-confirmed height that covers the blocks up to position n.
Covers(h, q, n) == h >= 2 /\ \A j \in 1 .. n : q[j] <= h

Confirmation ==
    Filter = "network" =>
        /\ xpc \in {"saveResponse", "fire"} => blk \in confirmed /\ blk >= 2
        /\ fpc \in {"release", "releaseFire"} =>
              \E h \in confirmed : Covers(h, stackedEvents, maxPosReleased)

\* A cut of a sorted queue is sorted, and above it.
LEMMA QueueCut ==
    ASSUME NEW q \in Seq(Heights), InOrder(q), NEW n \in Nat,
           NEW c, c = SubSeq(q, n + 1, Len(q))
    PROVE  InOrder(c) /\ Below(q, c)
<1>1. \A i \in DOMAIN q : q[i] \in Nat
  BY SeqElement DEF Heights
<1>2. Len(q) \in Nat /\ DOMAIN q = 1 .. Len(q)
  OBVIOUS
<1>3. c \in Seq(Heights) /\ DOMAIN c = 1 .. Len(c) /\ Len(c) \in Nat
  OBVIOUS
<1>4. Len(c) <= Len(q) /\ \A i \in 1 .. Len(c) : c[i] = q[n + i] /\ n + i \in 1 .. Len(q)
  BY <1>2
<1>5. ASSUME NEW i \in DOMAIN c PROVE q[i] <= c[i]
  <2>0. i \in 1 .. Len(c) /\ Len(c) <= Len(q) /\ Len(c) \in Nat /\ Len(q) \in Nat
    BY <1>2, <1>3, <1>4
  <2>1. i \in 1 .. Len(c) /\ i \in Nat /\ i <= Len(q) /\ 1 <= i
    BY <2>0
  <2>2. n + i \in DOMAIN q
    BY <1>2, <1>4, <2>1
  <2>3. n = 0 \/ i < n + i
    BY <2>1
  <2>4. i \in DOMAIN q
    BY <1>2, <2>1
  <2> QED
    BY <1>1, <1>4, <2>1, <2>2, <2>3, <2>4 DEF InOrder
<1>6. ASSUME NEW i \in DOMAIN c, NEW j \in DOMAIN c, i < j PROVE c[i] < c[j]
  <2>0. i \in 1 .. Len(c) /\ j \in 1 .. Len(c)
    BY <1>3
  <2>1. n + i \in DOMAIN q /\ n + j \in DOMAIN q
    BY <1>2, <1>4, <2>0
  <2>2. n + i < n + j
    BY <1>3, <1>6, <2>0
  <2> QED
    BY <1>4, <2>0, <2>1, <2>2 DEF InOrder
<1> QED
  BY <1>4, <1>5, <1>6 DEF InOrder, Below

\* A new block at the end of a sorted queue of older blocks.
LEMMA QueueAppend ==
    ASSUME NEW q \in Seq(Heights), InOrder(q), NEW h \in Heights,
           \A i \in DOMAIN q : q[i] < h,
           NEW a, a = Append(q, h)
    PROVE  InOrder(a) /\ Below(a, q)
<1>1. \A i \in DOMAIN q : q[i] \in Nat
  BY SeqElement DEF Heights
<1>2. Len(q) \in Nat /\ DOMAIN q = 1 .. Len(q) /\ DOMAIN a = 1 .. Len(q) + 1
  OBVIOUS
<1>3. Len(a) = Len(q) + 1 /\ a[Len(q) + 1] = h /\ \A i \in 1 .. Len(q) : a[i] = q[i]
  OBVIOUS
<1>4. ASSUME NEW i \in DOMAIN a, NEW j \in DOMAIN a, i < j PROVE a[i] < a[j]
  BY <1>2, <1>3, <1>4 DEF InOrder
<1> QED
  BY <1>1, <1>2, <1>3, <1>4 DEF InOrder, Below

\* Below is transitive.
LEMMA BelowTransitive ==
    ASSUME NEW a \in Seq(Heights), NEW b \in Seq(Heights), NEW c \in Seq(Heights),
           Below(a, b), Below(b, c)
    PROVE  Below(a, c)
<1>1. /\ \A i \in DOMAIN a : a[i] \in Nat
      /\ \A i \in DOMAIN b : b[i] \in Nat
      /\ \A i \in DOMAIN c : c[i] \in Nat
  BY SeqElement DEF Heights
<1>2. Len(a) \in Nat /\ Len(b) \in Nat /\ Len(c) \in Nat
      /\ DOMAIN a = 1 .. Len(a) /\ DOMAIN b = 1 .. Len(b) /\ DOMAIN c = 1 .. Len(c)
  OBVIOUS
<1>3. Len(c) <= Len(b) /\ Len(b) <= Len(a)
  BY DEF Below
<1>4. ASSUME NEW i \in DOMAIN c PROVE a[i] <= c[i]
  <2>1. i \in DOMAIN a /\ i \in DOMAIN b
    BY <1>2, <1>3
  <2> QED
    BY <1>1, <2>1 DEF Below
<1> QED
  BY <1>2, <1>3, <1>4 DEF Below

\* The queue and the copies of it are empty at first.
LEMMA ViewsInit == Init => Views /\ Confirmation
BY DEF Init, Views, Confirmation, InOrder

\* No step breaks the order of a view.
LEMMA ViewsNext ==
    ASSUME IndInv, Views, [Next]_vars
    PROVE  Views'
<1>0. stackedEvents \in Seq(Heights) /\ appended \in Seq(Heights) /\ kept \in Seq(Heights)
  BY DEF IndInv, TypeOK
<1>1. CASE UNCHANGED <<stackedEvents, appended, kept>> /\ xpc' # "stackWrite"
           /\ (fpc' = "trim" => fpc = "trim")
  BY <1>1 DEF Views, InOrder, Below
<1>2. CASE UNCHANGED <<stackedEvents, appended, kept, xpc>> /\ (fpc' = "trim" => fpc = "trim")
  BY <1>2 DEF Views, InOrder, Below
<1>3. CASE StartNode
  <2>1. UNCHANGED <<stackedEvents, appended, kept, fpc>> /\ xpc' # "stackWrite"
    BY <1>3 DEF StartNode, final
  <2> QED
    BY <1>1, <2>1
<1>4. CASE Stop
  BY <1>4 DEF Stop, Halt, Views, InOrder
<1>5. CASE InitChain \/ ProcessProposal \/ FinalizeBlock \/ SaveState \/ Commit
           \/ SaveBlockID \/ FilterBlock \/ SaveBlockResponse \/ FireEvents
           \/ ClearAndSave \/ Return
  <2>1. UNCHANGED <<stackedEvents, appended, kept, fpc>> /\ xpc' # "stackWrite"
    BY <1>5 DEF InitChain, ProcessProposal, FinalizeBlock, SaveState, Commit,
       SaveBlockID, FilterBlock, SaveBlockResponse, FireEvents, ClearAndSave,
       Return, At, ExecFails, final
  <2> QED
    BY <1>1, <2>1
<1>6. CASE StackRead
  <2>1. /\ xpc = "stack" /\ UNCHANGED <<stackedEvents, kept, fpc>>
        /\ appended' = Append(stackedEvents, blk)
    BY <1>6 DEF StackRead, At, final
  <2>2. blk \in Heights
    BY <2>1, BlkType DEF Working, Committed
  <2>3. \A i \in DOMAIN stackedEvents : stackedEvents[i] < blk
    <3>1. \A i \in DOMAIN stackedEvents : stackedEvents[i] <= rollkitHeight
      BY <2>1 DEF IndInv, Queue
    <3>2. \A i \in DOMAIN stackedEvents : stackedEvents[i] \in Nat
      BY <1>0, SeqElement DEF Heights
    <3> QED
      BY <3>1, <3>2 DEF IndInv, TypeOK, blk
  <2>4. InOrder(appended') /\ Below(appended', stackedEvents)
    BY <1>0, <2>1, <2>2, <2>3, QueueAppend DEF Views
  <2>5. fpc = "trim" => Below(appended', kept)
    <3>1. appended' \in Seq(Heights)
      BY <1>0, <2>1, <2>2
    <3> QED
      BY <1>0, <2>4, <3>1, BelowTransitive DEF Views
  <2> QED
    BY <2>1, <2>4, <2>5 DEF Views
<1>7. CASE StackWrite
  BY <1>7 DEF StackWrite, At, final, Views
<1>8. CASE SetFinal \/ ReleaseSave \/ ReleaseFire
  <2>1. UNCHANGED <<stackedEvents, appended, kept, xpc>> /\ fpc' # "trim"
    BY <1>8 DEF SetFinal, NothingReleased, ReleaseSave, ReleaseFire, FinalFails, exec, final
  <2> QED
    BY <1>2, <2>1
<1>9. CASE TrimRead
  <2>1. /\ UNCHANGED <<stackedEvents, appended, xpc>>
        /\ kept' = SubSeq(stackedEvents, maxPosReleased + 1, Len(stackedEvents))
    BY <1>9 DEF TrimRead, Trimmed, exec
  <2>2. InOrder(kept') /\ Below(stackedEvents, kept')
    BY <1>0, <2>1, QueueCut DEF Views, IndInv, TypeOK
  <2>3. kept' \in Seq(Heights)
    BY <1>0, <2>1 DEF IndInv, TypeOK
  <2>4. xpc = "stackWrite" => Below(appended, kept')
    BY <1>0, <2>2, <2>3, BelowTransitive DEF Views
  <2> QED
    BY <2>1, <2>2, <2>4 DEF Views
<1>10. CASE TrimWrite
  BY <1>10 DEF TrimWrite, exec, Views
<1>11. CASE \E h \in Heights : Confirm(h)
  <2>1. UNCHANGED <<stackedEvents, appended, kept, xpc, fpc>>
    BY <1>11 DEF Confirm, exec, final
  <2> QED
    BY <1>2, <2>1
<1>12. CASE UNCHANGED vars
  BY <1>2, <1>12 DEF vars
<1> QED
  BY <1>3, <1>4, <1>5, <1>6, <1>7, <1>8, <1>9, <1>10, <1>11, <1>12
     DEF Next, ExecStep, FinalStep

\* Nor does one lose the confirmation that a publication rests on.
LEMMA ConfirmationNext ==
    ASSUME IndInv, Views, Confirmation, [Next]_vars
    PROVE  Confirmation'
<1> SUFFICES ASSUME Filter = "network" PROVE Confirmation'
  BY DEF Confirmation
<1>0. stackedEvents \in Seq(Heights) /\ appended \in Seq(Heights)
  BY DEF IndInv, TypeOK
<1>1. CASE /\ UNCHANGED rollkitHeight /\ confirmed \subseteq confirmed'
           /\ xpc' \in {"saveResponse", "fire"} => xpc \in {"saveResponse", "fire"}
           /\ fpc' \in {"release", "releaseFire"} =>
                 /\ fpc \in {"release", "releaseFire"}
                 /\ UNCHANGED <<stackedEvents, maxPosReleased>>
  BY <1>1 DEF Confirmation, Covers, blk
<1>2. CASE Return
  BY <1>2 DEF Return, final, Confirmation, Covers
<1>3. CASE FilterBlock
  <2>1. /\ UNCHANGED <<rollkitHeight, confirmed, fpc, stackedEvents, maxPosReleased>>
        /\ xpc' \in {"saveResponse", "fire"} => IsPublishable(blk)
    BY <1>3 DEF FilterBlock, disk, final
  <2> QED
    BY <2>1 DEF IsPublishable, Confirmation, Covers, blk
<1>4. CASE StackWrite
  <2>1. /\ xpc = "stackWrite" /\ xpc' = "clear" /\ stackedEvents' = appended
        /\ UNCHANGED <<confirmed, fpc, maxPosReleased>>
    BY <1>4 DEF StackWrite, At, disk, final
  <2>2. ASSUME fpc \in {"release", "releaseFire"}
        PROVE  \E h \in confirmed : Covers(h, appended, maxPosReleased)
    <3>1. PICK h \in confirmed : Covers(h, stackedEvents, maxPosReleased)
      BY <2>2 DEF Confirmation
    <3>2. h \in Nat /\ maxPosReleased \in Nat /\ maxPosReleased <= Len(stackedEvents)
      BY <2>2 DEF IndInv, TypeOK, Release, Heights
    <3>3. Below(appended, stackedEvents)
      BY <2>1 DEF Views
    <3>4. ASSUME NEW j \in 1 .. maxPosReleased PROVE appended[j] <= h
      <4>1. Len(stackedEvents) \in Nat /\ Len(appended) \in Nat
            /\ Len(stackedEvents) <= Len(appended)
        BY <1>0, <3>3 DEF Below
      <4>2. j \in 1 .. Len(stackedEvents) /\ j \in 1 .. Len(appended)
        BY <3>2, <4>1
      <4>3. j \in DOMAIN stackedEvents /\ j \in DOMAIN appended
        BY <1>0, <4>2
      <4>4. appended[j] <= stackedEvents[j] /\ stackedEvents[j] <= h
        BY <3>1, <3>3, <4>3 DEF Below, Covers
      <4>5. appended[j] \in Nat /\ stackedEvents[j] \in Nat
        BY <1>0, <4>3, SeqElement DEF Heights
      <4> QED
        BY <3>2, <4>4, <4>5
    <3> QED
      BY <3>1, <3>4 DEF Covers
  <2> QED
    BY <2>1, <2>2 DEF Confirmation
<1>5. CASE SetFinal
  <2>1. UNCHANGED <<rollkitHeight, confirmed, xpc, stackedEvents>> /\ fpc = "idle"
    BY <1>5 DEF SetFinal, exec
  <2>2. ASSUME fpc' \in {"release", "releaseFire"}
        PROVE  \E h \in confirmed : Covers(h, stackedEvents, maxPosReleased')
    <3>1. PICK i \in DOMAIN stackedEvents : LastReleasable(i) /\ maxPosReleased' = i
      BY <1>5, <2>1, <2>2 DEF SetFinal, NothingReleased, final
    <3>2. stackedEvents[i] \in confirmed /\ stackedEvents[i] >= 2
      BY <3>1 DEF LastReleasable, Releasable, IsPublishable
    <3>3. ASSUME NEW j \in 1 .. i PROVE stackedEvents[j] <= stackedEvents[i]
      <4>1. j \in DOMAIN stackedEvents /\ (j = i \/ j < i)
        BY <1>0, SeqElement
      <4>2. stackedEvents[j] \in Nat /\ stackedEvents[i] \in Nat
        BY <1>0, <4>1, SeqElement DEF Heights
      <4> QED
        BY <4>1, <4>2 DEF Views, InOrder
    <3> QED
      BY <3>1, <3>2, <3>3 DEF Covers
  <2> QED
    BY <2>1, <2>2 DEF Confirmation, blk
<1>6. CASE StartNode \/ Stop
  BY <1>1, <1>6 DEF StartNode, Stop, Halt, disk, final
<1>7. CASE InitChain \/ ProcessProposal \/ FinalizeBlock \/ SaveState \/ Commit
           \/ SaveBlockID \/ SaveBlockResponse \/ FireEvents \/ StackRead
           \/ ClearAndSave
  <2>1. /\ UNCHANGED <<rollkitHeight, confirmed, stackedEvents, fpc, maxPosReleased>>
        /\ xpc' \in {"saveResponse", "fire"} => xpc \in {"saveResponse", "fire"}
    BY <1>7 DEF InitChain, ProcessProposal, FinalizeBlock, SaveState, Commit,
       SaveBlockID, SaveBlockResponse, FireEvents, StackRead, ClearAndSave,
       At, ExecFails, disk, final
  <2> QED
    BY <1>1, <2>1
<1>8. CASE ReleaseSave \/ ReleaseFire \/ TrimRead \/ TrimWrite
  <2>1. /\ UNCHANGED <<rollkitHeight, confirmed, xpc>>
        /\ fpc' \in {"release", "releaseFire"} =>
              /\ fpc \in {"release", "releaseFire"}
              /\ UNCHANGED <<stackedEvents, maxPosReleased>>
    BY <1>8 DEF ReleaseSave, ReleaseFire, TrimRead, TrimWrite, FinalFails, disk, exec
  <2> QED
    BY <1>1, <2>1
<1>9. CASE \E h \in Heights : Confirm(h)
  <2>1. /\ UNCHANGED <<rollkitHeight, xpc, fpc, stackedEvents, maxPosReleased>>
        /\ confirmed \subseteq confirmed'
    BY <1>9 DEF Confirm, exec, final
  <2> QED
    BY <1>1, <2>1
<1>10. CASE UNCHANGED vars
  BY <1>1, <1>10 DEF vars
<1> QED
  BY <1>2, <1>3, <1>4, <1>5, <1>6, <1>7, <1>8, <1>9, <1>10
     DEF Next, ExecStep, FinalStep

\* One more publication, of a block that a confirmed height covers.
LEMMA PublishConfirmed ==
    ASSUME IndInv, PublishedAfterConsensus, NEW b \in Heights,
           published' = Append(published, Publication(b)), UNCHANGED confirmed,
           Filter = "network" => \E h \in confirmed : h >= 2 /\ h >= b
    PROVE  PublishedAfterConsensus'
<1>1. published \in Seq(Publications)
  BY DEF IndInv, TypeOK, Publications
<1>2. Publication(b).height = b
  BY DEF Publication
<1>3. ASSUME NEW i \in DOMAIN published'
      PROVE  (i \in DOMAIN published /\ published'[i] = published[i])
             \/ published'[i] = Publication(b)
  BY <1>1
<1> QED
  BY <1>2, <1>3 DEF PublishedAfterConsensus

\* Both loops publish only what is confirmed.
LEMMA ConsensusNext ==
    ASSUME IndInv, Confirmation, PublishedAfterConsensus, [Next]_vars
    PROVE  PublishedAfterConsensus'
<1>1. CASE UNCHANGED published /\ confirmed \subseteq confirmed'
  BY <1>1 DEF PublishedAfterConsensus
<1>2. CASE FireEvents
  <2>1. CASE ExecFails
    BY <1>1, <2>1 DEF ExecFails, disk
  <2>2. CASE ~ ExecFails
    <3>1. /\ xpc = "fire" /\ UNCHANGED confirmed
          /\ published' = Append(published, Publication(blk))
      BY <1>2, <2>2 DEF FireEvents, At, disk
    <3>2. blk \in Heights
      BY <3>1, BlkType DEF Working, Committed
    <3>3. blk >= blk
      BY <3>2 DEF Heights
    <3> QED
      BY <3>1, <3>2, <3>3, PublishConfirmed DEF Confirmation
  <2> QED
    BY <2>1, <2>2
<1>3. CASE ReleaseFire
  <2>1. CASE FinalFails
    BY <1>1, <2>1 DEF FinalFails, disk
  <2>2. CASE ~ FinalFails
    <3>1. /\ fpc = "releaseFire" /\ UNCHANGED confirmed
          /\ published' = Append(published, Publication(stackedEvents[pos]))
      BY <1>3, <2>2 DEF ReleaseFire, disk
    <3>2. stackedEvents[pos] \in Heights
      BY <3>1, ReleasedStored
    <3>3. pos \in 1 .. maxPosReleased
      BY <3>1 DEF IndInv, TypeOK, Release
    <3>4. ASSUME Filter = "network"
          PROVE  \E h \in confirmed : h >= 2 /\ h >= stackedEvents[pos]
      <4>1. PICK h \in confirmed : Covers(h, stackedEvents, maxPosReleased)
        BY <3>1, <3>4 DEF Confirmation
      <4>2. h \in Nat
        BY DEF IndInv, TypeOK, Heights
      <4> QED
        BY <3>2, <3>3, <4>1, <4>2 DEF Covers, Heights
    <3> QED
      BY <3>1, <3>2, <3>4, PublishConfirmed
  <2> QED
    BY <2>1, <2>2
<1>4. CASE \E h \in Heights : Confirm(h)
  BY <1>1, <1>4 DEF Confirm
<1>5. CASE StartNode \/ Stop \/ UNCHANGED vars
  BY <1>1, <1>5 DEF StartNode, Stop, Halt, disk, vars
<1>6. CASE ExecStep /\ ~ FireEvents
  <2>1. UNCHANGED <<published, confirmed>>
    BY <1>6 DEF ExecStep, InitChain, ProcessProposal, FinalizeBlock, SaveState,
       Commit, SaveBlockID, FilterBlock, SaveBlockResponse, StackRead, StackWrite,
       ClearAndSave, Return, ExecFails, disk
  <2> QED
    BY <1>1, <2>1
<1>7. CASE FinalStep /\ ~ ReleaseFire
  <2>1. UNCHANGED <<published, confirmed>>
    BY <1>7 DEF FinalStep, SetFinal, ReleaseSave, TrimRead, TrimWrite, FinalFails, disk
  <2> QED
    BY <1>1, <2>1
<1> QED
  BY <1>2, <1>3, <1>4, <1>5, <1>6, <1>7 DEF Next

\* With the network filter the subscribers see a block's events only once
\* that block or a later one is soft-confirmed, even if the two loops race on
\* the queue and a cancelled call of SetFinal cuts it short.
THEOREM EventsFollowConsensus == Spec => []PublishedAfterConsensus
<1>1. Init => Views /\ Confirmation /\ PublishedAfterConsensus
  BY ViewsInit DEF Init, PublishedAfterConsensus
<1>2. IndInv /\ Views /\ Confirmation /\ PublishedAfterConsensus /\ [Next]_vars
        => Views' /\ Confirmation' /\ PublishedAfterConsensus'
  BY ViewsNext, ConfirmationNext, ConsensusNext
<1> QED
  BY <1>1, <1>2, Invariance, PTL DEF Spec

-----------------------------------------------------------------------------
(***************************************************************************)
(* The default filter lets every block through: nothing is ever queued,    *)
(* and SetFinal never has anything to release.                             *)
(***************************************************************************)
Unqueued ==
    /\ stackedEvents = <<>>
    /\ xpc \notin {"stack", "stackWrite", "clear"}
    /\ fpc = "idle"

\* Nothing is queued at first.
LEMMA UnqueuedInit == Init => Unqueued
BY DEF Init, Unqueued

\* A filter that lets every block through queues none.
LEMMA UnqueuedNext ==
    ASSUME Filter = "always", Unqueued, [Next]_vars
    PROVE  Unqueued'
<1>1. CASE ExecStep
  <2>1. UNCHANGED <<stackedEvents, fpc>> /\ xpc' \notin {"stack", "stackWrite", "clear"}
    BY <1>1 DEF Unqueued, ExecStep, InitChain, ProcessProposal, FinalizeBlock, SaveState,
       Commit, SaveBlockID, FilterBlock, IsPublishable, SaveBlockResponse, FireEvents,
       StackRead, StackWrite, ClearAndSave, Return, At, ExecFails, final
  <2> QED
    BY <2>1 DEF Unqueued
<1>2. CASE FinalStep
  <2>1. SetFinal /\ DOMAIN stackedEvents = {}
    BY <1>2 DEF Unqueued, FinalStep, ReleaseSave, ReleaseFire, TrimRead, TrimWrite
  <2>2. UNCHANGED <<stackedEvents, xpc, fpc>>
    BY <2>1 DEF SetFinal, NothingReleased, exec, final
  <2> QED
    BY <2>2 DEF Unqueued
<1>3. CASE StartNode \/ Stop \/ (\E h \in Heights : Confirm(h)) \/ UNCHANGED vars
  BY <1>3 DEF Unqueued, StartNode, Stop, Halt, Confirm, exec, final, vars
<1> QED
  BY <1>1, <1>2, <1>3 DEF Next

\* The response object of the block under execution still has its events,
\* and they are on disk before they are fired.
EventsAtHand ==
    /\ xpc \in {"saveState", "commit", "saveBlockID", "filter", "saveResponse", "fire"}
          => blk \in fbEvents
    /\ xpc = "fire" => responses[blk] = "full"
    /\ PublishedEventsStored

\* Events are stored before they are fired, and what is stored stays.
LEMMA EventsAtHandNext ==
    ASSUME IndInv, Unqueued, EventsAtHand, [Next]_vars
    PROVE  EventsAtHand'
<1>0. \A i \in DOMAIN published : published[i].height \in Heights
  BY PublishedHeight
<1>1. CASE /\ UNCHANGED <<rollkitHeight, fbEvents, responses, published>>
           /\ xpc' = xpc \/ xpc' \in {"failed", "idle", "initChain", "finalize"}
  BY <1>1 DEF EventsAtHand, PublishedEventsStored, blk
<1>2. CASE FinalizeBlock
  <2>1. CASE ExecFails
    BY <1>1, <2>1 DEF ExecFails, disk
  <2>2. CASE ~ ExecFails
    BY <1>2, <2>2 DEF FinalizeBlock, EventsAtHand, PublishedEventsStored, blk, disk
  <2> QED
    BY <2>1, <2>2
<1>3. CASE SaveState \/ Commit \/ SaveBlockID
  <2>1. /\ UNCHANGED <<rollkitHeight, fbEvents, responses, published>>
        /\ xpc \in {"saveState", "commit", "saveBlockID"} /\ xpc' # "fire"
    BY <1>3 DEF SaveState, Commit, SaveBlockID, At, ExecFails, disk
  <2> QED
    BY <2>1 DEF EventsAtHand, PublishedEventsStored, blk
<1>4. CASE FilterBlock
  BY <1>4 DEF FilterBlock, At, EventsAtHand, PublishedEventsStored, blk, disk
<1>5. CASE SaveBlockResponse
  <2>1. CASE ExecFails
    BY <1>1, <2>1 DEF ExecFails, disk
  <2>2. CASE ~ ExecFails
    <3>1. /\ xpc = "saveResponse" /\ xpc' = "fire"
          /\ UNCHANGED <<rollkitHeight, fbEvents, published>>
          /\ responses' = [responses EXCEPT ![blk] = "full"]
      BY <1>5, <2>2 DEF SaveBlockResponse, At
    <3>2. blk \in Heights
      BY <3>1, BlkType DEF Working, Committed
    <3>3. responses'[blk] = "full"
          /\ \A h \in Heights : responses[h] = "full" => responses'[h] = "full"
      BY <3>1, <3>2 DEF IndInv, TypeOK
    <3> QED
      BY <1>0, <3>1, <3>3 DEF EventsAtHand, PublishedEventsStored, blk
  <2> QED
    BY <2>1, <2>2
<1>6. CASE FireEvents
  <2>1. CASE ExecFails
    BY <1>1, <2>1 DEF ExecFails, disk
  <2>2. CASE ~ ExecFails
    <3>1. /\ xpc = "fire" /\ xpc' = "return"
          /\ UNCHANGED <<rollkitHeight, fbEvents, responses>>
          /\ published' = Append(published, Publication(blk))
      BY <1>6, <2>2 DEF FireEvents, At, disk
    <3>2. Publication(blk).height = blk /\ Publication(blk).response = "full"
      BY <3>1 DEF Publication, Response, EventsAtHand
    <3>3. published \in Seq(Publications)
      BY DEF IndInv, TypeOK, Publications
    <3>4. ASSUME NEW i \in DOMAIN published'
          PROVE  (i \in DOMAIN published /\ published'[i] = published[i])
                 \/ published'[i] = Publication(blk)
      BY <3>1, <3>3
    <3> QED
      BY <3>1, <3>2, <3>4 DEF EventsAtHand, PublishedEventsStored
  <2> QED
    BY <2>1, <2>2
<1>7. CASE InitChain \/ ProcessProposal
  BY <1>1, <1>7 DEF InitChain, ProcessProposal, ExecFails, disk
<1>8. CASE StackRead \/ StackWrite \/ ClearAndSave
  BY <1>8 DEF StackRead, StackWrite, ClearAndSave, At, Unqueued
<1>9. CASE Return
  BY <1>9 DEF Return, EventsAtHand, PublishedEventsStored
<1>10. CASE FinalStep
  <2>1. SetFinal
    BY <1>10 DEF Unqueued, FinalStep, ReleaseSave, ReleaseFire, TrimRead, TrimWrite
  <2> QED
    BY <1>1, <2>1 DEF SetFinal, exec
<1>11. CASE Stop
  BY <1>11 DEF Stop, Halt, disk, EventsAtHand, PublishedEventsStored
<1>12. CASE StartNode \/ (\E h \in Heights : Confirm(h)) \/ UNCHANGED vars
  <2>1. /\ UNCHANGED <<rollkitHeight, fbEvents, responses, published>>
        /\ xpc' = xpc \/ xpc' \in {"failed", "idle", "initChain", "finalize"}
    BY <1>12 DEF StartNode, Confirm, exec, disk, vars
  <2> QED
    BY <1>1, <2>1
<1> QED
  BY <1>2, <1>3, <1>4, <1>5, <1>6, <1>7, <1>8, <1>9, <1>10, <1>11, <1>12
     DEF Next, ExecStep

\* With the default filter a block is published with all its events and its
\* stored response keeps them, after any failure and restart.  (With the
\* network filter ExecuteTxs clears the events of a queued block.)
THEOREM EventsAreStored == Filter = "always" => (Spec => []PublishedEventsStored)
<1> SUFFICES ASSUME Filter = "always" PROVE Spec => []PublishedEventsStored
  OBVIOUS
<1>1. Init => Unqueued /\ EventsAtHand
  BY UnqueuedInit DEF Init, EventsAtHand, PublishedEventsStored
<1>2. IndInv /\ Unqueued /\ EventsAtHand /\ [Next]_vars => Unqueued' /\ EventsAtHand'
  BY UnqueuedNext, EventsAtHandNext
<1>3. EventsAtHand => PublishedEventsStored
  BY DEF EventsAtHand
<1> QED
  BY <1>1, <1>2, <1>3, Invariance, PTL DEF Spec

-----------------------------------------------------------------------------
(***************************************************************************)
(* The adapter implements Publication, as long as the two loops do not     *)
(* meet on the queue, SetFinal is not cancelled and validators do not      *)
(* attest ahead of time.                                                   *)
(***************************************************************************)
Sequential == Faults \cap {"overlap", "cancel", "earlyAttest"} = {}

\* How many blocks of the queue the running call of SetFinal has published.
Done == IF fpc \in {"release", "releaseFire", "trimRead", "trim"} THEN pos - 1 ELSE 0

\* No loop works on an outdated view of the queue.
Exclusive ==
    /\ ~ (xpc = "stackWrite" /\ fpc = "trim")
    /\ xpc = "stackWrite" => appended = Append(stackedEvents, blk)
    /\ fpc = "trim" => kept = Trimmed
    /\ fpc \in {"trimRead", "trim"} =>
          pos = maxPosReleased + 1 /\ maxPosReleased <= Len(stackedEvents)
    /\ ~ up => fpc = "idle"

\* Attestations of a block come in later blocks.
Attested == \A h \in confirmed : h < appHeight

\* The front of the queue is published, and everything behind it, as well as
\* the block on its way to the queue, is younger than what is published.
Oldest ==
    /\ fpc # "failed" =>
          \A j \in DOMAIN stackedEvents :
              IF j <= Done THEN stackedEvents[j] \in PublishedHeights
              ELSE \A g \in PublishedHeights : g < stackedEvents[j]
    /\ InTransit => \A g \in PublishedHeights : g <= rollkitHeight

\* What a publication does to what Publication sees.
LEMMA PublishesHeight ==
    ASSUME IndInv, NEW h \in Heights, published' = Append(published, Publication(h))
    PROVE  PublishedHeights' = PublishedHeights \cup {h} /\ Seen' = Append(Seen, h)
<1>1. published \in Seq(Publications) /\ Publication(h) \in Publications
  BY DEF IndInv, TypeOK, Publications, Publication, Response
<1>2. /\ Len(published) \in Nat /\ DOMAIN published = 1 .. Len(published)
      /\ DOMAIN published' = 1 .. Len(published) + 1
      /\ published'[Len(published) + 1] = Publication(h)
      /\ \A i \in 1 .. Len(published) : published'[i] = published[i]
  BY <1>1
<1>3. Publication(h).height = h
  BY DEF Publication
<1>4. PublishedHeights' = PublishedHeights \cup {h}
  BY <1>2, <1>3 DEF PublishedHeights
<1>5. \A i \in 1 .. Len(published) : published[i].height \in Heights
  BY <1>2, PublishedHeight
<1>6. Seen \in Seq(Heights) /\ Len(Seen) = Len(published)
  BY <1>2, <1>5 DEF Seen
<1>7. /\ Append(Seen, h) \in Seq(Heights) /\ Len(Append(Seen, h)) = Len(published) + 1
      /\ Append(Seen, h)[Len(published) + 1] = h
      /\ \A i \in 1 .. Len(published) : Append(Seen, h)[i] = Seen[i]
  BY <1>6, AppendProperties
<1>8. \A i \in 1 .. Len(published) + 1 :
          published'[i].height = Append(Seen, h)[i] /\ published'[i].height \in Heights
  <2>1. \A i \in 1 .. Len(published) : Seen[i] = published[i].height
    BY <1>2 DEF Seen
  <2>2. \A i \in 1 .. Len(published) + 1 : i \in 1 .. Len(published) \/ i = Len(published) + 1
    BY <1>2
  <2> QED
    BY <1>2, <1>3, <1>5, <1>7, <2>1, <2>2
<1>9. Seen' = [i \in 1 .. Len(published) + 1 |-> published'[i].height]
  BY <1>2 DEF Seen
<1>10. Seen' \in Seq(Heights) /\ Len(Seen') = Len(published) + 1
  BY <1>2, <1>8, <1>9
<1>11. \A i \in 1 .. Len(Seen') : Seen'[i] = Append(Seen, h)[i]
  BY <1>8, <1>9, <1>10
<1>12. Seen' = Append(Seen, h)
  BY <1>7, <1>10, <1>11, SeqEqual
<1> QED
  BY <1>4, <1>12

\* The heights published are heights.
LEMMA PublishedHeightsType == ASSUME IndInv PROVE PublishedHeights \subseteq Heights
BY PublishedHeight DEF PublishedHeights

\* Without overlap each access to the queue is one step.
LEMMA ExclusiveNext ==
    ASSUME Sequential, IndInv, Exclusive, [Next]_vars
    PROVE  Exclusive'
<1>0. "overlap" \notin Faults /\ "cancel" \notin Faults
  BY DEF Sequential
<1>1. CASE UNCHANGED <<stackedEvents, kept, fpc, pos, maxPosReleased, up>> /\ xpc' # "stackWrite"
  BY <1>1 DEF Exclusive, Trimmed
<1>2. CASE StackRead
  <2>1. fpc # "trim" /\ UNCHANGED <<stackedEvents, rollkitHeight, fpc, pos, maxPosReleased, up, kept>>
        /\ appended' = Append(stackedEvents, blk)
    BY <1>0, <1>2 DEF StackRead, QueueFreeForExec, disk, final
  <2> QED
    BY <2>1 DEF Exclusive, blk, Trimmed
<1>3. CASE StackWrite
  <2>1. /\ xpc = "stackWrite" /\ xpc' = "clear" /\ stackedEvents' = appended /\ fpc # "trim"
        /\ UNCHANGED <<fpc, pos, maxPosReleased, up>>
    BY <1>3 DEF StackWrite, At, Exclusive, final
  <2>2. Len(stackedEvents) < Len(appended)
    BY <2>1 DEF IndInv, Appending
  <2>3. Len(stackedEvents) \in Nat /\ Len(appended) \in Nat /\ maxPosReleased \in Nat
    BY DEF IndInv, TypeOK
  <2> QED
    BY <2>1, <2>2, <2>3 DEF Exclusive
<1>4. CASE SetFinal
  BY <1>4 DEF SetFinal, NothingReleased, final, exec, Exclusive, blk
<1>5. CASE ReleaseSave
  <2>1. /\ UNCHANGED <<stackedEvents, rollkitHeight, xpc, appended, up, pos, maxPosReleased>>
        /\ fpc' \in {"releaseFire", "failed"} /\ up
    BY <1>0, <1>5 DEF ReleaseSave, FinalFails, exec, disk
  <2> QED
    BY <2>1 DEF Exclusive, blk
<1>6. CASE ReleaseFire
  <2>1. /\ UNCHANGED <<stackedEvents, rollkitHeight, xpc, appended, up, maxPosReleased>>
        /\ fpc' # "trim" /\ up
        /\ fpc' = "trimRead" => pos = maxPosReleased /\ pos' = pos + 1
        /\ fpc = "releaseFire"
    BY <1>6 DEF ReleaseFire, FinalFails, exec, disk
  <2>2. maxPosReleased <= Len(stackedEvents)
    BY <2>1 DEF IndInv, Release
  <2> QED
    BY <2>1, <2>2 DEF Exclusive, blk
<1>7. CASE TrimRead
  BY <1>0, <1>7 DEF TrimRead, QueueFreeForFinal, Exclusive, Trimmed, exec, disk
<1>8. CASE TrimWrite
  BY <1>8 DEF TrimWrite, Exclusive, exec
<1>9. CASE \E h \in Heights : Confirm(h)
  BY <1>9 DEF Confirm, Exclusive, Trimmed, blk, exec, final
<1>10. CASE StartNode \/ Stop
  BY <1>10 DEF StartNode, Stop, Halt, Exclusive, final
<1>11. CASE InitChain \/ ProcessProposal \/ FinalizeBlock \/ SaveState \/ Commit
           \/ SaveBlockID \/ FilterBlock \/ SaveBlockResponse \/ FireEvents
           \/ ClearAndSave \/ Return
  <2>1. UNCHANGED <<stackedEvents, kept, fpc, pos, maxPosReleased, up>> /\ xpc' # "stackWrite"
    BY <1>11 DEF InitChain, ProcessProposal, FinalizeBlock, SaveState, Commit,
       SaveBlockID, FilterBlock, SaveBlockResponse, FireEvents, ClearAndSave,
       Return, At, ExecFails, final
  <2> QED
    BY <1>1, <2>1
<1>12. CASE UNCHANGED vars
  BY <1>12 DEF vars, Exclusive, Trimmed, blk
<1> QED
  BY <1>2, <1>3, <1>4, <1>5, <1>6, <1>7, <1>8, <1>9, <1>10, <1>11, <1>12
     DEF Next, ExecStep, FinalStep

\* Blocks are only confirmed after they are committed.
LEMMA AttestedNext ==
    ASSUME Sequential, IndInv, Attested, [Next]_vars
    PROVE  Attested'
<1>1. CASE \E h \in Heights : Confirm(h)
  BY <1>1 DEF Confirm, Attested, Sequential
<1>2. CASE Commit
  <2>1. xpc = "commit" /\ UNCHANGED confirmed /\ (appHeight' = appHeight \/ appHeight' = blk)
    BY <1>2 DEF Commit, At, ExecFails, disk
  <2>2. appHeight \in Nat /\ blk = appHeight + 1
    BY <2>1 DEF IndInv, TypeOK, Progress, blk
  <2>3. \A h \in confirmed : h \in Nat
    BY DEF IndInv, TypeOK, Heights
  <2> QED
    BY <2>1, <2>2, <2>3 DEF Attested
<1>3. CASE StartNode \/ Stop \/ FinalStep \/ UNCHANGED vars
  <2>1. UNCHANGED <<appHeight, confirmed>>
    BY <1>3 DEF StartNode, Stop, Halt, FinalStep, SetFinal, ReleaseSave, ReleaseFire,
       TrimRead, TrimWrite, FinalFails, disk, vars
  <2> QED
    BY <2>1 DEF Attested
<1>4. CASE ExecStep /\ ~ Commit
  <2>1. UNCHANGED <<appHeight, confirmed>>
    BY <1>4 DEF ExecStep, InitChain, ProcessProposal, FinalizeBlock, SaveState,
       SaveBlockID, FilterBlock, SaveBlockResponse, FireEvents, StackRead, StackWrite,
       ClearAndSave, Return, ExecFails, disk
  <2> QED
    BY <2>1 DEF Attested
<1> QED
  BY <1>1, <1>2, <1>3, <1>4 DEF Next

\* With the network filter and no attestation ahead of time, a block is never
\* confirmed before it is queued: ExecuteTxs itself fires the events of a
\* block only under the default filter, where the queue is empty.
LEMMA FiresDirectly ==
    ASSUME IndInv, Confirmation, Attested, Filter = "always" => Unqueued, xpc = "fire"
    PROVE  Unqueued
<1>1. appHeight = blk /\ blk \in Nat
  BY BlkType DEF IndInv, Progress, Working, Committed, Heights
<1>2. Filter # "network"
  BY <1>1 DEF Confirmation, Attested
<1> QED
  BY <1>2, AdapterAssumption

\* Whatever is published leaves nothing older behind in the queue.
LEMMA OldestNext ==
    ASSUME IndInv, Views, Confirmation, Exclusive, Attested, Oldest,
           Filter = "always" => Unqueued, [Next]_vars
    PROVE  Oldest'
<1>0. /\ stackedEvents \in Seq(Heights) /\ rollkitHeight \in Nat /\ appHeight \in Nat
      /\ pos \in Nat /\ maxPosReleased \in Nat
  BY DEF IndInv, TypeOK
<1>1. CASE /\ UNCHANGED <<stackedEvents, published>>
           /\ fpc' # "failed" => fpc # "failed" /\ Done' = Done
           /\ InTransit' => InTransit /\ UNCHANGED rollkitHeight
  BY <1>1 DEF Oldest, PublishedHeights
<1>2. CASE Commit
  <2>1. /\ xpc = "commit"
        /\ UNCHANGED <<stackedEvents, published, fpc, pos, rollkitHeight>>
    BY <1>2 DEF Commit, At, ExecFails, disk, final
  <2>2. \A g \in PublishedHeights : g <= rollkitHeight
    BY <2>1 DEF IndInv, Progress, PublishedAfterSave, PublishedHeights
  <2>3. Done' = Done /\ PublishedHeights' = PublishedHeights
    BY <2>1 DEF Done, PublishedHeights
  <2> QED
    BY <2>1, <2>2, <2>3 DEF Oldest
<1>3. CASE Stop
  <2>1. stackedEvents' = <<>> /\ ~ InTransit'
    BY <1>3 DEF Stop, Halt, InTransit
  <2> QED
    BY <2>1 DEF Oldest
<1>4. CASE FireEvents
  <2>1. CASE ExecFails
    <3>1. UNCHANGED <<stackedEvents, published, fpc, pos>> /\ ~ InTransit'
      BY <2>1 DEF ExecFails, final, InTransit
    <3> QED
      BY <1>1, <3>1 DEF Done
  <2>2. CASE ~ ExecFails
    <3>1. xpc = "fire" /\ UNCHANGED stackedEvents /\ xpc' = "return"
      BY <1>4, <2>2 DEF FireEvents, At
    <3>2. stackedEvents = <<>>
      BY <3>1, FiresDirectly DEF Unqueued
    <3>3. stackedEvents' = <<>> /\ ~ InTransit'
      BY <3>1, <3>2 DEF InTransit
    <3> QED
      BY <3>3 DEF Oldest
  <2> QED
    BY <2>1, <2>2
<1>5. CASE StackWrite
  <2>1. /\ xpc = "stackWrite" /\ xpc' = "clear" /\ stackedEvents' = Append(stackedEvents, blk)
        /\ UNCHANGED <<published, fpc, pos>>
    BY <1>5 DEF StackWrite, At, Exclusive, final
  <2>2. blk \in Heights /\ blk = rollkitHeight + 1
    BY <2>1, BlkType DEF Working, Committed, blk
  <2>3. \A g \in PublishedHeights : g < blk
    <3>1. \A g \in PublishedHeights : g <= rollkitHeight
      BY <2>1 DEF Oldest, InTransit
    <3> QED
      BY <1>0, <2>2, <3>1, PublishedHeightsType DEF Heights
  <2>4. fpc # "failed" => Done <= Len(stackedEvents) /\ Done \in Int
    <3>1. Len(stackedEvents) \in Nat
      BY <1>0
    <3> QED
      BY <1>0, <3>1 DEF Done, IndInv, TypeOK, Release, Exclusive
  <2>5. Done' = Done /\ PublishedHeights' = PublishedHeights /\ ~ InTransit'
    BY <2>1 DEF Done, PublishedHeights, InTransit
  <2>6. ASSUME fpc # "failed", NEW j \in DOMAIN stackedEvents'
        PROVE  IF j <= Done THEN stackedEvents'[j] \in PublishedHeights
               ELSE \A g \in PublishedHeights : g < stackedEvents'[j]
    <3>1. Len(stackedEvents) \in Nat /\ DOMAIN stackedEvents = 1 .. Len(stackedEvents)
      BY <1>0
    <3>2. CASE j \in DOMAIN stackedEvents
      <4>1. stackedEvents'[j] = stackedEvents[j]
        BY <1>0, <2>1, <2>2, <3>2
      <4> QED
        BY <2>6, <3>2, <4>1 DEF Oldest
    <3>3. CASE j = Len(stackedEvents) + 1
      <4>1. stackedEvents'[j] = blk
        BY <1>0, <2>1, <2>2, <3>3
      <4>2. ~ (j <= Done)
        BY <2>4, <2>6, <3>1, <3>3
      <4> QED
        BY <2>3, <4>1, <4>2
    <3> QED
      BY <1>0, <2>1, <2>2, <3>2, <3>3
  <2> QED
    BY <2>1, <2>5, <2>6 DEF Oldest
<1>6. CASE ReleaseFire
  <2>1. CASE FinalFails
    <3>1. UNCHANGED <<stackedEvents, published, rollkitHeight, xpc>> /\ fpc' = "failed"
      BY <2>1 DEF FinalFails, disk, exec
    <3> QED
      BY <1>1, <3>1 DEF InTransit
  <2>2. CASE ~ FinalFails
    <3> DEFINE h == stackedEvents[pos]
    <3>1. /\ fpc = "releaseFire" /\ fpc' \in {"trimRead", "release"} /\ pos' = pos + 1
          /\ published' = Append(published, Publication(h))
          /\ UNCHANGED <<stackedEvents, rollkitHeight, xpc>>
      BY <1>6, <2>2 DEF ReleaseFire, disk, exec
    <3>2. h \in Heights /\ h <= rollkitHeight
      BY <3>1, ReleasedStored
    <3>3. PublishedHeights' = PublishedHeights \cup {h}
      BY <3>1, <3>2, PublishesHeight
    <3>4. Done = pos - 1 /\ Done' = pos
      BY <1>0, <3>1 DEF Done
    <3>5. pos \in DOMAIN stackedEvents
      BY <1>0, <3>1 DEF IndInv, Release
    <3>6. ASSUME NEW j \in DOMAIN stackedEvents
          PROVE  IF j <= pos THEN stackedEvents[j] \in PublishedHeights'
                 ELSE \A g \in PublishedHeights' : g < stackedEvents[j]
      <4>1. j \in Nat
        BY <1>0
      <4>2. CASE j <= pos - 1
        BY <1>0, <3>1, <3>3, <3>4, <4>1, <4>2 DEF Oldest
      <4>3. CASE j = pos
        BY <3>3, <4>1, <4>3
      <4>4. CASE j > pos
        <5>1. h < stackedEvents[j]
          BY <3>5, <4>4 DEF Views, InOrder
        <5>2. ~ (j <= pos - 1) /\ ~ (j <= pos)
          BY <1>0, <4>1, <4>4
        <5>3. \A g \in PublishedHeights : g < stackedEvents[j]
          BY <3>1, <3>4, <5>2 DEF Oldest
        <5> QED
          BY <3>3, <5>1, <5>2, <5>3
      <4> QED
        BY <1>0, <4>1, <4>2, <4>3, <4>4
    <3>7. InTransit' => \A g \in PublishedHeights' : g <= rollkitHeight'
      BY <3>1, <3>2, <3>3 DEF Oldest, InTransit
    <3> QED
      BY <3>1, <3>4, <3>6, <3>7 DEF Oldest
  <2> QED
    BY <2>1, <2>2
<1>7. CASE TrimWrite
  <2>1. /\ fpc = "trim" /\ fpc' = "idle" /\ stackedEvents' = kept
        /\ UNCHANGED <<published, rollkitHeight, xpc>>
    BY <1>7 DEF TrimWrite, exec
  <2>2. kept = SubSeq(stackedEvents, maxPosReleased + 1, Len(stackedEvents))
        /\ pos = maxPosReleased + 1
    BY <2>1 DEF Exclusive, Trimmed
  <2>3. Done = maxPosReleased /\ Done' = 0
    BY <1>0, <2>1, <2>2 DEF Done
  <2>4. ASSUME NEW j \in DOMAIN kept
        PROVE  j \in Nat /\ ~ (j <= 0) /\ \A g \in PublishedHeights : g < kept[j]
    <3>1. /\ j \in Nat /\ 1 <= j /\ maxPosReleased + j \in DOMAIN stackedEvents
          /\ kept[j] = stackedEvents[maxPosReleased + j]
      BY <1>0, <2>2
    <3>2. ~ (maxPosReleased + j <= maxPosReleased) /\ ~ (j <= 0)
      BY <1>0, <3>1
    <3> QED
      BY <2>1, <2>3, <3>1, <3>2 DEF Oldest
  <2>5. PublishedHeights' = PublishedHeights /\ InTransit' = InTransit
    BY <2>1 DEF PublishedHeights, InTransit
  <2> QED
    BY <2>1, <2>3, <2>4, <2>5 DEF Oldest
<1>8. CASE SetFinal \/ ReleaseSave \/ TrimRead
  <2>1. UNCHANGED <<stackedEvents, published, rollkitHeight, xpc>> /\ fpc # "failed"
    BY <1>8 DEF SetFinal, ReleaseSave, TrimRead, FinalFails, disk, exec
  <2>2. \/ fpc' = "failed"
        \/ fpc = "idle" /\ fpc' = "idle"
        \/ fpc = "idle" /\ fpc' = "release" /\ pos' = 1
        \/ fpc \in {"release", "trimRead"} /\ UNCHANGED pos
           /\ fpc' \in {"releaseFire", "trimRead", "trim"}
    BY <1>8 DEF SetFinal, NothingReleased, ReleaseSave, TrimRead, FinalFails, final
  <2>3. fpc' # "failed" => Done' = Done
    BY <1>0, <2>2 DEF Done
  <2> QED
    BY <1>1, <2>1, <2>3 DEF InTransit
<1>9. CASE InitChain \/ ProcessProposal \/ FinalizeBlock \/ SaveState
           \/ SaveBlockID \/ FilterBlock \/ SaveBlockResponse \/ StackRead
           \/ ClearAndSave \/ Return
  <2>1. /\ UNCHANGED <<stackedEvents, published, fpc, pos>>
        /\ InTransit' => InTransit /\ UNCHANGED rollkitHeight
    BY <1>9 DEF InitChain, ProcessProposal, FinalizeBlock, SaveState,
       SaveBlockID, FilterBlock, SaveBlockResponse, StackRead, ClearAndSave,
       Return, At, ExecFails, disk, final, InTransit
  <2> QED
    BY <1>1, <2>1 DEF Done
<1>10. CASE StartNode \/ (\E h \in Heights : Confirm(h)) \/ UNCHANGED vars
  <2>1. /\ UNCHANGED <<stackedEvents, published, fpc, pos>>
        /\ InTransit' => InTransit /\ UNCHANGED rollkitHeight
    BY <1>10 DEF StartNode, Confirm, disk, exec, final, vars, InTransit
  <2> QED
    BY <1>1, <2>1 DEF Done
<1> QED
  BY <1>2, <1>3, <1>4, <1>5, <1>6, <1>7, <1>8, <1>9, <1>10
     DEF Next, ExecStep, FinalStep

-----------------------------------------------------------------------------
\* A step that changes nothing Publication sees.
LEMMA Stutters ==
    ASSUME UNCHANGED <<appHeight, Owed, Seen, Healthy>>
    PROVE  [Pub!Next]_(Pub!pubVars)
BY DEF Pub!pubVars

\* A failure or a stop ends the service.
LEMMA GivesUp ==
    ASSUME UNCHANGED <<appHeight, Seen>>, ~ Healthy', Owed' \subseteq Owed
    PROVE  Pub!Next
<1>1. Healthy' = FALSE
  BY DEF Healthy
<1> QED
  BY <1>1 DEF Pub!Next, Pub!GiveUp

\* What is owed depends on the queue, the block in transit and the
\* publications.
LEMMA SameOwed ==
    ASSUME UNCHANGED <<stackedEvents, published, rollkitHeight>>, InTransit' = InTransit
    PROVE  UNCHANGED <<Owed, Seen>>
BY DEF Owed, Seen, QueuedHeights, PublishedHeights, InTransit, blk

\* A failing execution ends the service.
LEMMA ExecFailsRefines == ASSUME ExecFails PROVE Pub!Next
<1>1. ~ Healthy' /\ UNCHANGED <<appHeight, stackedEvents, published, rollkitHeight>>
      /\ ~ InTransit'
  BY DEF ExecFails, Healthy, disk, InTransit
<1>2. Owed' \subseteq Owed /\ UNCHANGED Seen
  BY <1>1 DEF Owed, Seen, QueuedHeights, PublishedHeights
<1> QED
  BY <1>1, <1>2, GivesUp

\* A failing SetFinal ends the service.
LEMMA FinalFailsRefines == ASSUME FinalFails PROVE Pub!Next
<1>1. ~ Healthy' /\ UNCHANGED <<appHeight, stackedEvents, published, rollkitHeight>>
      /\ InTransit' = InTransit
  BY DEF FinalFails, Healthy, disk, exec, InTransit
<1> QED
  BY <1>1, SameOwed, GivesUp

\* Starting the node starts the service with nothing owed.
LEMMA StartNodeRefines == ASSUME IndInv, Exclusive, StartNode PROVE Pub!Next
<1>1. ~ up /\ up' = TRUE /\ xpc = "idle" /\ fpc = "idle" /\ fpc' = "idle"
      /\ xpc' \in {"idle", "initChain"}
      /\ UNCHANGED <<appHeight, stackedEvents, published, rollkitHeight>>
  BY DEF StartNode, IndInv, Progress, Exclusive, disk, final
<1>2. InTransit' = InTransit /\ Healthy' = TRUE
  BY <1>1 DEF InTransit, Healthy
<1> QED
  BY <1>1, <1>2, SameOwed DEF Pub!Next, Pub!Start

\* Stopping ends the service and drops what is owed.
LEMMA StopRefines == ASSUME Stop PROVE Pub!Next
<1>1. ~ Healthy' /\ UNCHANGED <<appHeight, published>> /\ ~ InTransit' /\ stackedEvents' = <<>>
  BY DEF Stop, Halt, Healthy, disk, InTransit
<1>2. Owed' \subseteq Owed /\ UNCHANGED Seen
  BY <1>1 DEF Owed, Seen, QueuedHeights
<1> QED
  BY <1>1, <1>2, GivesUp

\* A commit makes the block owed.
LEMMA CommitRefines == ASSUME IndInv, Commit PROVE Pub!Next
<1>1. CASE ExecFails
  BY <1>1, ExecFailsRefines
<1>2. CASE ~ ExecFails
  <2>1. /\ xpc = "commit" /\ appHeight' = blk /\ xpc' \in {"saveBlockID", "failed"} /\ up
        /\ UNCHANGED <<stackedEvents, published, rollkitHeight, up, fpc>>
    BY <1>2 DEF Commit, At, final
  <2>2. blk = appHeight + 1 /\ appHeight \in Nat /\ appHeight < MaxHeight
    BY <2>1, AdapterAssumption DEF IndInv, TypeOK, Progress, Working, Committed, blk
  <2>3. UNCHANGED <<QueuedHeights, PublishedHeights, Seen, blk>> /\ ~ InTransit
    BY <2>1 DEF QueuedHeights, PublishedHeights, Seen, blk, InTransit
  <2>4. blk \notin PublishedHeights
    BY <2>2 DEF IndInv, PublishedAfterSave, PublishedHeights
  <2>5. CASE xpc' = "saveBlockID"
    <3>1. Owed' = Owed \cup {appHeight + 1}
      BY <2>2, <2>3, <2>4, <2>5 DEF Owed, InTransit
    <3>2. Healthy' = Healthy
      BY <2>1, <2>5 DEF Healthy
    <3> QED
      BY <2>1, <2>2, <2>3, <3>1, <3>2 DEF Pub!Next, Pub!CommitBlock
  <2>6. CASE xpc' = "failed"
    <3>1. Owed' = Owed
      BY <2>3, <2>6 DEF Owed, InTransit
    <3>2. Healthy' = FALSE
      BY <2>6 DEF Healthy
    <3> QED
      BY <2>1, <2>2, <2>3, <3>1, <3>2 DEF Pub!Next, Pub!CommitBlock
  <2> QED
    BY <2>1, <2>5, <2>6
<1> QED
  BY <1>1, <1>2

\* ExecuteTxs fires the events of a block: it is the only one owed.
LEMMA FireEventsRefines ==
    ASSUME IndInv, Confirmation, Attested, Oldest, Filter = "always" => Unqueued, FireEvents
    PROVE  Pub!Next
<1>1. CASE ExecFails
  BY <1>1, ExecFailsRefines
<1>2. CASE ~ ExecFails
  <2>1. /\ xpc = "fire" /\ xpc' = "return"
        /\ published' = Append(published, Publication(blk))
        /\ UNCHANGED <<appHeight, rollkitHeight, stackedEvents, up, fpc>>
    BY <1>2 DEF FireEvents, At, disk, final
  <2>2. blk \in Heights /\ rollkitHeight \in Nat /\ blk = rollkitHeight + 1
    BY <2>1, BlkType DEF Working, Committed, IndInv, TypeOK, blk
  <2>3. PublishedHeights' = PublishedHeights \cup {blk} /\ Seen' = Append(Seen, blk)
    BY <2>1, <2>2, PublishesHeight
  <2>4. \A g \in PublishedHeights : g < blk
    <3>1. \A g \in PublishedHeights : g <= rollkitHeight
      BY <2>1 DEF Oldest, InTransit
    <3> QED
      BY <2>2, <3>1, PublishedHeightsType DEF Heights
  <2>5. stackedEvents = <<>>
    BY <2>1, FiresDirectly DEF Unqueued
  <2>6. Owed = {blk} /\ Owed' = {}
    <3>1. QueuedHeights = {} /\ QueuedHeights' = {}
      BY <2>1, <2>5 DEF QueuedHeights
    <3>2. InTransit /\ ~ InTransit' /\ blk \notin PublishedHeights
      BY <2>1, <2>2, <2>4 DEF InTransit, Heights
    <3> QED
      BY <3>1, <3>2 DEF Owed
  <2>7. \A i \in DOMAIN Seen : Seen[i] < blk
    BY <2>4 DEF Seen, PublishedHeights
  <2>8. Healthy' = Healthy
    BY <2>1 DEF Healthy
  <2>9. Pub!Publish(blk)
    BY <2>1, <2>2, <2>3, <2>6, <2>7, <2>8 DEF Pub!Publish, Heights
  <2> QED
    BY <2>6, <2>9 DEF Pub!Next
<1> QED
  BY <1>1, <1>2

\* StackWrite: the block moves from its way to the queue into the queue.
LEMMA StackWriteRefines ==
    ASSUME IndInv, Exclusive, StackWrite
    PROVE  [Pub!Next]_(Pub!pubVars)
<1>1. /\ xpc = "stackWrite" /\ xpc' = "clear" /\ stackedEvents' = Append(stackedEvents, blk)
      /\ UNCHANGED <<appHeight, rollkitHeight, published, up, fpc>>
  BY DEF StackWrite, At, Exclusive, disk, final
<1>2. stackedEvents \in Seq(Heights) /\ blk \in Heights
  BY <1>1, BlkType DEF Working, Committed, IndInv, TypeOK
<1>3. QueuedHeights' = QueuedHeights \cup {blk}
  <2>1. /\ Len(stackedEvents) \in Nat /\ DOMAIN stackedEvents = 1 .. Len(stackedEvents)
        /\ DOMAIN stackedEvents' = 1 .. Len(stackedEvents) + 1
        /\ stackedEvents'[Len(stackedEvents) + 1] = blk
        /\ \A i \in 1 .. Len(stackedEvents) : stackedEvents'[i] = stackedEvents[i]
    BY <1>1, <1>2
  <2> QED
    BY <2>1 DEF QueuedHeights
<1>4. UNCHANGED <<Seen, PublishedHeights, Healthy>> /\ InTransit /\ ~ InTransit'
  BY <1>1 DEF Seen, PublishedHeights, Healthy, InTransit
<1>5. UNCHANGED Owed
  BY <1>3, <1>4 DEF Owed
<1> QED
  BY <1>1, <1>4, <1>5, Stutters

\* ReleaseFire publishes the oldest block that is owed.
LEMMA ReleaseFireRefines ==
    ASSUME IndInv, Views, Oldest, ReleaseFire
    PROVE  Pub!Next
<1>1. CASE FinalFails
  BY <1>1, FinalFailsRefines
<1>2. CASE ~ FinalFails
  <2> DEFINE h == stackedEvents[pos]
  <2>1. /\ fpc = "releaseFire" /\ fpc' \in {"trimRead", "release"}
        /\ published' = Append(published, Publication(h))
        /\ UNCHANGED <<appHeight, rollkitHeight, stackedEvents, up, xpc>>
    BY <1>2 DEF ReleaseFire, disk, exec
  <2>2. h \in Heights /\ h <= rollkitHeight /\ rollkitHeight \in Nat /\ pos \in Nat
    BY <2>1, ReleasedStored DEF IndInv, TypeOK
  <2>3. PublishedHeights' = PublishedHeights \cup {h} /\ Seen' = Append(Seen, h)
    BY <2>1, <2>2, PublishesHeight
  <2>4. pos \in DOMAIN stackedEvents /\ stackedEvents \in Seq(Heights)
    BY <2>1 DEF IndInv, TypeOK, Release
  <2>5. Done = pos - 1 /\ ~ (pos <= pos - 1)
    BY <2>1, <2>2 DEF Done
  <2>6. \A g \in PublishedHeights : g < h
    BY <2>1, <2>4, <2>5 DEF Oldest
  <2>7. h \in Owed
    BY <2>2, <2>4, <2>6 DEF Owed, QueuedHeights, Heights
  <2>8. ASSUME NEW g \in Owed PROVE h <= g
    <3>1. CASE g = blk
      BY <2>2, <3>1 DEF blk, Heights
    <3>2. CASE g # blk
      <4>1. PICK j \in DOMAIN stackedEvents : g = stackedEvents[j]
        BY <3>2 DEF Owed, QueuedHeights
      <4>2. j \in Nat /\ g \in Nat
        BY <2>4, <4>1, SeqElement DEF Heights
      <4>3. ~ (j <= pos - 1)
        BY <2>1, <2>5, <4>1 DEF Oldest, Owed
      <4>4. j = pos \/ pos < j
        BY <2>2, <4>2, <4>3
      <4> QED
        BY <2>2, <2>4, <4>1, <4>2, <4>4 DEF Views, InOrder, Heights
    <3> QED
      BY <3>1, <3>2
  <2>9. Owed' = Owed \ {h}
    <3>1. UNCHANGED <<QueuedHeights, InTransit, blk>>
      BY <2>1 DEF QueuedHeights, InTransit, blk
    <3> QED
      BY <2>3, <3>1 DEF Owed
  <2>10. \A i \in DOMAIN Seen : Seen[i] < h
    BY <2>6 DEF Seen, PublishedHeights
  <2>11. Healthy' = Healthy
    BY <2>1 DEF Healthy
  <2>12. Pub!Publish(h)
    BY <2>1, <2>3, <2>7, <2>8, <2>9, <2>10, <2>11 DEF Pub!Publish
  <2> QED
    BY <2>7, <2>12 DEF Pub!Next
<1> QED
  BY <1>1, <1>2

\* TrimWrite drops what has been published and nothing else.
LEMMA TrimWriteRefines ==
    ASSUME IndInv, Exclusive, Oldest, TrimWrite
    PROVE  [Pub!Next]_(Pub!pubVars)
<1>1. /\ fpc = "trim" /\ fpc' = "idle" /\ stackedEvents' = kept
      /\ UNCHANGED <<appHeight, rollkitHeight, published, up, xpc>>
  BY DEF TrimWrite, exec
<1>2. /\ kept = SubSeq(stackedEvents, maxPosReleased + 1, Len(stackedEvents))
      /\ pos = maxPosReleased + 1 /\ maxPosReleased \in Nat
      /\ stackedEvents \in Seq(Heights) /\ maxPosReleased <= Len(stackedEvents)
  BY <1>1 DEF Exclusive, Trimmed, IndInv, TypeOK
<1>3. Done = maxPosReleased
  BY <1>1, <1>2 DEF Done
<1>4. /\ Len(stackedEvents) \in Nat /\ DOMAIN stackedEvents = 1 .. Len(stackedEvents)
      /\ DOMAIN kept = 1 .. Len(stackedEvents) - maxPosReleased
      /\ \A j \in 1 .. Len(stackedEvents) - maxPosReleased :
             kept[j] = stackedEvents[maxPosReleased + j]
  BY <1>2
<1>5. QueuedHeights' \subseteq QueuedHeights
  <2>1. ASSUME NEW j \in DOMAIN kept PROVE kept[j] \in QueuedHeights
    <3>1. maxPosReleased + j \in DOMAIN stackedEvents
      BY <1>2, <1>4
    <3> QED
      BY <1>4, <3>1 DEF QueuedHeights
  <2> QED
    BY <1>1, <2>1 DEF QueuedHeights
<1>6. QueuedHeights \subseteq QueuedHeights' \cup PublishedHeights
  <2>1. ASSUME NEW j \in DOMAIN stackedEvents
        PROVE  stackedEvents[j] \in QueuedHeights' \cup PublishedHeights
    <3>1. CASE j <= maxPosReleased
      BY <1>1, <1>3, <3>1 DEF Oldest
    <3>2. CASE ~ (j <= maxPosReleased)
      <4>1. j - maxPosReleased \in 1 .. Len(stackedEvents) - maxPosReleased
            /\ maxPosReleased + (j - maxPosReleased) = j
        BY <1>2, <1>4, <3>2
      <4>2. j - maxPosReleased \in DOMAIN kept /\ kept[j - maxPosReleased] = stackedEvents[j]
        BY <1>4, <4>1
      <4> QED
        BY <1>1, <4>2 DEF QueuedHeights
    <3> QED
      BY <3>1, <3>2
  <2> QED
    BY <2>1 DEF QueuedHeights
<1>7. UNCHANGED <<Seen, PublishedHeights, Healthy, InTransit, blk>>
  BY <1>1 DEF Seen, PublishedHeights, Healthy, InTransit, blk
<1>8. UNCHANGED Owed
  BY <1>5, <1>6, <1>7 DEF Owed
<1> QED
  BY <1>1, <1>7, <1>8, Stutters

\* The other steps of ExecuteTxs: stuttering, or a failure.
LEMMA ExecStepsRefine ==
    ASSUME InitChain \/ ProcessProposal \/ FinalizeBlock \/ SaveState \/ SaveBlockID
           \/ FilterBlock \/ SaveBlockResponse \/ StackRead \/ Return
    PROVE  [Pub!Next]_(Pub!pubVars)
<1>1. CASE ExecFails
  BY <1>1, ExecFailsRefines
<1>2. CASE ~ ExecFails
  <2>1. /\ UNCHANGED <<appHeight, stackedEvents, published, up, fpc>>
        /\ InTransit' = InTransit /\ xpc # "failed" /\ xpc' # "failed"
        /\ InTransit => UNCHANGED rollkitHeight
    BY <1>2 DEF InitChain, ProcessProposal, FinalizeBlock, SaveState, SaveBlockID,
       FilterBlock, SaveBlockResponse, StackRead, Return, At, InTransit, disk, final
  <2>2. UNCHANGED <<Owed, Seen>>
    BY <2>1 DEF Owed, Seen, QueuedHeights, PublishedHeights, blk
  <2>3. UNCHANGED Healthy
    BY <2>1 DEF Healthy
  <2> QED
    BY <2>1, <2>2, <2>3, Stutters
<1> QED
  BY <1>1, <1>2

\* Saving the response moves nothing that is owed or seen.
LEMMA ClearAndSaveRefines ==
    ASSUME ClearAndSave
    PROVE  [Pub!Next]_(Pub!pubVars)
<1>1. /\ UNCHANGED <<appHeight, stackedEvents, published, rollkitHeight, up, fpc>>
      /\ xpc = "clear" /\ xpc' \in {"return", "failed"}
  BY DEF ClearAndSave, At, final
<1>2. UNCHANGED <<Owed, Seen>>
  BY <1>1, SameOwed DEF InTransit
<1>3. CASE xpc' = "failed"
  <2>1. ~ Healthy'
    BY <1>3 DEF Healthy
  <2> QED
    BY <1>1, <1>2, <2>1, GivesUp
<1>4. CASE xpc' = "return"
  <2>1. Healthy' = Healthy
    BY <1>1, <1>4 DEF Healthy
  <2> QED
    BY <1>1, <1>2, <2>1, Stutters
<1> QED
  BY <1>1, <1>3, <1>4

\* The other steps of SetFinal, and those of the network module.
LEMMA FinalStepsRefine ==
    ASSUME SetFinal \/ ReleaseSave \/ TrimRead \/ (\E h \in Heights : Confirm(h))
           \/ UNCHANGED vars
    PROVE  [Pub!Next]_(Pub!pubVars)
<1>1. CASE FinalFails
  BY <1>1, FinalFailsRefines
<1>2. CASE ~ FinalFails
  <2>1. /\ UNCHANGED <<appHeight, stackedEvents, published, rollkitHeight, up, xpc>>
        /\ fpc' = "failed" <=> fpc = "failed"
    BY <1>2 DEF SetFinal, NothingReleased, ReleaseSave, TrimRead, Confirm, disk, exec,
       final, vars
  <2>2. UNCHANGED <<Owed, Seen>>
    BY <2>1, SameOwed DEF InTransit
  <2>3. UNCHANGED Healthy
    BY <2>1 DEF Healthy
  <2> QED
    BY <2>1, <2>2, <2>3, Stutters
<1> QED
  BY <1>1, <1>2

\* Every step is a step of Publication or changes nothing it sees.
LEMMA NextRefines ==
    ASSUME IndInv, Views, Confirmation, Exclusive, Attested, Oldest,
           Filter = "always" => Unqueued, [Next]_vars
    PROVE  [Pub!Next]_(Pub!pubVars)
BY StartNodeRefines, StopRefines, CommitRefines, FireEventsRefines, StackWriteRefines,
   ReleaseFireRefines, TrimWriteRefines, ExecStepsRefine, ClearAndSaveRefines,
   FinalStepsRefine DEF Next, ExecStep, FinalStep

\* Initially nothing is committed, owed or seen.
LEMMA InitRefines == Init => Pub!Init
<1> SUFFICES ASSUME Init PROVE Pub!Init
  OBVIOUS
<1>1. Owed = {} /\ appHeight = 0
  BY DEF Init, Owed, QueuedHeights, InTransit
<1>2. Seen = <<>>
  BY DEF Init, Seen
<1>3. Healthy = FALSE
  BY DEF Init, Healthy
<1> QED
  BY <1>1, <1>2, <1>3 DEF Pub!Init

\* As long as no SetFinal is cancelled, the two loops do not meet on the queue
\* and validators do not attest ahead of time, no failure or restart makes
\* the adapter lose a block's events while it serves, repeat or swap them.
THEOREM Refinement == Sequential => (Spec => ImplementsPublication)
<1> SUFFICES ASSUME Sequential PROVE Spec => ImplementsPublication
  OBVIOUS
<1> DEFINE Inv == /\ Views /\ Confirmation /\ Exclusive /\ Attested /\ Oldest
                  /\ Filter = "always" => Unqueued
<1>1. Init => Inv
  BY ViewsInit, UnqueuedInit DEF Init, Exclusive, Attested, Oldest, InTransit
<1>2. IndInv /\ Inv /\ [Next]_vars => Inv'
  BY ViewsNext, ConfirmationNext, ExclusiveNext, AttestedNext, OldestNext, UnqueuedNext
<1>3. IndInv /\ Inv /\ [Next]_vars => [Pub!Next]_(Pub!pubVars)
  BY NextRefines
<1> HIDE DEF Inv
<1> QED
  BY <1>1, <1>2, <1>3, InitRefines, Invariance, PTL
     DEF Spec, ImplementsPublication, Pub!Spec
=============================================================================
