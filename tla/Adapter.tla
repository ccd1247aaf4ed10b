------------------------------- MODULE Adapter -------------------------------
(***************************************************************************)
(* The ABCI execution adapter (pkg/adapter, pkg/store): it lets the        *)
(* rollkit block manager run blocks on an ABCI application.                *)
(*                                                                         *)
(* Two goroutines of the block manager call the adapter concurrently and   *)
(* without a lock of the adapter's own:                                    *)
(*                                                                         *)
(*   - the block loop calls ExecuteTxs(blk) for blk = rollkitHeight + 1    *)
(*     and stores the block once the call has returned (steps of xpc);     *)
(*   - the DA loop calls SetFinal(h), h = daHeight + 1, for every block    *)
(*     that has been stored and posted to the DA layer (steps of fpc).     *)
(*                                                                         *)
(* An error returned by either call makes the block manager stop the node. *)
(* A stop, like a crash, loses the adapter's memory (the queue of block    *)
(* events, the local state of a call) and keeps what is on disk.  On the   *)
(* next start InitChain is called if no block has been stored.             *)
(*                                                                         *)
(* ExecuteTxs is cut at every write that another goroutine or a restart    *)
(* can observe.  Between two cuts it only touches its own locals.          *)
(***************************************************************************)
EXTENDS Naturals, Sequences, FiniteSets

CONSTANTS MaxHeight,    \* bound on the heights executed
          Vals,         \* the validators
          Genesis,      \* the one validator of the genesis file
          ValUpdates,   \* ValUpdates[h]: what FinalizeBlock(h) of the
                        \* application adds to and removes from the set
          Filter,       \* the block filter: "always" or "network"
          Faults        \* which failures the environment may produce

AllFaults == {"crash", "reject", "storeError", "commitError", "busError",
              "cancel", "overlap", "earlyAttest"}

Heights == 1 .. MaxHeight

ASSUME AdapterAssumption ==
    /\ MaxHeight \in Nat \ {0}
    /\ Genesis \in Vals
    /\ ValUpdates \in [Heights -> [add : SUBSET Vals, remove : SUBSET Vals]]
    /\ Filter \in {"always", "network"}
    /\ Faults \subseteq AllFaults

VARIABLES
    \* on disk
    state,          \* the state record of the ABCI store
    blockIDs,       \* heights with a saved block id
    responses,      \* per height: the saved ResponseFinalizeBlock
    appHeight,      \* last height committed by the application
    rollkitHeight,  \* last height stored by the block manager
    daHeight,       \* last height for which SetFinal has returned
    confirmed,      \* heights the network module reports soft-confirmed
    \* in memory
    up,             \* the node is running
    xpc,            \* where ExecuteTxs is
    xs,             \* its local state record
    appended,       \* its view of the queue when it appends to it
    fbEvents,       \* the blocks whose response object in memory has events
    stackedEvents,  \* the queue of blocks whose events wait
    fpc,            \* where SetFinal is
    pos,            \* its loop variable i
    maxPosReleased, \* its last position to release
    kept,           \* its view of the queue when it trims it
    \* what the subscribers of the event bus have seen
    published

disk == <<state, blockIDs, responses, appHeight, rollkitHeight, daHeight,
          confirmed>>
exec == <<xpc, xs, appended, fbEvents>>
final == <<fpc, pos, maxPosReleased, kept>>
vars == <<state, blockIDs, responses, appHeight, rollkitHeight, daHeight,
          confirmed, up, xpc, xs, appended, fbEvents, stackedEvents, fpc, pos,
          maxPosReleased, kept, published>>

\* The block the block loop is working on.
blk == rollkitHeight + 1

\* cmtstate.State.  Validators and NextValidators always have the same
\* members (both are written from nValSet), so one field stands for both.
States == [saved : BOOLEAN, height : 0 .. MaxHeight,
           last : SUBSET Vals, vals : SUBSET Vals]

NoState == [saved |-> FALSE, height |-> 0, last |-> {}, vals |-> {}]

\* What InitChain saves: LastBlockHeight stays 0.
GenesisState == [saved |-> TRUE, height |-> 0,
                 last |-> {Genesis}, vals |-> {Genesis}]

\* The response object of block h, as it is in memory.
Response(h) == IF h \in fbEvents THEN "full" ELSE "cleared"

\* One entry of the event bus: NewBlock and the other events of a block,
\* made from the block's response.
Publication(h) == [height |-> h, response |-> Response(h)]

-----------------------------------------------------------------------------
Init == /\ state = NoState
        /\ blockIDs = {}
        /\ responses = [h \in Heights |-> "none"]
        /\ appHeight = 0
        /\ rollkitHeight = 0
        /\ daHeight = 0
        /\ confirmed = {}
        /\ up = FALSE
        /\ xpc = "idle"
        /\ xs = NoState
        /\ appended = <<>>
        /\ fbEvents = {}
        /\ stackedEvents = <<>>
        /\ fpc = "idle"
        /\ pos = 0
        /\ maxPosReleased = 0
        /\ kept = <<>>
        /\ published = <<>>

-----------------------------------------------------------------------------
(***************************************************************************)
(* The process.                                                            *)
(***************************************************************************)
\* NewABCIExecutor: an adapter with an empty queue; the block manager calls
\* InitChain first if it has no block.
StartNode ==
    /\ ~ up
    /\ up' = TRUE
    /\ xpc' = IF rollkitHeight = 0 THEN "initChain" ELSE "idle"
    /\ UNCHANGED <<disk, xs, appended, fbEvents, stackedEvents, final,
                   published>>

\* What a stop does: the memory is lost, the disk stays.
Halt ==
    /\ up' = FALSE
    /\ xpc' = "idle"
    /\ xs' = NoState
    /\ appended' = <<>>
    /\ fbEvents' = {}
    /\ stackedEvents' = <<>>
    /\ fpc' = "idle"
    /\ pos' = 0
    /\ maxPosReleased' = 0
    /\ kept' = <<>>
    /\ UNCHANGED <<disk, published>>

\* The node stops because a call has failed, or crashes at any point.
Stop ==
    /\ up
    /\ "crash" \in Faults \/ xpc = "failed" \/ fpc = "failed"
    /\ Halt

\* A call of the block loop returns an error.
ExecFails == /\ xpc' = "failed"
             /\ UNCHANGED <<disk, up, xs, appended, fbEvents, stackedEvents,
                            final, published>>

\* The block loop is at step s.
At(s) == up /\ xpc = s

\* InitChain: any earlier state is overwritten.  Its checks of the genesis
\* file (time, chain id, initial height, exactly one validator) compare two
\* configuration files, which the model takes to agree.
InitChain ==
    /\ At("initChain")
    /\ \/ /\ state' = GenesisState
          /\ xpc' = "idle"
          /\ UNCHANGED <<blockIDs, responses, appHeight, rollkitHeight,
                         daHeight, confirmed, up, xs, appended, fbEvents,
                         stackedEvents, final, published>>
       \/ "storeError" \in Faults /\ ExecFails

-----------------------------------------------------------------------------
(***************************************************************************)
(* ExecuteTxs.                                                             *)
(***************************************************************************)
\* GetLastCommit(h) finds the previous header and the previous block id.
HasLastCommit(h) == h > 1 => h - 1 <= rollkitHeight /\ h - 1 \in blockIDs

\* LoadState, GetLastCommit and ProcessProposal; nothing is written.
ProcessProposal ==
    /\ At("idle")
    /\ blk <= MaxHeight
    /\ \/ /\ state.saved
          /\ HasLastCommit(blk)
          /\ xpc' = "finalize"
          /\ xs' = state
          /\ UNCHANGED <<disk, up, appended, fbEvents, stackedEvents, final,
                         published>>
       \/ /\ \/ ~ state.saved
             \/ ~ HasLastCommit(blk)
             \/ "reject" \in Faults
          /\ ExecFails

\* The application only finalises the height after its last commit.
AppAccepts(h) == h = appHeight + 1

\* ValidatorSet.UpdateWithChangeSet: a removal of a validator that is not in
\* the set, or an update that leaves no validator, is an error.
ChangeSetApplies(vs, u) == u.remove \subseteq vs
                           /\ (vs \cup u.add) \ u.remove # {}

\* A slip: nValSet is the current set, the changes are not applied.
NextStateStale(s, h, u) ==
    [saved |-> TRUE, height |-> h, last |-> s.vals, vals |-> s.vals]

\* The state after block h: LastBlockHeight, and the validator sets shifted.
NextState(s, h, u) ==
    [saved |-> TRUE, height |-> h, last |-> s.vals,
     vals |-> (s.vals \cup u.add) \ u.remove]

\* FinalizeBlock and the computation of the next state, all in memory.
FinalizeBlock ==
    /\ At("finalize")
    /\ \/ /\ AppAccepts(blk)
          /\ ChangeSetApplies(xs.vals, ValUpdates[blk])
          /\ xs' = NextState(xs, blk, ValUpdates[blk])
          /\ fbEvents' = fbEvents \cup {blk}
          /\ xpc' = "saveState"
          /\ UNCHANGED <<disk, up, appended, stackedEvents, final, published>>
       \/ /\ ~ (AppAccepts(blk) /\ ChangeSetApplies(xs.vals, ValUpdates[blk]))
          /\ ExecFails

\* A slip: the state is not saved.
SaveStateSkipped ==
    /\ At("saveState")
    /\ xpc' = "commit"
    /\ UNCHANGED <<disk, up, xs, appended, fbEvents, stackedEvents, final,
                   published>>

\* A slip: the application commits before the state is saved.
SaveStateAfterCommit ==
    /\ At("saveState")
    /\ appHeight' = blk
    /\ state' = xs
    /\ xpc' = "saveBlockID"
    /\ UNCHANGED <<blockIDs, responses, rollkitHeight, daHeight, confirmed, up,
                   xs, appended, fbEvents, stackedEvents, final, published>>

\* Store.SaveState, before the application commits.
SaveState ==
    /\ At("saveState")
    /\ \/ /\ state' = xs
          /\ xpc' = "commit"
          /\ UNCHANGED <<blockIDs, responses, appHeight, rollkitHeight,
                         daHeight, confirmed, up, xs, appended, fbEvents,
                         stackedEvents, final, published>>
       \/ "storeError" \in Faults /\ ExecFails

\* FlushAppConn, Commit and Mempool.Update under the mempool's lock: the
\* first two can fail before the application has committed, the last one
\* after it.
Commit ==
    /\ At("commit")
    /\ \/ /\ appHeight' = blk
          /\ \/ xpc' = "saveBlockID"
             \/ "commitError" \in Faults /\ xpc' = "failed"
          /\ UNCHANGED <<state, blockIDs, responses, rollkitHeight, daHeight,
                         confirmed, up, xs, appended, fbEvents,
                         stackedEvents, final, published>>
       \/ "commitError" \in Faults /\ ExecFails

\* A slip: a failed save is only logged.
SaveBlockIDTolerant ==
    /\ At("saveBlockID")
    /\ blockIDs' \in {blockIDs, blockIDs \cup {blk}}
    /\ xpc' = "filter"
    /\ UNCHANGED <<state, responses, appHeight, rollkitHeight, daHeight,
                   confirmed, up, xs, appended, fbEvents, stackedEvents, final,
                   published>>

\* MakeBlock, MakePartSet, SaveBlockID.
SaveBlockID ==
    /\ At("saveBlockID")
    /\ \/ /\ blockIDs' = blockIDs \cup {blk}
          /\ xpc' = "filter"
          /\ UNCHANGED <<state, responses, appHeight, rollkitHeight, daHeight,
                         confirmed, up, xs, appended, fbEvents,
                         stackedEvents, final, published>>
       \/ "storeError" \in Faults /\ ExecFails

\* A slip: the first height is let through.
IsPublishableAnyHeight(h) == Filter = "always" \/ h \in confirmed \/ h = 1

\* The block filter.  The default one lets every block through; the other
\* asks the network module, and only for heights above 1.
IsPublishable(h) == \/ Filter = "always"
                    \/ h >= 2 /\ h \in confirmed

FilterBlock ==
    /\ At("filter")
    /\ xpc' = IF IsPublishable(blk) THEN "saveResponse" ELSE "stack"
    /\ UNCHANGED <<disk, up, xs, appended, fbEvents, stackedEvents, final,
                   published>>

\* A slip: the events are fired first and the response is saved later.
FireBeforeSave ==
    /\ At("saveResponse")
    /\ xpc' = "fire"
    /\ UNCHANGED <<disk, up, xs, appended, fbEvents, stackedEvents, final,
                   published>>

\* A publishable block: its response is saved with its events ...
SaveBlockResponse ==
    /\ At("saveResponse")
    /\ \/ /\ responses' = [responses EXCEPT ![blk] = "full"]
          /\ xpc' = "fire"
          /\ UNCHANGED <<state, blockIDs, appHeight, rollkitHeight, daHeight,
                         confirmed, up, xs, appended, fbEvents,
                         stackedEvents, final, published>>
       \/ "storeError" \in Faults /\ ExecFails

\* ... and then its events are fired.
FireEvents ==
    /\ At("fire")
    /\ \/ /\ published' = Append(published, Publication(blk))
          /\ xpc' = "return"
          /\ UNCHANGED <<disk, up, xs, appended, fbEvents, stackedEvents,
                         final>>
       \/ "busError" \in Faults /\ ExecFails

\* Unless the two loops may overlap on the queue, each one's access to it is
\* taken to be atomic.
QueueFreeForExec == "overlap" \in Faults \/ fpc # "trim"
QueueFreeForFinal == "overlap" \in Faults \/ xpc # "stackWrite"

\* stackBlockCommitEvents: append reads the slice header ...
StackRead ==
    /\ At("stack")
    /\ QueueFreeForExec
    /\ appended' = Append(stackedEvents, blk)
    /\ xpc' = "stackWrite"
    /\ UNCHANGED <<disk, up, xs, fbEvents, stackedEvents, final, published>>

\* ... and the assignment writes it back, without a lock.
StackWrite ==
    /\ At("stackWrite")
    /\ stackedEvents' = appended
    /\ xpc' = "clear"
    /\ UNCHANGED <<disk, up, xs, appended, fbEvents, final, published>>

\* fbResp.Events = nil: the response is the object the queue refers to, so
\* its events are gone there too.  Then the response is saved.
ClearAndSave ==
    /\ At("clear")
    /\ fbEvents' = fbEvents \ {blk}
    /\ \/ /\ responses' = [responses EXCEPT ![blk] = "cleared"]
          /\ xpc' = "return"
       \/ /\ "storeError" \in Faults
          /\ xpc' = "failed"
          /\ UNCHANGED responses
    /\ UNCHANGED <<state, blockIDs, appHeight, rollkitHeight, daHeight,
                   confirmed, up, xs, appended, stackedEvents, final,
                   published>>

\* ExecuteTxs has returned: the block manager stores block and height.
Return ==
    /\ At("return")
    /\ rollkitHeight' = blk
    /\ xpc' = "idle"
    /\ UNCHANGED <<state, blockIDs, responses, appHeight, daHeight, confirmed,
                   up, xs, appended, fbEvents, stackedEvents, final,
                   published>>

-----------------------------------------------------------------------------
(***************************************************************************)
(* SetFinal = publishQueuedBlockEvents.  Positions start at 1 here.        *)
(***************************************************************************)
\* Position i holds a block that is final and soft-confirmed.
Releasable(i) == /\ stackedEvents[i] <= daHeight + 1
                 /\ IsPublishable(stackedEvents[i])

\* A slip: the scan stops at the first match.
FirstReleasable(i) == /\ Releasable(i)
                      /\ \A j \in DOMAIN stackedEvents : j < i => ~ Releasable(j)

\* The position the scan leaves in maxPosReleased.
LastReleasable(i) == /\ Releasable(i)
                     /\ \A j \in DOMAIN stackedEvents : j > i => ~ Releasable(j)

\* maxPosReleased = -1: SetFinal returns and the height counts as included.
NothingReleased ==
    /\ daHeight' = daHeight + 1
    /\ UNCHANGED final

\* The scan: maxPosReleased is the last releasable position.  Heights only
\* become confirmed, so a scan in one step finds what a slower one finds.
SetFinal ==
    /\ up
    /\ fpc = "idle"
    /\ daHeight < rollkitHeight
    /\ \/ /\ ~ \E i \in DOMAIN stackedEvents : Releasable(i)
          /\ NothingReleased
       \/ /\ \E i \in DOMAIN stackedEvents :
                LastReleasable(i) /\ maxPosReleased' = i
          /\ pos' = 1
          /\ fpc' = "release"
          /\ UNCHANGED <<daHeight, kept>>
    /\ UNCHANGED <<state, blockIDs, responses, appHeight, rollkitHeight,
                   confirmed, up, exec, stackedEvents, published>>

\* SetFinal returns an error.
FinalFails == /\ fpc' = "failed"
              /\ UNCHANGED <<disk, up, exec, stackedEvents, pos,
                             maxPosReleased, kept, published>>

\* One round of the loop up to the save: the stored response gets the events
\* the queued object holds.  A cancelled context ends the loop early.
ReleaseSave ==
    /\ up
    /\ fpc = "release"
    /\ LET h == stackedEvents[pos] IN
       \/ /\ responses[h] # "none"
          /\ responses' = [responses EXCEPT ![h] = Response(h)]
          /\ fpc' = "releaseFire"
          /\ UNCHANGED <<state, blockIDs, appHeight, rollkitHeight, daHeight,
                         confirmed, up, exec, stackedEvents, pos,
                         maxPosReleased, kept, published>>
       \/ /\ responses[h] = "none" \/ "storeError" \in Faults
          /\ FinalFails
       \/ /\ "cancel" \in Faults
          /\ maxPosReleased' = pos
          /\ fpc' = "trimRead"
          /\ UNCHANGED <<disk, up, exec, stackedEvents, pos, kept, published>>

\* The rest of the round: fireEvents and the next i.
ReleaseFire ==
    /\ up
    /\ fpc = "releaseFire"
    /\ \/ /\ published' = Append(published, Publication(stackedEvents[pos]))
          /\ pos' = pos + 1
          /\ fpc' = IF pos = maxPosReleased THEN "trimRead" ELSE "release"
          /\ UNCHANGED <<disk, up, exec, stackedEvents, maxPosReleased, kept>>
       \/ "busError" \in Faults /\ FinalFails

\* A slip: one entry too many is cut off.
TrimmedTooFar == SubSeq(stackedEvents, maxPosReleased + 2, Len(stackedEvents))

\* a.stackedEvents[maxPosReleased+1:]
Trimmed == SubSeq(stackedEvents, maxPosReleased + 1, Len(stackedEvents))

\* The reslice reads the slice header ...
TrimRead ==
    /\ up
    /\ fpc = "trimRead"
    /\ QueueFreeForFinal
    /\ kept' = Trimmed
    /\ fpc' = "trim"
    /\ UNCHANGED <<disk, up, exec, stackedEvents, pos, maxPosReleased,
                   published>>

\* ... and writes it back; SetFinal returns and the block manager records
\* the height as included.
TrimWrite ==
    /\ up
    /\ fpc = "trim"
    /\ stackedEvents' = kept
    /\ fpc' = "idle"
    /\ daHeight' = daHeight + 1
    /\ UNCHANGED <<state, blockIDs, responses, appHeight, rollkitHeight,
                   confirmed, up, exec, pos, maxPosReleased, kept, published>>

-----------------------------------------------------------------------------
(***************************************************************************)
(* The network module: attestations for h arrive in blocks after h, or, if *)
(* a validator attests ahead of time, in any block.                        *)
(***************************************************************************)
Confirm(h) ==
    /\ Filter = "network"
    /\ h \notin confirmed
    /\ \/ h < appHeight
       \/ "earlyAttest" \in Faults /\ appHeight > 0
    /\ confirmed' = confirmed \cup {h}
    /\ UNCHANGED <<state, blockIDs, responses, appHeight, rollkitHeight,
                   daHeight, up, exec, stackedEvents, final, published>>

-----------------------------------------------------------------------------
ExecStep == \/ InitChain \/ ProcessProposal \/ FinalizeBlock \/ SaveState
            \/ Commit \/ SaveBlockID \/ FilterBlock \/ SaveBlockResponse
            \/ FireEvents \/ StackRead \/ StackWrite \/ ClearAndSave \/ Return

FinalStep == SetFinal \/ ReleaseSave \/ ReleaseFire \/ TrimRead \/ TrimWrite

Next == StartNode \/ Stop \/ ExecStep \/ FinalStep
        \/ \E h \in Heights : Confirm(h)

Spec == Init /\ [][Next]_vars

\* Both goroutines keep running, a failed call stops the node and a stopped
\* node is started again.
FairSpec == Spec /\ WF_vars(StartNode) /\ WF_vars(ExecStep)
                 /\ WF_vars(FinalStep)
                 /\ WF_vars(Stop /\ (xpc = "failed" \/ fpc = "failed"))

-----------------------------------------------------------------------------
\* The types of the adapter's variables.  In particular no append or reslice
\* leaves anything but heights in the queue, and no height passes the bound.
TypeOK ==
    /\ state \in States
    /\ blockIDs \subseteq Heights
    /\ responses \in [Heights -> {"none", "cleared", "full"}]
    /\ appHeight \in 0 .. MaxHeight
    /\ rollkitHeight \in 0 .. MaxHeight
    /\ daHeight \in 0 .. MaxHeight
    /\ confirmed \subseteq Heights
    /\ up \in BOOLEAN
    /\ xpc \in {"idle", "initChain", "finalize", "saveState", "commit",
                "saveBlockID", "filter", "saveResponse", "fire", "stack",
                "stackWrite", "clear", "return", "failed"}
    /\ xs \in States
    /\ appended \in Seq(Heights)
    /\ fbEvents \subseteq Heights
    /\ stackedEvents \in Seq(Heights)
    /\ fpc \in {"idle", "release", "releaseFire", "trimRead", "trim", "failed"}
    /\ pos \in Nat
    /\ maxPosReleased \in Nat
    /\ kept \in Seq(Heights)
    /\ published \in Seq([height : Heights, response : {"cleared", "full"}])

(***************************************************************************)
(* Every block the block manager has stored can be served and built upon:  *)
(* its block id (which GetLastCommit of the next block and the light       *)
(* client's signature payload need) and its response are on disk, whatever *)
(* crashed or failed on the way.                                           *)
(***************************************************************************)
StoredBlocksComplete ==
    \A h \in 1 .. rollkitHeight : h \in blockIDs /\ responses[h] # "none"

(***************************************************************************)
(* ExecuteTxs saves the state before the application commits: once a block *)
(* is stored, the saved state is at the application's height or one ahead, *)
(* never behind it, and the application is at most one block ahead of the  *)
(* block manager.                                                          *)
(***************************************************************************)
StateNeverBehindApp ==
    /\ rollkitHeight > 0 => state.height \in {appHeight, appHeight + 1}
    /\ appHeight \in {rollkitHeight, rollkitHeight + 1}

\* The validators after h blocks, if each block's changes apply once.
ValsAfter[h \in 0 .. MaxHeight] ==
    IF h = 0 THEN {Genesis}
    ELSE (ValsAfter[h - 1] \cup ValUpdates[h].add) \ ValUpdates[h].remove

(***************************************************************************)
(* A block whose execution is repeated after a crash applies its validator *)
(* changes to a set that may already have them.  The repetition never      *)
(* leaves a wrong set behind: the saved validators are those of the saved  *)
(* height.                                                                 *)
(***************************************************************************)
ValidatorsFollowApp == state.saved => state.vals = ValsAfter[state.height]

(***************************************************************************)
(* Events reach the subscribers only for blocks the application has        *)
(* committed and whose response is on disk ("save response before the      *)
(* events are fired"): a subscriber that asks for the block's results      *)
(* finds them.                                                             *)
(***************************************************************************)
PublishedAfterSave ==
    \A i \in DOMAIN published :
        LET h == published[i].height
        IN  h <= appHeight /\ h \in blockIDs /\ responses[h] # "none"

(***************************************************************************)
(* With the network filter, events of a block are only seen once that      *)
(* block or a later one is soft-confirmed.                                 *)
(***************************************************************************)
PublishedAfterConsensus ==
    Filter = "network" =>
        \A i \in DOMAIN published :
            \E h \in confirmed : h >= 2 /\ h >= published[i].height


PublishedHeights == {published[i].height : i \in DOMAIN published}
QueuedHeights == {stackedEvents[i] : i \in DOMAIN stackedEvents}

\* ExecuteTxs is between the application's commit and the queue.
InTransit == xpc \in {"saveBlockID", "filter", "saveResponse", "fire", "stack",
                      "stackWrite"}

\* What Publication sees of the adapter.
Owed == (QueuedHeights \cup (IF InTransit THEN {blk} ELSE {}))
            \ PublishedHeights
Seen == [i \in DOMAIN published |-> published[i].height]
Healthy == up /\ xpc # "failed" /\ fpc # "failed"

(***************************************************************************)
(* The adapter implements Publication.  A block is owed while it is in the *)
(* queue or between its commit and the queue: neither loop's trims,        *)
(* appends and early returns, nor a failure or a restart at any point, may *)
(* lose a block while the node serves, repeat one or swap two.             *)
(***************************************************************************)
Pub == INSTANCE Publication WITH
    committed <- appHeight, owed <- Owed, seen <- Seen, serving <- Healthy

ImplementsPublication == Pub!Spec

(***************************************************************************)
(* "store events with block response": a block is published with all its   *)
(* events, and from then on its stored response has them too.              *)
(***************************************************************************)
PublishedEventsStored ==
    \A i \in DOMAIN published : /\ published[i].response = "full"
                               /\ responses[published[i].height] = "full"

\* A restarted node would get its next block past every check of ExecuteTxs.
Recoverable ==
    blk <= MaxHeight =>
        /\ rollkitHeight > 0 => state.saved
        /\ HasLastCommit(blk)
        /\ AppAccepts(blk)
        /\ ChangeSetApplies(IF rollkitHeight = 0 THEN {Genesis} ELSE state.vals,
                            ValUpdates[blk])

(***************************************************************************)
(* The points where a crash costs the node: a node whose next block would  *)
(* execute after a restart stops being one only by committing the block in *)
(* the application (until the block manager stores it), or by saving a     *)
(* state whose validator removals cannot be applied again.                 *)
(***************************************************************************)
RecoverabilityLostOnlyByCommit ==
    [][Recoverable /\ ~ Recoverable' =>
          \/ xpc = "commit" /\ appHeight' = blk
          \/ xpc = "saveState" /\ ~ ChangeSetApplies(xs.vals, ValUpdates[blk])]_vars

(***************************************************************************)
(* Liveness: once a call of SetFinal for a height has begun and finds a    *)
(* block queued and confirmed, that block is published, even if the block  *)
(* loop keeps queueing new blocks, unless the node goes down.              *)
(***************************************************************************)
FinalConfirmedPublished ==
    \A h \in Heights :
        (up /\ fpc = "idle" /\ h \in QueuedHeights /\ h \in confirmed /\ h >= 2
            /\ daHeight + 1 >= h /\ daHeight < rollkitHeight)
        ~> (h \in PublishedHeights \/ ~ up)
=============================================================================
