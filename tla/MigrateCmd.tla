------------------------------ MODULE MigrateCmd ------------------------------
(***************************************************************************)
(* The rollkit-migrate command (server/migration_cmd.go), which turns the  *)
(* data of a stopped CometBFT node into that of a rollkit node, and what   *)
(* the node's start (server/start.go) and its first block                  *)
(* (pkg/adapter/adapter.go) find afterwards.                               *)
(*                                                                         *)
(* Each write to disk is a step, so that the command can die between any   *)
(* two of them and be run again.                                           *)
(*                                                                         *)
(* External parts: CometBFT's data, which is only read; the rollkit store, *)
(* whose SetHeight never goes back; and the sync stores, whose Init may    *)
(* refuse a store that has a head already.                                 *)
(***************************************************************************)
EXTENDS Naturals, FiniteSets, FiniteSetsExt

CONSTANTS MaxHeight,       \* bound on the height of the migrated chain
          maxMissedBlock,  \* 50 in the code
          Vals,            \* validators
          None,            \* no height, no validator, no file
          KeyChoices,      \* may the sequencer's key be a crypto.PubKey?
          Faults           \* subset of {"crash"}

ASSUME MigrateCmdAssumption ==
    /\ MaxHeight \in Nat \ {0} /\ maxMissedBlock \in Nat \ {0}
    /\ IsFiniteSet(Vals)
    /\ None \notin Vals \cup Nat \cup {"app", "migrated"}
    /\ KeyChoices \subseteq BOOLEAN
    /\ Faults \subseteq {"crash"}

VARIABLES comet,       \* CometBFT's state and block store, the application's
                       \* sequencer item
          execState,   \* ABCI store: height of the saved state
          blockIDs,    \* ABCI store: heights of the saved block ids
          rollkit,     \* rollkit store: height in its state, blocks, height
          sync,        \* heads of the header and the data sync store
          genesis,     \* sequencer named in rollkit_genesis.json
          cmd,         \* the command: pc, loop counter, missed blocks, flag
          node         \* the node, once started: the genesis it uses

vars == <<comet, execState, blockIDs, rollkit, sync, genesis, cmd, node>>

Heights == 1 .. MaxHeight

(***************************************************************************)
(* CometBFT's data.  The block store holds base..top.  Pruning and state   *)
(* sync raise base; when the application stops the chain, the block it     *)
(* refused (last + 1) is stored already.  Before the first block there are *)
(* no last validators.                                                     *)
(***************************************************************************)
Comets ==
    [last : 0 .. MaxHeight, base : 1 .. MaxHeight + 1, top : 0 .. MaxHeight + 1,
     vals : SUBSET Vals, mngr : Vals \cup {None}, key : KeyChoices,
     signed : BOOLEAN]  \* did the proposers sign their blocks' last commits?

CometOK(c) == /\ c.base <= c.last + 1
              /\ c.top \in {c.last, c.last + 1}
              /\ c.vals = {} <=> c.last = 0

LoadBlock(h) == h \in comet.base .. comet.top

Loop0 == [pc |-> "idle", height |-> 0, missed |-> 0, initSync |-> TRUE]

Init == /\ comet \in {c \in Comets : CometOK(c)}
        /\ execState = None
        /\ blockIDs = {}
        /\ rollkit = [state |-> None, blocks |-> {}, height |-> 0]
        /\ sync = [header |-> None, data |-> None]
        /\ genesis = None
        /\ cmd = Loop0
        /\ node = None

-----------------------------------------------------------------------------
\* The command.  Goto(l) is the step from one write to the next.

Goto(l) == cmd' = [cmd EXCEPT !.pc = l]

\* Opens the stores and loads CometBFT's state.
Run == /\ cmd.pc \in {"idle", "failed", "done"}
       /\ node = None
       /\ cmd' = [Loop0 EXCEPT !.pc = "saveState"]
       /\ UNCHANGED <<comet, execState, blockIDs, rollkit, sync, genesis, node>>

\* A slip: the rollkit state is forgotten.
SaveStateOnly == /\ cmd.pc = "saveState"
                 /\ execState' = comet.last
                 /\ Goto("genesis")
                 /\ UNCHANGED <<comet, blockIDs, rollkit, sync, genesis, node>>

\* CometBFT's state becomes the ABCI store's; no block id is saved with it.
SaveState == /\ cmd.pc = "saveState"
             /\ execState' = comet.last
             /\ Goto("updateState")
             /\ UNCHANGED <<comet, blockIDs, rollkit, sync, genesis, node>>

\* cometbftStateToRollkitState: the migration height is both the initial and
\* the last height of the rollkit state.
UpdateState == /\ cmd.pc = "updateState"
               /\ rollkit' = [rollkit EXCEPT !.state = comet.last]
               /\ Goto("genesis")
               /\ UNCHANGED <<comet, execState, blockIDs, sync, genesis, node>>

\* The sequencer of the application's rollkitmngr module, if it has one, if
\* the cached key has the asserted type and if it is one of the validators.
getSequencerFromRollkitMngrState ==
    IF comet.key /\ comet.mngr \in comet.vals THEN comet.mngr ELSE None

\* None stands for an error.
SequencerOfState ==
    CASE Cardinality(comet.vals) = 1 -> CHOOSE v \in comet.vals : TRUE
      [] Cardinality(comet.vals) > 1 -> getSequencerFromRollkitMngrState
      [] OTHER -> None

createRollkitMigrationGenesis ==
    /\ cmd.pc = "genesis"
    /\ IF SequencerOfState = None
         THEN Goto("failed") /\ UNCHANGED genesis
         ELSE /\ genesis' = SequencerOfState
              /\ cmd' = [cmd EXCEPT !.pc = "loop", !.height = comet.last]
    /\ UNCHANGED <<comet, execState, blockIDs, rollkit, sync, node>>

InLoop == cmd.pc = "loop" /\ cmd.height > 0 /\ cmd.missed < maxMissedBlock

SkipBlock == /\ InLoop
             /\ ~LoadBlock(cmd.height)
             /\ cmd' = [cmd EXCEPT !.missed = @ + 1, !.height = @ - 1]
             /\ UNCHANGED <<comet, execState, blockIDs, rollkit, sync, genesis, node>>

\* The header of block h.  Its signature is looked up in the block's last
\* commit, so it is the proposer's vote for the block before.
cometBlockToRollkit(h) ==
    [height |-> h, signs |-> IF comet.signed /\ h > 1 THEN h - 1 ELSE None]

\* The first block saved also goes to the sync stores.
SaveBlockData ==
    /\ InLoop
    /\ LoadBlock(cmd.height)
    /\ rollkit' = [rollkit EXCEPT !.blocks = @ \cup {cometBlockToRollkit(cmd.height)}]
    /\ cmd' = IF cmd.initSync THEN [cmd EXCEPT !.pc = "initHeader"]
                              ELSE [cmd EXCEPT !.height = @ - 1]
    /\ UNCHANGED <<comet, execState, blockIDs, sync, genesis, node>>

InitHeaderSync ==
    /\ cmd.pc = "initHeader"
    /\ \/ sync' = [sync EXCEPT !.header = cmd.height] /\ Goto("initData")
       \/ sync.header # None /\ Goto("failed") /\ UNCHANGED sync
    /\ UNCHANGED <<comet, execState, blockIDs, rollkit, genesis, node>>

\* A slip: initSyncStores is never cleared.
InitDataSyncAgain ==
    /\ cmd.pc = "initData"
    /\ sync' = [sync EXCEPT !.data = cmd.height]
    /\ cmd' = [cmd EXCEPT !.pc = "loop", !.height = @ - 1]
    /\ UNCHANGED <<comet, execState, blockIDs, rollkit, genesis, node>>

InitDataSync ==
    /\ cmd.pc = "initData"
    /\ \/ /\ sync' = [sync EXCEPT !.data = cmd.height]
          /\ cmd' = [cmd EXCEPT !.pc = "loop", !.initSync = FALSE, !.height = @ - 1]
       \/ sync.data # None /\ Goto("failed") /\ UNCHANGED sync
    /\ UNCHANGED <<comet, execState, blockIDs, rollkit, genesis, node>>

\* A slip: the loop stops before block 1.
LoopDoneEarly == cmd.pc = "loop" /\ (cmd.height <= 1 \/ cmd.missed >= maxMissedBlock)

LoopDone == cmd.pc = "loop" /\ (cmd.height = 0 \/ cmd.missed >= maxMissedBlock)

EndLoop == /\ LoopDone
           /\ Goto("setHeight")
           /\ UNCHANGED <<comet, execState, blockIDs, rollkit, sync, genesis, node>>

SetHeight == /\ cmd.pc = "setHeight"
             /\ rollkit' = [rollkit EXCEPT !.height = Max({@, comet.last})]
             /\ Goto("done")
             /\ UNCHANGED <<comet, execState, blockIDs, sync, genesis, node>>

Command == \/ SaveState \/ UpdateState \/ createRollkitMigrationGenesis
           \/ SkipBlock \/ SaveBlockData \/ InitHeaderSync \/ InitDataSync
           \/ EndLoop \/ SetHeight

Running == cmd.pc \notin {"idle", "failed", "done"}

Crash == /\ "crash" \in Faults
         /\ Running
         /\ Goto("idle")
         /\ UNCHANGED <<comet, execState, blockIDs, rollkit, sync, genesis, node>>

\* The node is started; it looks for rollkit_genesis.json.
loadRollkitMigrationGenesis ==
    /\ ~Running
    /\ node = None
    /\ node' = IF genesis = None THEN "app" ELSE "migrated"
    /\ UNCHANGED <<comet, execState, blockIDs, rollkit, sync, genesis, cmd>>

Next == Run \/ Command \/ Crash \/ loadRollkitMigrationGenesis

Spec == Init /\ [][Next]_vars

-----------------------------------------------------------------------------
\* What the first rollkit block asks for: the commit of the block before it,
\* made of the stored header and the stored block id; None is an error.
GetLastCommit(h) ==
    IF h - 1 \in blockIDs /\ \E b \in rollkit.blocks : b.height = h - 1
      THEN CHOOSE b \in rollkit.blocks : b.height = h - 1
      ELSE None

Migrated == {b.height : b \in rollkit.blocks}

\* Types of the stores, of the file and of the command's own variables.
TypeOK ==
    /\ comet \in Comets /\ CometOK(comet)
    /\ execState \in 0 .. MaxHeight \cup {None}
    /\ blockIDs \subseteq Heights
    /\ rollkit \in [state : 0 .. MaxHeight \cup {None},
                   blocks : SUBSET [height : Heights, signs : Heights \cup {None}],
                   height : 0 .. MaxHeight]
    /\ sync \in [header : Heights \cup {None}, data : Heights \cup {None}]
    /\ genesis \in Vals \cup {None}
    /\ cmd \in [pc : {"idle", "saveState", "updateState", "genesis", "loop",
                      "initHeader", "initData", "setHeight", "failed", "done"},
                height : 0 .. MaxHeight, missed : 0 .. maxMissedBlock,
                initSync : BOOLEAN]
    /\ node \in {None, "app", "migrated"}

\* A node that starts with the migration genesis never runs InitChain, so it
\* needs both saved states.  Whatever interrupted the command, and however
\* often it was run, the file is only there once both are
\* (migration_cmd.go:113-134, start.go:351).
MigratedNodeHasState ==
    node = "migrated" => execState = comet.last /\ rollkit.state = comet.last

\* The rollkit store has a height only when every block of the CometBFT store
\* up to the last height is in it: neither a crash nor the limit on missed
\* blocks hides one (migration_cmd.go:143-190).
HeightOnlyWhenComplete ==
    rollkit.height > 0 => Migrated = comet.base .. comet.last

\* Once the data sync store has a head, both sync stores have the highest
\* migrated block, also after a run that died between the two Init calls and
\* was repeated (migration_cmd.go:165-175).
SyncStoresAtTip ==
    sync.data # None => sync.data = sync.header /\ sync.data = Max(Migrated)

\* After a complete migration the node can be started and execute its first
\* block: the commit of the last CometBFT block is there and carries a
\* signature of that block (migration_cmd.go:84, adapter.go:559-585).
MigratedTipHasCommit ==
    node = "migrated" /\ cmd.pc = "done" /\ comet.last \in Migrated =>
        /\ GetLastCommit(comet.last + 1) # None
        /\ GetLastCommit(comet.last + 1).signs = comet.last
=============================================================================
