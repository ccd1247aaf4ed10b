--------------------------- MODULE MigrateCmdProofs ---------------------------
(***************************************************************************)
(* Proofs about MigrateCmd, for a chain of any height, any pruning of the  *)
(* block store and any number of crashes and repetitions of the command.   *)
(*                                                                         *)
(* None of the three properties is inductive: each speaks of the end of    *)
(* the command, and what it says is built up by the steps before.  The     *)
(* inductive invariant records what the disk holds at each step of a run   *)
(* (Saved, Copied, Heads); it does not mention the run before, because a   *)
(* repetition writes the same values again.                                *)
(***************************************************************************)
EXTENDS MigrateCmd, FiniteSetTheorems, TLAPS

\* The steps of the command that come after both states have been saved.
AfterStates == {"genesis", "loop", "initHeader", "initData", "setHeight"}

\* The saved states.
Saved ==
    /\ cmd.pc \in AfterStates \cup {"updateState"} => execState = comet.last
    /\ cmd.pc \in AfterStates => rollkit.state = comet.last
    /\ genesis # None => execState = comet.last /\ rollkit.state = comet.last
    /\ node = "migrated" => genesis # None

\* The copied blocks: in the loop, all those above its counter.  A block is
\* missing only below the store's base, so once one is missed the copy is
\* complete.
Copied ==
    /\ Migrated \subseteq comet.base .. comet.last
    /\ cmd.pc \in {"loop", "initHeader", "initData"} =>
          /\ cmd.height <= comet.last
          /\ \A h \in comet.base .. comet.last : h > cmd.height => h \in Migrated
          /\ cmd.missed > 0 => cmd.height < comet.base
    /\ cmd.pc \in {"saveState", "updateState", "genesis"} => cmd.missed = 0
    /\ cmd.pc = "setHeight" \/ rollkit.height > 0 =>
          comet.base .. comet.last \subseteq Migrated

\* The heads of the sync stores: the first block a run copies is the last
\* one of the chain.
Heads ==
    /\ cmd.pc = "loop" /\ cmd.initSync =>
          cmd.height = comet.last \/ cmd.height < comet.base
    /\ cmd.pc \in {"initHeader", "initData"} =>
          cmd.height = comet.last /\ comet.last \in Migrated
    /\ cmd.pc = "initData" => sync.header = comet.last
    /\ sync.header # None => sync.header = comet.last /\ comet.last \in Migrated
    /\ sync.data # None => sync.data = comet.last /\ sync.header = comet.last

IndInv == TypeOK /\ Saved /\ Copied /\ Heads

-----------------------------------------------------------------------------
\* Max of a set with a greatest element.
LEMMA MaxIsGreatest ==
    ASSUME NEW S \in SUBSET Int, NEW m \in S, \A x \in S : x <= m
    PROVE  Max(S) = m
<1>1. m \in S /\ \A y \in S : m >= y
  OBVIOUS
<1>2. ASSUME NEW x \in S, \A y \in S : x >= y PROVE x = m
  BY <1>1, <1>2
<1> QED
  BY <1>1, <1>2 DEF Max

\* The bounds of CometBFT's heights.
LEMMA CometTypes ==
    ASSUME TypeOK
    PROVE  /\ comet.last \in 0 .. MaxHeight
           /\ comet.base \in 1 .. MaxHeight + 1
           /\ comet.top \in 0 .. MaxHeight + 1
           /\ comet.last <= comet.top
           /\ comet.vals \subseteq Vals
<1>1. /\ comet.last \in 0 .. MaxHeight
      /\ comet.base \in 1 .. MaxHeight + 1
      /\ comet.top \in 0 .. MaxHeight + 1
      /\ comet.vals \subseteq Vals
  BY DEF TypeOK, Comets
<1>2. comet.top \in {comet.last, comet.last + 1}
  BY DEF TypeOK, CometOK
<1> QED
  BY <1>1, <1>2, MigrateCmdAssumption

\* The types of the command's counters.
LEMMA CmdTypes ==
    ASSUME TypeOK
    PROVE  cmd.height \in 0 .. MaxHeight /\ cmd.missed \in 0 .. maxMissedBlock
BY DEF TypeOK

\* A height and the one before it.
LEMMA HeightBefore ==
    ASSUME NEW h \in Heights
    PROVE  /\ h \in 0 .. MaxHeight /\ h - 1 \in 0 .. MaxHeight
           /\ h > 1 => h - 1 \in Heights
BY MigrateCmdAssumption DEF Heights

\* The sequencer is a validator or none.
LEMMA SequencerType == ASSUME TypeOK PROVE SequencerOfState \in Vals \cup {None}
<1>1. comet.vals \subseteq Vals
  BY CometTypes
<1>2. ASSUME Cardinality(comet.vals) = 1
      PROVE  (CHOOSE v \in comet.vals : TRUE) \in Vals
  <2>1. comet.vals # {}
    BY <1>2, FS_EmptySet
  <2> QED
    BY <1>1, <2>1
<1>3. getSequencerFromRollkitMngrState \in Vals \cup {None}
  BY <1>1 DEF getSequencerFromRollkitMngrState
<1>4. CASE Cardinality(comet.vals) = 1
  BY <1>2, <1>4 DEF SequencerOfState
<1>5. CASE Cardinality(comet.vals) # 1
  BY <1>3, <1>5 DEF SequencerOfState
<1> QED
  BY <1>4, <1>5

\* The start state satisfies the invariant.
LEMMA InitInv == Init => IndInv
<1> SUFFICES ASSUME Init PROVE IndInv
  OBVIOUS
<1>1. TypeOK
  BY MigrateCmdAssumption DEF Init, TypeOK, Loop0, Heights
<1>2. Saved
  BY MigrateCmdAssumption DEF Init, Saved, AfterStates, Loop0
<1>3. Copied
  BY DEF Init, Copied, Migrated, Loop0
<1>4. Heads
  BY DEF Init, Heads, Loop0
<1> QED
  BY <1>1, <1>2, <1>3, <1>4 DEF IndInv

\* A step that only moves the command on, or stops it.
LEMMA GotoInv ==
    ASSUME IndInv, NEW l \in {"failed", "idle"}, Goto(l),
           UNCHANGED <<comet, execState, blockIDs, rollkit, sync, genesis, node>>
    PROVE  IndInv'
<1>1. /\ cmd' \in [pc : {"idle", "failed"}, height : 0 .. MaxHeight,
                   missed : 0 .. maxMissedBlock, initSync : BOOLEAN]
      /\ cmd'.pc = l
  BY DEF IndInv, TypeOK, Goto
<1>2. TypeOK'
  BY <1>1 DEF IndInv, TypeOK, CometOK
<1> QED
  BY <1>1, <1>2 DEF IndInv, Saved, AfterStates, Copied, Heads, Migrated

\* Run: the command begins from the start, whatever a run before has left.
LEMMA RunInv == ASSUME IndInv, Run PROVE IndInv'
<1>1. cmd' = [pc |-> "saveState", height |-> 0, missed |-> 0, initSync |-> TRUE]
  BY DEF Run, Loop0
<1>a. cmd' \in [pc : {"saveState"}, height : 0 .. MaxHeight,
                missed : 0 .. maxMissedBlock, initSync : BOOLEAN]
  BY <1>1, MigrateCmdAssumption
<1>2. TypeOK'
  BY <1>a DEF IndInv, Run, TypeOK, CometOK
<1> QED
  BY <1>1, <1>2 DEF IndInv, Run, Saved, AfterStates, Copied, Heads, Migrated

\* SaveState and UpdateState write the migration height.
LEMMA SaveStateInv == ASSUME IndInv, SaveState PROVE IndInv'
<1>1. cmd'.pc = "updateState"
  BY DEF IndInv, TypeOK, SaveState, Goto
<1>2. TypeOK'
  BY CometTypes DEF IndInv, SaveState, Goto, TypeOK, CometOK
<1>3. Saved'
  BY <1>1 DEF IndInv, SaveState, Saved, AfterStates
<1> QED
  BY <1>1, <1>2, <1>3 DEF IndInv, TypeOK, SaveState, Goto, Copied, Heads, Migrated

\* The state is saved after the blocks.
LEMMA UpdateStateInv == ASSUME IndInv, UpdateState PROVE IndInv'
<1>1. /\ cmd'.pc = "genesis"
      /\ rollkit'.state = comet.last
      /\ rollkit'.blocks = rollkit.blocks /\ rollkit'.height = rollkit.height
  BY DEF IndInv, TypeOK, UpdateState, Goto
<1>2. TypeOK'
  BY CometTypes DEF IndInv, UpdateState, Goto, TypeOK, CometOK
<1>3. Saved'
  BY <1>1 DEF IndInv, UpdateState, Saved, AfterStates
<1> QED
  BY <1>1, <1>2, <1>3 DEF IndInv, TypeOK, UpdateState, Goto, Copied, Heads, Migrated

\* createRollkitMigrationGenesis: both states are saved by then.
LEMMA GenesisInv == ASSUME IndInv, createRollkitMigrationGenesis PROVE IndInv'
<1>1. CASE SequencerOfState = None
  BY <1>1, GotoInv DEF createRollkitMigrationGenesis
<1>2. CASE SequencerOfState # None
  <2> USE <1>2 DEF createRollkitMigrationGenesis, IndInv
  <2>1. /\ cmd'.pc = "loop" /\ cmd'.height = comet.last
        /\ cmd'.missed = cmd.missed /\ cmd'.initSync = cmd.initSync
        /\ genesis' = SequencerOfState
    BY DEF TypeOK
  <2>2. TypeOK'
    BY CometTypes, SequencerType DEF TypeOK, CometOK
  <2>3. Saved'
    BY <2>1 DEF Saved, AfterStates
  <2>4. Copied'
    BY <2>1, CometTypes DEF Copied, Migrated
  <2>5. Heads'
    BY <2>1 DEF Heads, Migrated
  <2> QED
    BY <2>2, <2>3, <2>4, <2>5
<1> QED
  BY <1>1, <1>2

\* SkipBlock: the block store has no gap above its base.
LEMMA SkipBlockInv == ASSUME IndInv, SkipBlock PROVE IndInv'
<1> USE DEF SkipBlock, IndInv
<1>1. /\ cmd.pc = "loop" /\ cmd.height > 0 /\ cmd.missed < maxMissedBlock
      /\ cmd'.pc = "loop" /\ cmd'.height = cmd.height - 1
      /\ cmd'.missed = cmd.missed + 1 /\ cmd'.initSync = cmd.initSync
  BY DEF TypeOK, InLoop
<1>2. cmd.height < comet.base
  BY <1>1, CometTypes, CmdTypes DEF LoadBlock, Copied
<1>3. TypeOK'
  <2>1. cmd'.height \in 0 .. MaxHeight /\ cmd'.missed \in 0 .. maxMissedBlock
    BY <1>1, CmdTypes, MigrateCmdAssumption
  <2>2. cmd' \in [pc : {"loop"}, height : 0 .. MaxHeight,
                  missed : 0 .. maxMissedBlock, initSync : BOOLEAN]
    BY <1>1, <2>1 DEF TypeOK
  <2> QED
    BY <2>2 DEF TypeOK, CometOK
<1>4. Saved'
  BY <1>1 DEF Saved, AfterStates
<1>5. Copied'
  BY <1>1, <1>2, CometTypes, CmdTypes DEF Copied, Migrated
<1>6. Heads'
  BY <1>1, <1>2, CometTypes, CmdTypes DEF Heads, Migrated
<1> QED
  BY <1>3, <1>4, <1>5, <1>6

\* SaveBlockData: the block is within the chain, and the first one of a run
\* is the chain's last.
LEMMA SaveBlockDataInv == ASSUME IndInv, SaveBlockData PROVE IndInv'
<1> USE DEF SaveBlockData, IndInv
<1> DEFINE h == cmd.height
<1>1. /\ cmd.pc = "loop" /\ h > 0 /\ h \in comet.base .. comet.last
      /\ h \in Heights
  BY CometTypes, CmdTypes DEF InLoop, LoadBlock, Copied, Heights
<1>2. /\ rollkit'.state = rollkit.state /\ rollkit'.height = rollkit.height
      /\ rollkit'.blocks = rollkit.blocks \cup {cometBlockToRollkit(h)}
  BY DEF TypeOK
<1>3. /\ cometBlockToRollkit(h).height = h
      /\ cometBlockToRollkit(h) \in [height : Heights, signs : Heights \cup {None}]
  <2>1. h > 1 => h - 1 \in Heights
    BY <1>1, HeightBefore
  <2> HIDE DEF h
  <2> QED
    BY <1>1, <2>1 DEF cometBlockToRollkit
<1>4. Migrated' = Migrated \cup {h}
  BY <1>2, <1>3 DEF Migrated
<1>5. /\ cmd'.missed = cmd.missed /\ cmd'.initSync = cmd.initSync
      /\ \/ cmd'.pc = "initHeader" /\ cmd'.height = h /\ cmd.initSync
         \/ cmd'.pc = "loop" /\ cmd'.height = h - 1 /\ ~ cmd.initSync
  BY <1>1 DEF TypeOK
<1>6. TypeOK'
  <2>1. rollkit' \in [state : 0 .. MaxHeight \cup {None},
                      blocks : SUBSET [height : Heights, signs : Heights \cup {None}],
                      height : 0 .. MaxHeight]
    BY <1>3 DEF TypeOK
  <2>a. h \in 0 .. MaxHeight /\ h - 1 \in 0 .. MaxHeight
    BY <1>1, HeightBefore
  <2>2. cmd' \in [pc : {"loop", "initHeader"}, height : 0 .. MaxHeight,
                  missed : 0 .. maxMissedBlock, initSync : BOOLEAN]
    <3>1. CASE cmd.initSync
      BY <3>1 DEF TypeOK
    <3>2. CASE ~ cmd.initSync
      <4>1. cmd' = [cmd EXCEPT !.height = cmd.height - 1]
        BY <3>2
      <4> HIDE DEF SaveBlockData
      <4> QED
        BY <2>a, <4>1, <1>1 DEF TypeOK
    <3> QED
      BY <3>1, <3>2
  <2> QED
    BY <2>1, <2>2 DEF TypeOK, CometOK
<1>7. Saved'
  BY <1>1, <1>2, <1>5 DEF Saved, AfterStates
<1>8. Copied'
  <2>1. Migrated' \subseteq comet'.base .. comet'.last
    BY <1>1, <1>4 DEF Copied
  <2>2. \A g \in comet'.base .. comet'.last : g > cmd'.height => g \in Migrated'
    BY <1>1, <1>4, <1>5, CometTypes, CmdTypes DEF Copied
  <2>3. cmd'.height <= comet'.last /\ (cmd'.missed > 0 => cmd'.height < comet'.base)
    BY <1>1, <1>5, CometTypes, CmdTypes DEF Copied
  <2>4. rollkit'.height > 0 => comet'.base .. comet'.last \subseteq Migrated'
    BY <1>2, <1>4 DEF Copied
  <2> QED
    BY <1>5, <2>1, <2>2, <2>3, <2>4 DEF Copied
<1>9. Heads'
  <2>1. cmd'.pc = "initHeader" => h = comet.last
    BY <1>1, <1>5, CometTypes, CmdTypes DEF Heads
  <2> QED
    BY <1>4, <1>5, <2>1 DEF Heads
<1> QED
  BY <1>6, <1>7, <1>8, <1>9

\* The sync stores are initialised with the last block, or refuse.
LEMMA InitHeaderSyncInv == ASSUME IndInv, InitHeaderSync PROVE IndInv'
<1>1. CASE Goto("failed") /\ UNCHANGED sync
  BY <1>1, GotoInv DEF InitHeaderSync
<1>2. CASE sync' = [sync EXCEPT !.header = cmd.height] /\ Goto("initData")
  <2> USE <1>2 DEF InitHeaderSync, IndInv
  <2>1. /\ cmd'.pc = "initData" /\ cmd'.height = cmd.height
        /\ cmd'.missed = cmd.missed /\ cmd'.initSync = cmd.initSync
        /\ sync'.header = cmd.height /\ sync'.data = sync.data
    BY DEF TypeOK, Goto
  <2>2. cmd.height \in Heights
    BY CometTypes DEF TypeOK, Heads, Copied, Migrated
  <2>3. TypeOK'
    BY <2>2 DEF TypeOK, Goto, CometOK
  <2>4. Saved'
    BY <2>1 DEF Saved, AfterStates
  <2>5. Copied'
    BY <2>1 DEF Copied, Migrated
  <2>6. Heads'
    BY <2>1 DEF Heads, Migrated
  <2> QED
    BY <2>3, <2>4, <2>5, <2>6
<1> QED
  BY <1>1, <1>2 DEF InitHeaderSync

\* The data store starts at the last block, or the command fails.
LEMMA InitDataSyncInv == ASSUME IndInv, InitDataSync PROVE IndInv'
<1>1. CASE Goto("failed") /\ UNCHANGED sync
  BY <1>1, GotoInv DEF InitDataSync
<1>2. CASE /\ sync' = [sync EXCEPT !.data = cmd.height]
           /\ cmd' = [cmd EXCEPT !.pc = "loop", !.initSync = FALSE, !.height = @ - 1]
  <2> USE <1>2 DEF InitDataSync, IndInv
  <2>1. /\ cmd'.pc = "loop" /\ cmd'.height = cmd.height - 1
        /\ cmd'.missed = cmd.missed /\ ~ cmd'.initSync
        /\ sync'.data = cmd.height /\ sync'.header = sync.header
    BY DEF TypeOK
  <2>2. cmd.height \in Heights
    BY CometTypes DEF TypeOK, Heads, Copied, Migrated
  <2>3. TypeOK'
    <3>1. cmd' \in [pc : {"loop"}, height : 0 .. MaxHeight,
                    missed : 0 .. maxMissedBlock, initSync : BOOLEAN]
      <4>1. cmd.height - 1 \in 0 .. MaxHeight
        BY <2>2, HeightBefore
      <4> QED
        BY <4>1 DEF TypeOK
    <3> QED
      BY <2>2, <3>1 DEF TypeOK, CometOK
  <2>4. Saved'
    BY <2>1 DEF Saved, AfterStates
  <2>5. Copied'
    BY <2>1, CometTypes, CmdTypes DEF Copied, Heads, Migrated
  <2>6. Heads'
    BY <2>1 DEF Heads, Migrated
  <2> QED
    BY <2>3, <2>4, <2>5, <2>6
<1> QED
  BY <1>1, <1>2 DEF InitDataSync

\* EndLoop: whichever way the loop ends, every block has been copied.
LEMMA EndLoopInv == ASSUME IndInv, EndLoop PROVE IndInv'
<1> USE DEF EndLoop, IndInv
<1>1. /\ cmd.pc = "loop" /\ cmd'.pc = "setHeight"
      /\ cmd.height = 0 \/ cmd.missed >= maxMissedBlock
  BY DEF TypeOK, Goto, LoopDone
<1>2. cmd.height < comet.base
  BY <1>1, CometTypes, CmdTypes, MigrateCmdAssumption DEF Copied
<1>3. TypeOK'
  BY DEF TypeOK, Goto, CometOK
<1>4. Saved'
  BY <1>1 DEF Saved, AfterStates
<1>5. Copied'
  BY <1>1, <1>2, CometTypes, CmdTypes DEF Copied, Migrated
<1>6. Heads'
  BY <1>1 DEF Heads, Migrated
<1> QED
  BY <1>3, <1>4, <1>5, <1>6

\* SetHeight: the height never goes back.
LEMMA SetHeightInv == ASSUME IndInv, SetHeight PROVE IndInv'
<1> USE DEF SetHeight, IndInv
<1>1. cmd.pc = "setHeight" /\ cmd'.pc = "done"
  BY DEF TypeOK, Goto
<1>2. Max({rollkit.height, comet.last}) \in {rollkit.height, comet.last}
  <2>1. rollkit.height \in Int /\ comet.last \in Int
    BY CometTypes DEF TypeOK
  <2>2. CASE rollkit.height <= comet.last
    BY <2>1, <2>2, MaxIsGreatest
  <2>3. CASE comet.last <= rollkit.height
    BY <2>1, <2>3, MaxIsGreatest
  <2> QED
    BY <2>1, <2>2, <2>3
<1>3. /\ rollkit'.state = rollkit.state /\ rollkit'.blocks = rollkit.blocks
      /\ rollkit'.height \in 0 .. MaxHeight
  BY <1>2, CometTypes DEF TypeOK
<1>4. TypeOK'
  BY <1>2, CometTypes DEF TypeOK, Goto, CometOK
<1>5. Saved' /\ Heads'
  BY <1>1, <1>3 DEF Saved, AfterStates, Heads, Migrated
<1>6. Copied'
  BY <1>1, <1>3 DEF Copied, Migrated
<1> QED
  BY <1>4, <1>5, <1>6

\* The node's start reads the genesis file.
LEMMA StartInv == ASSUME IndInv, loadRollkitMigrationGenesis PROVE IndInv'
<1> USE DEF loadRollkitMigrationGenesis, IndInv
<1>1. TypeOK'
  BY DEF TypeOK, CometOK
<1>2. Saved'
  BY DEF Saved, AfterStates
<1> QED
  BY <1>1, <1>2 DEF Copied, Heads, Migrated

\* Every step preserves the invariant.
LEMMA NextInv == IndInv /\ [Next]_vars => IndInv'
<1> SUFFICES ASSUME IndInv, [Next]_vars PROVE IndInv'
  OBVIOUS
<1>1. CASE UNCHANGED vars
  BY <1>1 DEF vars, IndInv, TypeOK, CometOK, Saved, AfterStates, Copied, Heads, Migrated
<1>2. CASE Command
  BY <1>2, SaveStateInv, UpdateStateInv, GenesisInv, SkipBlockInv, SaveBlockDataInv,
     InitHeaderSyncInv, InitDataSyncInv, EndLoopInv, SetHeightInv DEF Command
<1>3. CASE Crash
  BY <1>3, GotoInv DEF Crash
<1> QED
  BY <1>1, <1>2, <1>3, RunInv, StartInv DEF Next

-----------------------------------------------------------------------------
\* The invariant holds in every reachable state of the command and the disk
\* (server/migration_cmd.go).
THEOREM Invariance == Spec => []IndInv
BY InitInv, NextInv, PTL DEF Spec

\* A node that starts with the migration genesis finds both saved states,
\* whatever interrupted the command and however often it was run.
THEOREM MigratedNodesHaveState == Spec => []MigratedNodeHasState
<1>1. IndInv => MigratedNodeHasState
  BY DEF IndInv, Saved, MigratedNodeHasState
<1> QED
  BY <1>1, Invariance, PTL

\* The rollkit store has a height only when it has every block of the
\* CometBFT store up to the last height, for every limit on missed blocks.
THEOREM HeightsAreComplete == Spec => []HeightOnlyWhenComplete
<1>1. IndInv => HeightOnlyWhenComplete
  BY DEF IndInv, Copied, HeightOnlyWhenComplete
<1> QED
  BY <1>1, Invariance, PTL

\* Both sync stores have the highest migrated block as soon as the second
\* one has a head, also after a run that died between the two.
THEOREM SyncStoresHaveTip == Spec => []SyncStoresAtTip
<1>1. ASSUME IndInv, sync.data # None PROVE Max(Migrated) = comet.last
  <2>1. comet.last \in Migrated /\ Migrated \subseteq comet.base .. comet.last
    BY <1>1, CometTypes, MigrateCmdAssumption DEF IndInv, Heads, Copied
  <2>2. Migrated \in SUBSET Int /\ \A x \in Migrated : x <= comet.last
    BY <1>1, <2>1, CometTypes DEF IndInv
  <2> QED
    BY <2>1, <2>2, MaxIsGreatest
<1>2. IndInv => SyncStoresAtTip
  BY <1>1 DEF IndInv, Heads, SyncStoresAtTip
<1> QED
  BY <1>2, Invariance, PTL
=============================================================================
