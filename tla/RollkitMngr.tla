----------------------------- MODULE RollkitMngr -----------------------------
(***************************************************************************)
(* The rollkitmngr module (modules/rollkitmngr): a governance message      *)
(* schedules the migration of a CometBFT chain to rollkit; from the start  *)
(* height on, EndBlock hands CometBFT the validator updates that leave     *)
(* only the sequencer or the attesters, at once or, with IBC, spread over  *)
(* IBCSmoothingFactor blocks; one block after the end PreBlocker stops the *)
(* chain for the switch of the binary.  Nothing in the repository calls    *)
(* Keeper.PreBlocker, and the module registers only EndBlock               *)
(* (module.go:20-23): an application may call it from a pre-blocker of its *)
(* own, so both kinds of chain are modelled (callsPreBlocker).             *)
(*                                                                         *)
(* EndBlock reads the staking keeper's list of last validators again in    *)
(* every block.  The updates handed to CometBFT do not change that list,   *)
(* and the staking wrapper (modules/staking), which changes it, tells      *)
(* CometBFT nothing: the list and CometBFT's validator set start equal and *)
(* then go their own ways.                                                 *)
(*                                                                         *)
(* External parts: what makes validators bond and unbond; the SDK, which   *)
(* drops the writes of a block whose PreBlocker fails and does not survive *)
(* a panic in EndBlock; and CometBFT, whose validator set rejects the      *)
(* removal of a validator that is not in it and an update that leaves it   *)
(* empty, and which then stops before it lets the application commit the   *)
(* block.                                                                  *)
(***************************************************************************)
EXTENDS Naturals, Sequences, FiniteSets, FiniteSetsExt

CONSTANTS Keys,                \* consensus public keys
          InitValidators,      \* the validators of the CometBFT chain
          InitPower,           \* their power before the migration
          Lists,               \* lists the staking keeper may come to hold
          Targets,             \* what may be asked for: sequencer, attesters
          IBCSmoothingFactor,  \* 30 in the code
          IBCChoices,          \* whether the chain may have an IBC store
          PreBlockerChoices,   \* whether the application calls PreBlocker
          MaxHeight,           \* bound on the heights
          MaxRequests          \* bound on the governance messages

Elems(s) == {s[i] : i \in DOMAIN s}

ASSUME RollkitMngrAssumption ==
    /\ InitValidators \in Lists
    /\ \A s \in Lists : /\ s \in Seq(Keys)
                       /\ \A i, j \in DOMAIN s : s[i] = s[j] => i = j
    /\ InitPower \in [Keys -> Nat]
    /\ {k \in Keys : InitPower[k] > 0} = Elems(InitValidators)
    /\ \A t \in Targets : t.sequencer \in Keys /\ t.attesters \in Seq(Keys)
    /\ IBCSmoothingFactor \in Nat \ {0}
    /\ IBCChoices \subseteq BOOLEAN /\ PreBlockerChoices \subseteq BOOLEAN
    /\ MaxHeight \in Nat \ {0} /\ MaxRequests \in Nat

VARIABLES IBCEnabled,    \* the chain has an IBC store; never changes
          callsPreBlocker, \* the application calls PreBlocker; never changes
          height,        \* the block being executed
          phase,         \* what it does next: "preblock" or "txs"
          Migration,     \* the scheduled migrations: none or one, as a set
          MigrationStep, \* 0 stands for an absent item too
          Sequencer,     \* the sequencer item: none or one, as a set
          lastValidators, \* the staking keeper's list
          cometPower,    \* CometBFT's validator set; 0: not in it
          stopped,       \* why the chain does not go on, "no" if it does
          requests,      \* governance messages so far
          shifted        \* history: the list changed after a migration began

\* What the application is built with.
chain == <<IBCEnabled, callsPreBlocker>>

\* What the staking module knows, and the history of its changes.
staking == <<lastValidators, shifted>>

vars == <<chain, height, phase, Migration, MigrationStep, Sequencer, staking,
          cometPower, stopped, requests>>

Running == stopped = "no"

Init == /\ IBCEnabled \in IBCChoices
        /\ callsPreBlocker \in PreBlockerChoices
        /\ height = 1
        /\ phase = "preblock"
        /\ Migration = {}
        /\ MigrationStep = 0
        /\ Sequencer = {}
        /\ lastValidators = InitValidators
        /\ cometPower = InitPower
        /\ stopped = "no"
        /\ requests = 0
        /\ shifted = FALSE

-----------------------------------------------------------------------------
\* A slip: the end of a migration in one block is its start.
EndHeightOneBlock(m) == m.blockHeight + IF IBCEnabled THEN IBCSmoothingFactor ELSE 0

\* The last height of the migration m.
EndHeight(m) == m.blockHeight + IF IBCEnabled THEN IBCSmoothingFactor ELSE 1

\* IsMigrating.
IsMigrating(m) == height >= m.blockHeight /\ height <= EndHeight(m)

\* Who stays: the sequencer alone or, if there are any, the attesters.
Target(m) == IF m.attesters = <<>> THEN {m.sequencer} ELSE Elems(m.attesters)

\* The entries of s outside S, in their order: the n-th one is at the n-th of
\* their positions.
Others(s, S) ==
    LET at == {i \in DOMAIN s : s[i] \notin S}
    IN  [n \in 1 .. Cardinality(at) |->
            s[CHOOSE i \in at : Cardinality({j \in at : j <= i}) = n]]

\* The validators to go, in the order of the list.
OldValsToRemove(m) == Others(lastValidators, Target(m))

\* The attesters to come; a sequencer is only added by migrateNow.
NewAttestersToAdd(m) == Others(m.attesters, Elems(lastValidators))

\* A slip: rounded down.
PerStepFloor(s) == Len(s) \div IBCSmoothingFactor

\* How many of s are dealt with per step, rounded up.
PerStep(s) == (Len(s) + IBCSmoothingFactor - 1) \div IBCSmoothingFactor

\* A slip: the slice starts one entry too early.
StartOneEarly(s, step) ==
    IF step = 0 THEN 0 ELSE step * PerStep(s) - 1

\* A slip: the slice starts one entry too late.
StartOneLate(s, step) ==
    IF step = 0 THEN 0 ELSE step * PerStep(s) + 1

\* The first index of the slice of this step, from 0.
Start(s, step) == step * PerStep(s)

\* s[start:end] with a start beyond the end is a run-time panic.
SlicePanics(s, step) == Start(s, step) > Len(s)

\* The entries of this step.
Slice(s, step) ==
    Elems(SubSeq(s, Start(s, step) + 1, Min({Start(s, step) + PerStep(s), Len(s)})))

\* An update is a function from keys to powers.  migrateToSequencer and
\* migrateToAttesters:
NowUpdates(m) ==
    [k \in Elems(lastValidators) \cup Target(m) |-> IF k \in Target(m) THEN 1 ELSE 0]

\* A slip: the others keep their power.
OverUpdatesNotLevel(m, step) ==
    LET gone == Slice(OldValsToRemove(m), step)
        new == Slice(NewAttestersToAdd(m), step)
    IN  [k \in gone \cup new |-> IF k \in gone THEN 0 ELSE 1]

\* migrateOver before its last step.  Step 0 also levels the others.
OverUpdates(m, step) ==
    LET gone == Slice(OldValsToRemove(m), step)
        new == Slice(NewAttestersToAdd(m), step)
        rest == IF step = 0 THEN Elems(lastValidators) ELSE {}
    IN  [k \in gone \cup new \cup rest |-> IF k \in gone THEN 0 ELSE 1]

-----------------------------------------------------------------------------
\* CometBFT takes an update or stops on it.
Rejected(u) == \/ \E k \in DOMAIN u : u[k] = 0 /\ cometPower[k] = 0
               \/ \A k \in Keys : IF k \in DOMAIN u THEN u[k] = 0
                                  ELSE cometPower[k] = 0

\* The block with the updates u, the step item and the sequencer item that
\* EndBlock has written.
FinishBlock(u, step, seq) ==
    \/ /\ Rejected(u)
       /\ stopped' = "rejected"
       /\ UNCHANGED <<height, phase, cometPower, MigrationStep, Sequencer>>
    \/ /\ ~ Rejected(u)
       /\ MigrationStep' = step
       /\ Sequencer' = seq
       /\ cometPower' = [k \in Keys |-> IF k \in DOMAIN u THEN u[k] ELSE cometPower[k]]
       /\ height' = height + 1
       /\ phase' = "preblock"
       /\ UNCHANGED stopped

\* A slip: the migration must also be in progress.
HaltDueWhileMigrating(m) == EndHeight(m) + 1 = height /\ IsMigrating(m)

\* The block after the end of the migration.
HaltDue(m) == EndHeight(m) + 1 = height

\* The start of a block.  PreBlocker, if the application calls it, stops the
\* chain one block after the end of the migration; its removal of the
\* migration is lost with the failing block.
PreBlocker ==
    /\ Running
    /\ phase = "preblock"
    /\ \/ /\ callsPreBlocker
          /\ \E m \in Migration : HaltDue(m)
          /\ stopped' = "preblock"
          /\ UNCHANGED phase
       \/ /\ callsPreBlocker => \A m \in Migration : ~ HaltDue(m)
          /\ phase' = "txs"
          /\ UNCHANGED stopped
    /\ UNCHANGED <<chain, height, Migration, MigrationStep, Sequencer, staking,
                   cometPower, requests>>

\* The migration m has begun to hand out updates, or one before it has.
Begun(m) == MigrationStep > 0 \/ height > m.blockHeight

\* Validators bond or unbond: the staking wrapper applies the change to its
\* list and hands CometBFT no updates.
ChangeStaking ==
    /\ Running
    /\ phase = "txs"
    /\ lastValidators' \in Lists \ {lastValidators}
    /\ shifted' = (shifted \/ \E m \in Migration : Begun(m))
    /\ UNCHANGED <<chain, height, phase, Migration, MigrationStep, Sequencer,
                   cometPower, stopped, requests>>

\* The message overwrites a scheduled or running migration and leaves
\* MigrationStep as it is.
MigrateToRollkit(t, h) ==
    /\ Running
    /\ phase = "txs"
    /\ requests < MaxRequests
    /\ h >= height
    /\ Migration' = {[blockHeight |-> h, sequencer |-> t.sequencer,
                      attesters |-> t.attesters]}
    /\ requests' = requests + 1
    /\ UNCHANGED <<chain, height, phase, MigrationStep, Sequencer, staking,
                   cometPower, stopped>>

\* EndBlock when no migration is running.
EndBlockIdle ==
    /\ Running
    /\ phase = "txs"
    /\ height < MaxHeight
    /\ ~ \E m \in Migration : IsMigrating(m)
    /\ height' = height + 1
    /\ phase' = "preblock"
    /\ UNCHANGED <<chain, Migration, MigrationStep, Sequencer, staking, cometPower,
                   stopped, requests>>

\* A slip: a sequencer that is already stored is kept.
FirstSequencer(m) == IF Sequencer = {} THEN {m.sequencer} ELSE Sequencer

\* What migrateNow stores as the sequencer.
NewSequencer(m) == {m.sequencer}

\* migrateOver has made all its steps.
OverDone == MigrationStep >= IBCSmoothingFactor

\* migrateNow, called without IBC at the start height and again at the end
\* height, and with IBC after IBCSmoothingFactor steps.
MigrateNow(m) ==
    /\ Running
    /\ phase = "txs"
    /\ height < MaxHeight
    /\ IsMigrating(m)
    /\ IBCEnabled => OverDone
    /\ FinishBlock(NowUpdates(m), IF IBCEnabled THEN 0 ELSE MigrationStep,
                   NewSequencer(m))
    /\ UNCHANGED <<chain, Migration, staking, requests>>

\* migrateOver before its last step.
MigrateOver(m) ==
    /\ Running
    /\ phase = "txs"
    /\ height < MaxHeight
    /\ IsMigrating(m)
    /\ IBCEnabled
    /\ ~ OverDone
    /\ \/ /\ \/ SlicePanics(OldValsToRemove(m), MigrationStep)
             \/ SlicePanics(NewAttestersToAdd(m), MigrationStep)
          /\ stopped' = "panic"
          /\ UNCHANGED <<height, phase, MigrationStep, Sequencer, cometPower>>
       \/ /\ ~ SlicePanics(OldValsToRemove(m), MigrationStep)
          /\ ~ SlicePanics(NewAttestersToAdd(m), MigrationStep)
          /\ \E u \in {OverUpdates(m, MigrationStep)} :
                FinishBlock(u, MigrationStep + 1, Sequencer)
    /\ UNCHANGED <<chain, Migration, staking, requests>>

\* The operator starts the same binary again; the block is tried again from
\* the state of the block before.
Restart ==
    /\ stopped = "preblock"
    /\ stopped' = "no"
    /\ UNCHANGED <<chain, height, phase, Migration, MigrationStep,
                   Sequencer, staking, cometPower, requests>>

Next == \/ PreBlocker \/ ChangeStaking \/ EndBlockIdle \/ Restart
        \/ \E t \in Targets, h \in 1 .. MaxHeight : MigrateToRollkit(t, h)
        \/ \E m \in Migration : MigrateNow(m) \/ MigrateOver(m)

Spec == Init /\ [][Next]_vars

\* Blocks keep being produced.
FairSpec == Spec /\ WF_vars(PreBlocker) /\ WF_vars(EndBlockIdle)
                 /\ WF_vars(\E m \in Migration : MigrateNow(m) \/ MigrateOver(m))

-----------------------------------------------------------------------------
\* The types of the module's items.  In particular the step counter never
\* exceeds IBCSmoothingFactor, also when one migration replaces another.
TypeOK ==
    /\ IBCEnabled \in IBCChoices /\ callsPreBlocker \in PreBlockerChoices
    /\ height \in 1 .. MaxHeight
    /\ phase \in {"preblock", "txs"}
    /\ \A m \in Migration : /\ m.blockHeight \in Nat
                            /\ m.sequencer \in Keys
                            /\ m.attesters \in Seq(Keys)
    /\ MigrationStep \in 0 .. IBCSmoothingFactor
    /\ Sequencer \subseteq Keys
    /\ lastValidators \in Lists
    /\ cometPower \in [Keys -> Nat]
    /\ stopped \in {"no", "preblock", "panic", "rejected"}
    /\ requests \in 0 .. MaxRequests
    /\ shifted \in BOOLEAN

Members == {k \in Keys : cometPower[k] > 0}

\* Nothing has replaced the migration, and the list of validators is the one
\* its first block has read.
Undisturbed == requests = 1 /\ ~ shifted

(***************************************************************************)
(* An undisturbed migration with IBC removes every validator that is to go *)
(* by the end of its steps, also when the staking list it started from is  *)
(* no longer CometBFT's set: the slices of the steps cover the list, and   *)
(* CometBFT has taken each of them.                                        *)
(***************************************************************************)
SlicesCoverTheSet ==
    Undisturbed /\ MigrationStep = IBCSmoothingFactor =>
        \A m \in Migration : Members \cap Elems(OldValsToRemove(m)) = {}

(***************************************************************************)
(* As long as the steps run on one list, no validator has more power than  *)
(* another ("This is to avoid a validator ends up with >= 33% ...").  The  *)
(* exceptions are the validators of CometBFT's set that the staking list   *)
(* had lost before step 0: nobody levels or removes them.                  *)
(***************************************************************************)
LevelDuringMigration ==
    MigrationStep > 0 /\ ~ shifted =>
        \A k \in Keys : \/ cometPower[k] \in {0, 1}
                        \/ k \in Elems(InitValidators) \ Elems(lastValidators)

(***************************************************************************)
(* Why CometBFT refuses an update of an undisturbed migration, with or     *)
(* without IBC: the last block of the migration removes once more whoever  *)
(* is gone already (migration.go:128-133 with IBC, the second call of      *)
(* migrateNow without); or the list holds a validator that CometBFT was    *)
(* never told of; or the update would leave nobody.  In particular no step *)
(* before the last removes a validator a second time.                      *)
(***************************************************************************)
RefusalsExplained ==
    Undisturbed /\ stopped = "rejected" =>
        \A m \in Migration :
            \/ height = EndHeight(m) /\ OldValsToRemove(m) # <<>>
            \/ ~ Elems(OldValsToRemove(m)) \subseteq Elems(InitValidators)
            \/ Members \subseteq Elems(OldValsToRemove(m))

(***************************************************************************)
(* No undisturbed migration that has a validator to remove ever gets past  *)
(* its last block, because that block repeats the removals and CometBFT    *)
(* refuses them: the chain is down one block before the halt that          *)
(* PreBlocker plans, with or without PreBlocker.                           *)
(***************************************************************************)
NoRemovalGetsThrough ==
    Undisturbed => \A m \in Migration :
        height > EndHeight(m) => OldValsToRemove(m) = <<>>

(***************************************************************************)
(* From the block after the end of the migration on, where the binary is   *)
(* switched, the sequencer item holds the sequencer of the migration: the  *)
(* migration command reads it from the store if more than one validator is *)
(* left.  This also holds for a migration that has replaced another one    *)
(* halfway and inherits its step counter, whatever the staking list does,  *)
(* and whether or not PreBlocker stops the chain there.                    *)
(***************************************************************************)
SequencerKnownAtHalt ==
    \A m \in Migration : height > EndHeight(m) => Sequencer = {m.sequencer}

\* The migration removes nobody and its list of new attesters is not so short
\* that the slices are used up before the last step.
Smooth(m) ==
    LET new == NewAttestersToAdd(m)
    IN  OldValsToRemove(m) = <<>> /\ (IBCSmoothingFactor - 1) * PerStep(new) <= Len(new)

(***************************************************************************)
(* Liveness: in an application that calls PreBlocker, a migration that is  *)
(* not replaced gets to the planned halt at the block after its end, also  *)
(* one that starts with the step counter of another.  The only way not to  *)
(* get there is a list on which it is not smooth.                          *)
(***************************************************************************)
SmoothMigrationHalts ==
    (/\ callsPreBlocker
     /\ requests = MaxRequests
     /\ \E m \in Migration : height <= m.blockHeight /\ EndHeight(m) < MaxHeight)
    ~> (\/ \E m \in Migration : stopped = "preblock" /\ height = EndHeight(m) + 1
        \/ \E m \in Migration : ~ Smooth(m))

(***************************************************************************)
(* A panic of EndBlock can be told from the message and the validator set: *)
(* some list of validators to remove or to add is so short that, rounded   *)
(* up, its slices are used up before the last step.  Any other migration   *)
(* gets through all its steps, also one that replaces another halfway.     *)
(***************************************************************************)
PanicsOnlyOnShortLists ==
    stopped = "panic" => \E m \in Migration :
        \E s \in {OldValsToRemove(m), NewAttestersToAdd(m)} :
            (IBCSmoothingFactor - 1) * PerStep(s) > Len(s)
=============================================================================
