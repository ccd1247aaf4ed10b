------------------------------- MODULE Network -------------------------------
(***************************************************************************)
(* The network module (modules/network): validators opt into an attester   *)
(* set and attest checkpoint heights; a height is soft-confirmed when the  *)
(* attesting power meets the quorum.  The block filter of the adapter asks *)
(* this module before it lets events out.                                  *)
(*                                                                         *)
(* A block is a run of messages followed by EndBlocker.  A message that    *)
(* fails is rolled back, so a failure is a false guard; EndBlocker failing *)
(* fails the block, and with it the chain.  The staking keeper belongs to  *)
(* the Cosmos SDK; it is modelled by what the module reads from it: the    *)
(* bonded validators, in the order of their addresses, and their power.    *)
(*                                                                         *)
(* A bitmap of b bytes of the code is a set of positions below its size    *)
(* (b times ByteWidth).                                                    *)
(***************************************************************************)
EXTENDS Naturals, FiniteSets, FiniteSetsExt, Sequences

CONSTANTS Validators,     \* operator addresses, as numbers in address order
          InitBonded,     \* those bonded at genesis
          InitPower,      \* their consensus power at genesis
          Powers,         \* the consensus powers a validator may have
          GenesisIndices, \* ValidatorIndices of the genesis file, in its order
          IndexSpan,      \* positions a uint16 can tell apart (65536 in the code)
          Movers,         \* those that may join, leave, bond and unbond
          ByteWidth,      \* bits per byte of a bitmap (8 in the code)
          ParamChoices,   \* the valid parameters: epochLength, num / den
          InitParams,     \* the parameters of the genesis file
          MaxHeight,      \* bound on the heights
          Env             \* what besides messages may happen

AllEnv == {"staking", "genesis"}

Heights == 1 .. MaxHeight

ASSUME NetworkAssumption ==
    /\ Validators \subseteq Nat /\ IsFiniteSet(Validators)
    /\ InitBonded \subseteq Validators
    /\ Movers \subseteq Validators
    /\ Powers \subseteq Nat /\ InitPower \in [Validators -> Powers]
    /\ ByteWidth \in Nat \ {0}
    /\ IndexSpan \in Nat /\ IndexSpan >= Cardinality(Validators) /\ IndexSpan > 0
    /\ MaxHeight \in Nat \ {0}
    /\ \A p \in ParamChoices : /\ p.epochLength \in Nat \ {0}
                               /\ p.num \in Nat /\ p.den \in Nat
                               /\ 0 < p.num /\ p.num <= p.den
    /\ InitParams \in ParamChoices
    /\ Env \subseteq AllEnv

\* What GenesisState.Validate asks of the indices: no address twice and no
\* index twice.  The indices are 32 bits wide.
ASSUME GenesisAssumption ==
    /\ GenesisIndices \in Seq([address : Validators, index : Nat, power : Powers])
    /\ \A j, k \in DOMAIN GenesisIndices :
          j # k => /\ GenesisIndices[j].address # GenesisIndices[k].address
                   /\ GenesisIndices[j].index # GenesisIndices[k].index

VARIABLES height,         \* the block being executed
          params,
          bonded, power,  \* the staking keeper
          ValidatorIndex, \* validator -> position, for some validators
          ValidatorPower, \* position -> power
          AttesterSet,
          AttestationBitmap,  \* height -> bitmap, for some heights
          EpochBitmap,        \* epoch -> bitmap, for some epochs
          Signatures,         \* pairs <<height, validator>>
          StoredAttestationInfo, \* height -> what processCheckpoint found
          halted,         \* EndBlocker has failed
          ahead           \* history: heights attested before they were reached

index == <<ValidatorIndex, ValidatorPower>>
staking == <<bonded, power>>
attestations == <<AttestationBitmap, EpochBitmap, Signatures>>
vars == <<height, params, bonded, power, ValidatorIndex, ValidatorPower,
          AttesterSet, AttestationBitmap, EpochBitmap, Signatures,
          StoredAttestationInfo, halted, ahead>>

-----------------------------------------------------------------------------
(***************************************************************************)
(* Bitmaps.                                                                *)
(***************************************************************************)
\* A slip: the size is rounded down.
NewBitmapShort(n) == [size |-> (n \div ByteWidth) * ByteWidth, bits |-> {}]

\* (n+7)/8 bytes.
NewBitmap(n) ==
    [size |-> ((n + ByteWidth - 1) \div ByteWidth) * ByteWidth, bits |-> {}]

\* A position outside the bitmap is silently ignored.
SetBit(b, i) == IF i < b.size THEN [b EXCEPT !.bits = @ \cup {i}] ELSE b

IsSet(b, i) == i \in b.bits

\* f with x bound to v.
Put(f, x, v) == [y \in DOMAIN f \cup {x} |-> IF y = x THEN v ELSE f[y]]

-----------------------------------------------------------------------------
(***************************************************************************)
(* The keeper's helpers.                                                   *)
(***************************************************************************)
IsCheckpointHeight(h) == h % params.epochLength = 0

GetCurrentEpoch == height \div params.epochLength

Sum(f, S) == MapThenSumSet(LAMBDA x : f[x], S)

\* A slip: only the attesters count.
GetTotalPowerOfAttesters == Sum(power, AttesterSet)

GetTotalPower == Sum(power, bonded)

\* CalculateVotedPower finds a power for every bit.
PowersKnown(b) == b.bits \subseteq DOMAIN ValidatorPower

CalculateVotedPower(b) == Sum(ValidatorPower, b.bits)

\* A slip: the required power is rounded once more.
CheckQuorumLoose(voted, total) == voted + 1 >= (total * params.num) \div params.den

\* The required power is truncated to an integer.
CheckQuorum(voted, total) == voted >= (total * params.num) \div params.den

\* IsSoftConfirmed; an error counts as not confirmed for its one caller.
IsSoftConfirmed(h) ==
    /\ h \in DOMAIN AttestationBitmap
    /\ PowersKnown(AttestationBitmap[h])
    /\ CheckQuorum(CalculateVotedPower(AttestationBitmap[h]), GetTotalPower)

\* A slip: the counter is not advanced.
PositionStuck(v, S) == 0

\* The position BuildValidatorIndexMap gives to v among S: the number of
\* bonded validators before it.
Position(v, S) == Cardinality({w \in S : w < v})

IndexMap(S) == [v \in S |-> Position(v, S)]

PowerMap(S) ==
    [i \in {Position(v, S) : v \in S} |->
        power[CHOOSE v \in S : Position(v, S) = i]]

\* The old map is cleared, the new one holds the bonded validators.
BuildValidatorIndexMap ==
    /\ ValidatorIndex' = IndexMap(bonded)
    /\ ValidatorPower' = PowerMap(bonded)

-----------------------------------------------------------------------------
\* InitGenesis stores the indices of the file one after the other, each cut
\* down to a uint16; the power of a position is that of the last entry that
\* claims it.  The indexed validators also make the first attester set.
GenesisMembers == {GenesisIndices[k].address : k \in DOMAIN GenesisIndices}

GenesisPosition(k) == GenesisIndices[k].index % IndexSpan

GenesisIndex ==
    [v \in GenesisMembers |->
        GenesisPosition(CHOOSE k \in DOMAIN GenesisIndices :
                            GenesisIndices[k].address = v)]

GenesisPower ==
    [i \in {GenesisPosition(k) : k \in DOMAIN GenesisIndices} |->
        GenesisIndices[Max({k \in DOMAIN GenesisIndices : GenesisPosition(k) = i})].power]

Init == /\ height = 1
        /\ params = InitParams
        /\ bonded = InitBonded
        /\ power = InitPower
        /\ ValidatorIndex = GenesisIndex
        /\ ValidatorPower = GenesisPower
        /\ AttesterSet = GenesisMembers
        /\ AttestationBitmap = [h \in {} |-> NewBitmap(0)]
        /\ EpochBitmap = [e \in {} |-> NewBitmap(0)]
        /\ Signatures = {}
        /\ StoredAttestationInfo = [h \in {} |-> {}]
        /\ halted = FALSE
        /\ ahead = {}

-----------------------------------------------------------------------------
(***************************************************************************)
(* Messages.                                                               *)
(***************************************************************************)
\* The bitmap stored at x, or a new one for the bonded validators.
BitmapAt(f, x) == IF x \in DOMAIN f THEN f[x] ELSE NewBitmap(Cardinality(bonded))

\* The handler does not compare h with the current height: a validator may
\* attest ahead of time.
Attest(v, h) ==
    /\ ~ halted
    /\ IsCheckpointHeight(h)
    /\ v \in AttesterSet
    /\ v \in DOMAIN ValidatorIndex
    /\ LET i == ValidatorIndex[v]
           bitmap == BitmapAt(AttestationBitmap, h)
           epoch == GetCurrentEpoch
       IN  /\ ~ IsSet(bitmap, i)
           /\ AttestationBitmap' = Put(AttestationBitmap, h, SetBit(bitmap, i))
           /\ EpochBitmap' = Put(EpochBitmap, epoch,
                                 SetBit(BitmapAt(EpochBitmap, epoch), i))
    /\ Signatures' = Signatures \cup {<<h, v>>}
    /\ ahead' = IF h > height THEN ahead \cup {h} ELSE ahead
    /\ UNCHANGED <<height, params, staking, index, AttesterSet,
                   StoredAttestationInfo, halted>>

JoinAttesterSet(v) ==
    /\ ~ halted
    /\ v \in bonded
    /\ v \notin AttesterSet
    /\ AttesterSet' = AttesterSet \cup {v}
    /\ UNCHANGED <<height, params, staking, index, attestations,
                   StoredAttestationInfo, halted, ahead>>

\* Leaving keeps the index, the bits and the signatures.
LeaveAttesterSet(v) ==
    /\ ~ halted
    /\ v \in AttesterSet
    /\ AttesterSet' = AttesterSet \ {v}
    /\ UNCHANGED <<height, params, staking, index, attestations,
                   StoredAttestationInfo, halted, ahead>>

\* The governance authority; the message validates p.
UpdateParams(p) ==
    /\ ~ halted
    /\ p # params
    /\ params' = p
    /\ UNCHANGED <<height, staking, index, AttesterSet, attestations,
                   StoredAttestationInfo, halted, ahead>>

-----------------------------------------------------------------------------
(***************************************************************************)
(* The end of a block.                                                     *)
(***************************************************************************)
\* processCheckpoint has something to do at this height.
CheckpointDue == IsCheckpointHeight(height) /\ height \in DOMAIN AttestationBitmap

CheckpointInfo ==
    LET b == AttestationBitmap[height]
    IN  [bitmap |-> b,
         votedPower |-> CalculateVotedPower(b),
         totalPower |-> GetTotalPower,
         softConfirmed |-> CheckQuorum(CalculateVotedPower(b), GetTotalPower)]

\* The next block belongs to another epoch.
EpochEnds == GetCurrentEpoch # (height + 1) \div params.epochLength

\* A slip: the index is rebuilt before the checkpoint is processed.
CheckpointFailsLate ==
    CheckpointDue /\ ~ (AttestationBitmap[height].bits \subseteq
                        IF EpochEnds THEN 0 .. Cardinality(bonded) - 1
                        ELSE DOMAIN ValidatorPower)

\* A bit without a power makes processCheckpoint, EndBlocker and the block
\* fail.
CheckpointFails == CheckpointDue /\ ~ PowersKnown(AttestationBitmap[height])

EndBlocker ==
    /\ ~ halted
    /\ height < MaxHeight
    /\ \/ /\ CheckpointFails
          /\ halted' = TRUE
          /\ UNCHANGED <<height, index, StoredAttestationInfo>>
       \/ /\ ~ CheckpointFails
          /\ StoredAttestationInfo' =
                IF CheckpointDue
                THEN Put(StoredAttestationInfo, height, CheckpointInfo)
                ELSE StoredAttestationInfo
          /\ IF EpochEnds THEN BuildValidatorIndexMap ELSE UNCHANGED index
          /\ height' = height + 1
          /\ UNCHANGED halted
    /\ UNCHANGED <<params, staking, AttesterSet, attestations, ahead>>

-----------------------------------------------------------------------------
(***************************************************************************)
(* The environment.                                                        *)
(***************************************************************************)
\* The staking keeper bonds or unbonds a validator or changes its power.
ChangeStaking(v) ==
    /\ "staking" \in Env
    /\ ~ halted
    /\ \/ /\ bonded' \in {bonded \cup {v}, bonded \ {v}} \ {bonded}
          /\ UNCHANGED power
       \/ /\ \E p \in Powers \ {power[v]} : power' = [power EXCEPT ![v] = p]
          /\ UNCHANGED bonded
    /\ UNCHANGED <<height, params, index, AttesterSet, attestations,
                   StoredAttestationInfo, halted, ahead>>

\* The chain is exported and started again from the exported genesis: the
\* indexed validators become the attesters, bitmaps survive only in the
\* stored attestation info, epoch bitmaps and signatures do not, and what was
\* attested ahead of time is forgotten.
RestartFromGenesis ==
    /\ "genesis" \in Env
    /\ ~ halted
    /\ AttesterSet' = DOMAIN ValidatorIndex
    /\ AttestationBitmap' = [h \in DOMAIN StoredAttestationInfo |->
                                StoredAttestationInfo[h].bitmap]
    /\ EpochBitmap' = [e \in {} |-> NewBitmap(0)]
    /\ Signatures' = {}
    /\ ahead' = {}
    /\ UNCHANGED <<height, params, staking, index, StoredAttestationInfo,
                   halted>>

Next == \/ \E v \in Validators, h \in Heights : Attest(v, h)
        \/ \E v \in Movers : JoinAttesterSet(v) \/ LeaveAttesterSet(v)
                             \/ ChangeStaking(v)
        \/ \E p \in ParamChoices : UpdateParams(p)
        \/ EndBlocker
        \/ RestartFromGenesis

Spec == Init /\ [][Next]_vars

-----------------------------------------------------------------------------
Bitmaps == [size : Nat, bits : SUBSET Nat]

\* The types of the module's store.  In particular epoch numbers and attested
\* heights stay within the blocks of the chain.
TypeOK ==
    /\ height \in Heights
    /\ params \in ParamChoices
    /\ bonded \subseteq Validators
    /\ power \in [Validators -> Powers]
    /\ DOMAIN ValidatorIndex \subseteq Validators
    /\ \A v \in DOMAIN ValidatorIndex : ValidatorIndex[v] \in Nat
    /\ DOMAIN ValidatorPower \subseteq Nat
    /\ \A i \in DOMAIN ValidatorPower : ValidatorPower[i] \in Powers
    /\ AttesterSet \subseteq Validators
    /\ DOMAIN AttestationBitmap \subseteq Heights
    /\ \A h \in DOMAIN AttestationBitmap : AttestationBitmap[h] \in Bitmaps
    /\ DOMAIN EpochBitmap \subseteq 0 .. MaxHeight
    /\ \A e \in DOMAIN EpochBitmap : EpochBitmap[e] \in Bitmaps
    /\ Signatures \subseteq Heights \X Validators
    /\ DOMAIN StoredAttestationInfo \subseteq Heights
    /\ halted \in BOOLEAN
    /\ ahead \subseteq Heights

(***************************************************************************)
(* The positions in use are those that have a power, so an attester always *)
(* finds one and ExportGenesis never panics; bits lie inside the bitmaps   *)
(* they were set in.  Two validators share a position only until the first *)
(* rebuild: GenesisState.Validate compares indices of 32 bits, InitGenesis *)
(* stores 16 of them (genesis.go:20-28, keeper.go:152-185).                *)
(***************************************************************************)
IndexMapSound ==
    /\ {ValidatorIndex[v] : v \in DOMAIN ValidatorIndex} = DOMAIN ValidatorPower
    /\ \A h \in DOMAIN AttestationBitmap :
          \A i \in AttestationBitmap[h].bits : i < AttestationBitmap[h].size
    /\ \/ ValidatorIndex = GenesisIndex
       \/ \A v, w \in DOMAIN ValidatorIndex :
             v # w => ValidatorIndex[v] # ValidatorIndex[w]

(***************************************************************************)
(* A bit without a power makes EndBlocker fail and with it the chain.      *)
(* Whatever validators bond, unbond, change power or share a position,     *)
(* this happens only at a height that somebody attested before it was      *)
(* reached, for the map is rebuilt after the checkpoint of the block has   *)
(* been processed (abci.go:28-62, msg_server.go:30-117).                   *)
(***************************************************************************)
HaltsOnlyIfAttestedAhead == halted => height \in ahead

Signers(h) == {v \in Validators : <<h, v>> \in Signatures}

(***************************************************************************)
(* No validator is counted twice and none is forgotten: as long as the     *)
(* validator set stays as it is, a height's bitmap has one bit for each    *)
(* validator whose signature is stored, through joins, leaves, rebuilds of *)
(* the map and changes of the epoch length.                                *)
(***************************************************************************)
OneBitPerSigner ==
    \A h \in DOMAIN AttestationBitmap :
        Cardinality(AttestationBitmap[h].bits) = Cardinality(Signers(h))

(***************************************************************************)
(* A soft-confirmed height was signed by validators who hold the required  *)
(* share of the bonded power, rounded down.                                *)
(***************************************************************************)
SoftConfirmedBySigners ==
    \A h \in Heights :
        IsSoftConfirmed(h) =>
            Sum(power, Signers(h)) >= (GetTotalPower * params.num) \div params.den

(***************************************************************************)
(* The adapter releases events on the word of IsSoftConfirmed.  A height   *)
(* that is soft-confirmed stays so while neither the validators nor the    *)
(* quorum change.                                                          *)
(***************************************************************************)
SoftConfirmationStable ==
    [][\A h \in Heights :
          IsSoftConfirmed(h) /\ params'.num * params.den = params.num * params'.den
             => IsSoftConfirmed(h)']_vars

=============================================================================
