---------------------------- MODULE NetworkProofs ----------------------------
(***************************************************************************)
(* Proofs about Network, for any validators, any parameters and any number *)
(* of blocks.                                                              *)
(*                                                                         *)
(* IndexMapSound and HaltsOnlyIfAttestedAhead hold whatever happens; the   *)
(* second needs the strengthening that the bits of the current height were *)
(* set in this block, under the map it still has, or somebody attested     *)
(* ahead of time (Present).                                                *)
(* The others need that the bonded validators do not change and that the   *)
(* genesis file gives them the positions they have among the bonded        *)
(* (Fixed).  The strengthening is that the bits of a height are the        *)
(* positions of its signers (Static) and that the power found at such a    *)
(* position is the signer's (Weighed): then the voted power is a sum over  *)
(* the signers in other names.                                             *)
(***************************************************************************)
EXTENDS Network, FiniteSetTheorems, WellFoundedInduction, TLAPS

\* A bitmap has its bits inside.
Bounded(b) == b \in Bitmaps /\ \A i \in b.bits : i < b.size

\* The types, and the bitmaps that a restart brings back.
Inv == /\ TypeOK
       /\ IndexMapSound
       /\ \A h \in DOMAIN StoredAttestationInfo : Bounded(StoredAttestationInfo[h].bitmap)

-----------------------------------------------------------------------------
\* The bonded validators are finitely many, their positions lie below their
\* number and differ.
LEMMA Positions ==
    ASSUME NEW S \in SUBSET Validators
    PROVE  /\ IsFiniteSet(S) /\ Cardinality(S) \in Nat
           /\ \A v \in S : Position(v, S) \in Nat /\ Position(v, S) < Cardinality(S)
           /\ \A v, w \in S : Position(v, S) = Position(w, S) => v = w
<1>1. IsFiniteSet(S) /\ Cardinality(S) \in Nat /\ S \subseteq Nat
  BY NetworkAssumption, FS_Subset, FS_CardinalityType
<1> DEFINE below(v) == {w \in S : w < v}
<1>2. \A v \in S : IsFiniteSet(below(v)) /\ Position(v, S) \in Nat
  <2> SUFFICES ASSUME NEW v \in S
               PROVE  IsFiniteSet(below(v)) /\ Position(v, S) \in Nat
    OBVIOUS
  <2>1. below(v) \in SUBSET S
    OBVIOUS
  <2>2. IsFiniteSet(below(v))
    BY <1>1, <2>1, FS_Subset
  <2> QED
    BY <2>2, FS_CardinalityType DEF Position
<1>3. ASSUME NEW v \in S PROVE Position(v, S) < Cardinality(S)
  <2>1. below(v) \in SUBSET S /\ v \notin below(v)
    BY <1>1
  <2>2. Cardinality(below(v)) <= Cardinality(S) /\ Cardinality(S) # Cardinality(below(v))
    BY <1>1, <2>1, FS_Subset
  <2> QED
    BY <1>1, <1>2, <2>2 DEF Position
<1>4. ASSUME NEW v \in S, NEW w \in S, v < w PROVE Position(v, S) # Position(w, S)
  <2>1. \A x \in S : x < v => x < w
    BY <1>1, <1>4
  <2>2. below(v) \in SUBSET below(w) /\ v \in below(w)
    BY <1>4, <2>1
  <2>3. v \notin below(v)
    BY <1>1
  <2> QED
    BY <1>2, <2>2, <2>3, FS_Subset DEF Position
<1>5. \A v, w \in S : Position(v, S) = Position(w, S) => v = w
  BY <1>1, <1>4
<1> QED
  BY <1>1, <1>2, <1>3, <1>5

\* A new bitmap is empty and has room for n positions.
LEMMA NewBitmapProperties ==
    ASSUME NEW n \in Nat
    PROVE  /\ Bounded(NewBitmap(n)) /\ NewBitmap(n).bits = {} /\ NewBitmap(n).size >= n
<1> DEFINE q == (n + ByteWidth - 1) \div ByteWidth
           r == (n + ByteWidth - 1) % ByteWidth
<1>1. ByteWidth \in Nat \ {0}
  BY NetworkAssumption
<1>2. n + ByteWidth - 1 = ByteWidth * q + r /\ r \in 0 .. ByteWidth - 1 /\ q \in Nat
  BY <1>1
<1>3. q * ByteWidth = ByteWidth * q
  BY <1>1, <1>2
<1>4. q * ByteWidth \in Nat /\ q * ByteWidth >= n
  BY <1>1, <1>2, <1>3
<1> HIDE DEF q, r
<1>5. NewBitmap(n) = [size |-> q * ByteWidth, bits |-> {}]
  BY DEF NewBitmap, q
<1> QED
  BY <1>4, <1>5 DEF Bounded, Bitmaps

\* Setting a bit.
LEMMA SetBitProperties ==
    ASSUME NEW b, Bounded(b), NEW i \in Nat
    PROVE  /\ Bounded(SetBit(b, i)) /\ SetBit(b, i).size = b.size
           /\ SetBit(b, i).bits = IF i < b.size THEN b.bits \cup {i} ELSE b.bits
BY DEF SetBit, Bounded, Bitmaps

\* A quotient is not larger than the number.
LEMMA Quotient ==
    ASSUME NEW n \in Nat, NEW d \in Nat \ {0}
    PROVE  n \div d \in 0 .. n
<1>1. ASSUME NEW q \in Nat PROVE q <= d * q
  <2>1. d * q = q + (d - 1) * q /\ d - 1 \in Nat
    OBVIOUS
  <2>2. \A k \in Nat : k * q \in Nat
    OBVIOUS
  <2> QED
    BY <2>1, <2>2
<1> DEFINE q == n \div d
           r == n % d
<1>2. n = d * q + r /\ r \in 0 .. d - 1 /\ q \in Nat
  OBVIOUS
<1>3. d * q \in Nat /\ q <= d * q
  BY <1>1, <1>2
<1> HIDE DEF q, r
<1>4. q <= n
  BY <1>2, <1>3
<1> QED
  BY <1>2, <1>4 DEF q

\* The maps BuildValidatorIndexMap makes for S.
LEMMA IndexMapProperties ==
    ASSUME power \in [Validators -> Powers], NEW S \in SUBSET Validators
    PROVE  /\ DOMAIN IndexMap(S) = S
           /\ \A v \in S : IndexMap(S)[v] = Position(v, S)
           /\ DOMAIN PowerMap(S) = {Position(v, S) : v \in S}
           /\ \A v \in S : PowerMap(S)[Position(v, S)] = power[v]
           /\ \A i \in DOMAIN PowerMap(S) : PowerMap(S)[i] \in Powers
<1>1. \A v, w \in S : Position(v, S) = Position(w, S) => v = w
  BY Positions
<1>2. \A v \in S : (CHOOSE w \in S : Position(w, S) = Position(v, S)) = v
  BY <1>1
<1>3. DOMAIN PowerMap(S) = {Position(v, S) : v \in S}
  BY DEF PowerMap
<1>4. \A v \in S : PowerMap(S)[Position(v, S)] = power[v]
  BY <1>2 DEF PowerMap
<1> QED
  BY <1>3, <1>4 DEF IndexMap

\* The maps for S are sound.
LEMMA IndexSound ==
    ASSUME power \in [Validators -> Powers], NEW S \in SUBSET Validators
    PROVE  /\ \A v, w \in DOMAIN IndexMap(S) : v # w => IndexMap(S)[v] # IndexMap(S)[w]
           /\ {IndexMap(S)[v] : v \in DOMAIN IndexMap(S)} = DOMAIN PowerMap(S)
           /\ \A v \in DOMAIN IndexMap(S) : IndexMap(S)[v] \in Nat
           /\ DOMAIN IndexMap(S) \subseteq Validators
           /\ DOMAIN PowerMap(S) \subseteq Nat
<1>1. /\ DOMAIN IndexMap(S) = S
      /\ \A v \in S : IndexMap(S)[v] = Position(v, S)
      /\ DOMAIN PowerMap(S) = {Position(v, S) : v \in S}
  BY IndexMapProperties
<1>2. /\ \A v \in S : Position(v, S) \in Nat
      /\ \A v, w \in S : Position(v, S) = Position(w, S) => v = w
  BY Positions
<1> QED
  BY <1>1, <1>2

-----------------------------------------------------------------------------
\* Numbers have no infinite descent.
LEMMA Least ==
    ASSUME NEW S, S \subseteq Nat, S # {}
    PROVE  \E m \in S : \A k \in S : m <= k
<1> DEFINE R == {p \in Nat \X Nat : p[1] < p[2]}
<1>1. R = OpToRel(<, Nat)
  BY DEF OpToRel
<1>2. IsWellFoundedOn(R, Nat)
  BY <1>1, NatLessThanWellFounded
<1> HIDE DEF R
<1>3. PICK m \in S : \A k \in S : ~ (<<k, m>> \in R)
  BY <1>2, WFMin
<1>4. ASSUME NEW k \in S PROVE m <= k
  <2>1. k \in Nat /\ m \in Nat
    OBVIOUS
  <2>2. k < m => <<k, m>> \in R
    BY <2>1 DEF R
  <2> QED
    BY <1>3, <2>1, <2>2
<1> QED
  BY <1>4

\* The entries of the genesis file.
LEMMA GenesisEntries ==
    /\ DOMAIN GenesisIndices = 1 .. Len(GenesisIndices) /\ Len(GenesisIndices) \in Nat
    /\ \A k \in DOMAIN GenesisIndices :
          /\ GenesisIndices[k].address \in Validators
          /\ GenesisIndices[k].index \in Nat
          /\ GenesisIndices[k].power \in Powers
<1> DEFINE E == [address : Validators, index : Nat, power : Powers]
<1>1. GenesisIndices \in Seq(E)
  BY GenesisAssumption
<1>2. \A e \in E : e.address \in Validators /\ e.index \in Nat /\ e.power \in Powers
  OBVIOUS
<1> HIDE DEF E
<1>3. /\ DOMAIN GenesisIndices = 1 .. Len(GenesisIndices) /\ Len(GenesisIndices) \in Nat
      /\ \A k \in DOMAIN GenesisIndices : GenesisIndices[k] \in E
  BY <1>1
<1> QED
  BY <1>2, <1>3

\* What is stored of the genesis file: each of its validators with the
\* position of its entry, and for a position the power of some entry.
LEMMA GenesisProperties ==
    /\ GenesisMembers \subseteq Validators
    /\ DOMAIN GenesisIndex = GenesisMembers
    /\ \A v \in GenesisMembers : \E k \in DOMAIN GenesisIndices :
          GenesisIndices[k].address = v /\ GenesisIndex[v] = GenesisPosition(k)
    /\ \A k \in DOMAIN GenesisIndices :
          /\ GenesisPosition(k) \in Nat
          /\ GenesisIndices[k].address \in GenesisMembers
          /\ GenesisIndex[GenesisIndices[k].address] = GenesisPosition(k)
    /\ DOMAIN GenesisPower = {GenesisPosition(k) : k \in DOMAIN GenesisIndices}
    /\ \A i \in DOMAIN GenesisPower : \E k \in DOMAIN GenesisIndices :
          GenesisPosition(k) = i /\ GenesisPower[i] = GenesisIndices[k].power
<1> DEFINE D == DOMAIN GenesisIndices
<1>1. /\ \A k \in D : /\ GenesisIndices[k].address \in Validators
                       /\ GenesisIndices[k].index \in Nat
                       /\ GenesisIndices[k].power \in Powers
      /\ D = 1 .. Len(GenesisIndices) /\ Len(GenesisIndices) \in Nat
  BY GenesisEntries
<1>2. \A k \in D : GenesisPosition(k) \in Nat
  BY <1>1, NetworkAssumption DEF GenesisPosition
<1>3. ASSUME NEW k \in D
      PROVE  GenesisIndex[GenesisIndices[k].address] = GenesisPosition(k)
  <2>1. (CHOOSE j \in D : GenesisIndices[j].address = GenesisIndices[k].address) = k
    BY GenesisAssumption
  <2> QED
    BY <2>1 DEF GenesisIndex, GenesisMembers
<1>4. ASSUME NEW i \in DOMAIN GenesisPower
      PROVE  \E k \in D : GenesisPosition(k) = i /\ GenesisPower[i] = GenesisIndices[k].power
  <2> DEFINE S == {k \in D : GenesisPosition(k) = i}
             n == Len(GenesisIndices)
             T == {n - k : k \in S}
  <2>1. S # {} /\ S \subseteq 1 .. n
    BY <1>1 DEF GenesisPower
  <2>2. T # {} /\ T \subseteq Nat
    BY <1>1, <2>1
  <2>3. PICK x \in T : \A y \in T : x <= y
    BY <2>2, Least
  <2>5. PICK k \in S : x = n - k
    BY <2>3
  <2>6. ASSUME NEW j \in S PROVE k >= j
    <3>1. n - j \in T /\ n \in Nat /\ j \in Nat /\ k \in Nat
      BY <1>1, <2>1
    <3>2. n - k <= n - j
      BY <2>3, <2>5, <3>1
    <3> QED
      BY <3>1, <3>2
  <2>7. Max(S) \in S
    BY <2>6 DEF Max
  <2> HIDE DEF D
  <2>8. GenesisPower[i] = GenesisIndices[Max(S)].power
    BY DEF GenesisPower, D
  <2> QED
    BY <2>7, <2>8
<1>5. /\ GenesisMembers \subseteq Validators
      /\ DOMAIN GenesisIndex = GenesisMembers
      /\ DOMAIN GenesisPower = {GenesisPosition(k) : k \in D}
      /\ \A k \in D : GenesisIndices[k].address \in GenesisMembers
  BY <1>1 DEF GenesisMembers, GenesisIndex, GenesisPower
<1>6. ASSUME NEW v \in GenesisMembers
      PROVE  \E k \in D : GenesisIndices[k].address = v /\ GenesisIndex[v] = GenesisPosition(k)
  <2>1. PICK k \in D : GenesisIndices[k].address = v
    BY DEF GenesisMembers
  <2> QED
    BY <1>3, <2>1
<1> QED
  BY <1>2, <1>3, <1>4, <1>5, <1>6

\* The start state.
LEMMA InitInv == Init => Inv
<1> SUFFICES ASSUME Init PROVE Inv
  OBVIOUS
<1>1. power = InitPower /\ power \in [Validators -> Powers]
  BY NetworkAssumption DEF Init
<1>2. ValidatorIndex = GenesisIndex /\ ValidatorPower = GenesisPower
  BY DEF Init
<1>3. \A k \in DOMAIN GenesisIndices : GenesisIndices[k].power \in Powers
  BY GenesisEntries
<1>4. /\ DOMAIN ValidatorIndex = GenesisMembers /\ GenesisMembers \subseteq Validators
      /\ \A v \in GenesisMembers : ValidatorIndex[v] \in Nat
      /\ DOMAIN ValidatorPower \subseteq Nat
      /\ \A i \in DOMAIN ValidatorPower : ValidatorPower[i] \in Powers
  BY <1>2, <1>3, GenesisProperties
<1>5. {ValidatorIndex[v] : v \in DOMAIN ValidatorIndex} = DOMAIN ValidatorPower
  BY <1>2, GenesisProperties
<1>6. TypeOK
  <2>1. height \in Heights /\ params \in ParamChoices /\ bonded \subseteq Validators
    BY NetworkAssumption DEF Init, Heights
  <2>2. DOMAIN AttestationBitmap = {} /\ DOMAIN EpochBitmap = {} /\ Signatures = {}
        /\ DOMAIN StoredAttestationInfo = {} /\ AttesterSet = GenesisMembers
        /\ ahead = {}
    BY DEF Init
  <2>3. halted \in BOOLEAN
    BY DEF Init
  <2> QED
    BY <1>1, <1>4, <2>1, <2>2, <2>3 DEF TypeOK
<1>7. DOMAIN AttestationBitmap = {} /\ DOMAIN StoredAttestationInfo = {}
  BY DEF Init
<1> QED
  BY <1>2, <1>5, <1>6, <1>7 DEF Inv, IndexMapSound

\* The bitmap an attestation goes into.
LEMMA BitmapAtProperties ==
    ASSUME Inv, NEW h
    PROVE  /\ Bounded(BitmapAt(AttestationBitmap, h))
           /\ BitmapAt(EpochBitmap, h) \in Bitmaps
<1>1. Cardinality(bonded) \in Nat
  BY Positions DEF Inv, TypeOK
<1>2. Bounded(NewBitmap(Cardinality(bonded)))
  BY <1>1, NewBitmapProperties
<1> QED
  BY <1>2 DEF BitmapAt, Inv, TypeOK, IndexMapSound, Bounded

\* A bit is set inside the bitmap of its height.
LEMMA AttestInv ==
    ASSUME Inv, NEW v \in Validators, NEW h \in Heights, Attest(v, h)
    PROVE  Inv'
<1> USE DEF Inv
<1> DEFINE i == ValidatorIndex[v]
           e == GetCurrentEpoch
           b == SetBit(BitmapAt(AttestationBitmap, h), i)
           c == SetBit(BitmapAt(EpochBitmap, e), i)
<1>0. /\ AttestationBitmap' = Put(AttestationBitmap, h, b)
      /\ EpochBitmap' = Put(EpochBitmap, e, c)
      /\ v \in DOMAIN ValidatorIndex /\ i \in Nat
      /\ Signatures' = Signatures \cup {<<h, v>>}
      /\ UNCHANGED <<height, params, staking, index, AttesterSet,
                     StoredAttestationInfo, halted>>
      /\ ahead' \subseteq ahead \cup {h}
  BY DEF Attest, TypeOK
<1>1. Bounded(b) /\ c \in Bitmaps
  <2>1. Bounded(b)
    BY <1>0, BitmapAtProperties, SetBitProperties
  <2>2. BitmapAt(EpochBitmap, e) \in Bitmaps
    BY BitmapAtProperties
  <2> QED
    BY <1>0, <2>1, <2>2 DEF SetBit, Bitmaps
<1>2. e \in 0 .. MaxHeight
  <2>1. height \in 1 .. MaxHeight /\ params.epochLength \in Nat \ {0} /\ MaxHeight \in Nat
    BY NetworkAssumption DEF TypeOK, Heights
  <2>3. e \in 0 .. height
    BY <2>1, Quotient DEF GetCurrentEpoch
  <2> QED
    BY <2>1, <2>3
<1> HIDE DEF b, c, e, i
<1>3. /\ DOMAIN AttestationBitmap' = DOMAIN AttestationBitmap \cup {h}
      /\ AttestationBitmap'[h] = b
      /\ \A g \in DOMAIN AttestationBitmap \ {h} : AttestationBitmap'[g] = AttestationBitmap[g]
  BY <1>0 DEF Put
<1>4. /\ DOMAIN EpochBitmap' = DOMAIN EpochBitmap \cup {e}
      /\ EpochBitmap'[e] = c
      /\ \A g \in DOMAIN EpochBitmap \ {e} : EpochBitmap'[g] = EpochBitmap[g]
  BY <1>0 DEF Put
<1>5. TypeOK'
  BY <1>0, <1>1, <1>2, <1>3, <1>4 DEF TypeOK, staking, index, Bounded
<1>6. IndexMapSound'
  BY <1>0, <1>1, <1>3 DEF IndexMapSound, Bounded, index
<1> QED
  BY <1>0, <1>5, <1>6

\* EndBlocker: the map is rebuilt for the bonded validators, or stays.
LEMMA EndBlockerInv == Inv /\ EndBlocker => Inv'
<1> SUFFICES ASSUME Inv, EndBlocker PROVE Inv'
  OBVIOUS
<1> USE DEF Inv
<1>0. /\ height < MaxHeight
      /\ UNCHANGED <<params, staking, AttesterSet, attestations, ahead>>
  BY DEF EndBlocker
<1>1. CASE halted' = TRUE /\ UNCHANGED <<height, index, StoredAttestationInfo>>
  BY <1>0, <1>1 DEF TypeOK, IndexMapSound, staking, index, attestations
<1>2. CASE /\ StoredAttestationInfo' =
                IF CheckpointDue
                THEN Put(StoredAttestationInfo, height, CheckpointInfo)
                ELSE StoredAttestationInfo
           /\ IF EpochEnds THEN BuildValidatorIndexMap ELSE UNCHANGED index
           /\ height' = height + 1 /\ UNCHANGED halted
  <2>1. /\ DOMAIN StoredAttestationInfo' \subseteq Heights
        /\ \A h \in DOMAIN StoredAttestationInfo' : Bounded(StoredAttestationInfo'[h].bitmap)
    <3>1. CASE CheckpointDue
      <4> DEFINE ci == CheckpointInfo
      <4>1. ci.bitmap = AttestationBitmap[height] /\ height \in DOMAIN AttestationBitmap
        BY <3>1 DEF CheckpointInfo, CheckpointDue
      <4>2. Bounded(ci.bitmap)
        BY <4>1 DEF Bounded, TypeOK, IndexMapSound
      <4> HIDE DEF ci
      <4>3. /\ DOMAIN StoredAttestationInfo' = DOMAIN StoredAttestationInfo \cup {height}
            /\ StoredAttestationInfo'[height] = ci
            /\ \A g \in DOMAIN StoredAttestationInfo \ {height} :
                  StoredAttestationInfo'[g] = StoredAttestationInfo[g]
        BY <1>2, <3>1 DEF Put, ci
      <4> QED
        BY <4>2, <4>3 DEF TypeOK
    <3>2. CASE ~ CheckpointDue
      BY <1>2, <3>2 DEF TypeOK
    <3> QED
      BY <3>1, <3>2
  <2>2. /\ DOMAIN ValidatorIndex' \subseteq Validators
        /\ \A v \in DOMAIN ValidatorIndex' : ValidatorIndex'[v] \in Nat
        /\ DOMAIN ValidatorPower' \subseteq Nat
        /\ \A i \in DOMAIN ValidatorPower' : ValidatorPower'[i] \in Powers
        /\ \/ ValidatorIndex' = GenesisIndex
           \/ \A v, w \in DOMAIN ValidatorIndex' :
                 v # w => ValidatorIndex'[v] # ValidatorIndex'[w]
        /\ {ValidatorIndex'[v] : v \in DOMAIN ValidatorIndex'} = DOMAIN ValidatorPower'
    <3>1. CASE EpochEnds
      <4>1. ValidatorIndex' = IndexMap(bonded) /\ ValidatorPower' = PowerMap(bonded)
        BY <1>2, <3>1 DEF BuildValidatorIndexMap
      <4>2. bonded \in SUBSET Validators /\ power \in [Validators -> Powers]
        BY DEF TypeOK
      <4>3. \A i \in DOMAIN PowerMap(bonded) : PowerMap(bonded)[i] \in Powers
        BY <4>2, IndexMapProperties
      <4>4. /\ \A v, w \in DOMAIN IndexMap(bonded) :
                  v # w => IndexMap(bonded)[v] # IndexMap(bonded)[w]
            /\ {IndexMap(bonded)[v] : v \in DOMAIN IndexMap(bonded)} = DOMAIN PowerMap(bonded)
            /\ \A v \in DOMAIN IndexMap(bonded) : IndexMap(bonded)[v] \in Nat
            /\ DOMAIN IndexMap(bonded) \subseteq Validators
            /\ DOMAIN PowerMap(bonded) \subseteq Nat
        BY <4>2, IndexSound
      <4> QED
        BY <4>1, <4>3, <4>4, Zenon
    <3>2. CASE ~ EpochEnds
      BY <1>2, <3>2 DEF TypeOK, IndexMapSound, index
    <3> QED
      BY <3>1, <3>2
  <2>3. height' \in Heights
    BY <1>0, <1>2, NetworkAssumption DEF TypeOK, Heights
  <2>4. TypeOK'
    BY <1>0, <1>2, <2>1, <2>2, <2>3 DEF TypeOK, staking, attestations
  <2>5. IndexMapSound'
    BY <1>0, <2>2 DEF IndexMapSound, attestations
  <2> QED
    BY <2>1, <2>4, <2>5
<1> QED
  BY <1>1, <1>2 DEF EndBlocker

\* The other messages, the staking keeper and a restart.
LEMMA OtherInv ==
    ASSUME Inv,
           \/ \E v \in Movers : JoinAttesterSet(v) \/ LeaveAttesterSet(v) \/ ChangeStaking(v)
           \/ \E p \in ParamChoices : UpdateParams(p)
           \/ RestartFromGenesis
           \/ UNCHANGED vars
    PROVE  Inv'
<1> USE DEF Inv, staking, index, attestations
<1>0. Movers \subseteq Validators
  BY NetworkAssumption
<1>1. ASSUME NEW v \in Movers, JoinAttesterSet(v) \/ LeaveAttesterSet(v) PROVE Inv'
  BY <1>0, <1>1 DEF JoinAttesterSet, LeaveAttesterSet, TypeOK, IndexMapSound
<1>2. ASSUME NEW v \in Movers, ChangeStaking(v) PROVE Inv'
  <2>1. bonded' \subseteq Validators /\ power' \in [Validators -> Powers]
    BY <1>0, <1>2 DEF ChangeStaking, TypeOK
  <2> QED
    BY <1>2, <2>1 DEF ChangeStaking, TypeOK, IndexMapSound
<1>3. ASSUME NEW p \in ParamChoices, UpdateParams(p) PROVE Inv'
  BY <1>3 DEF UpdateParams, TypeOK, IndexMapSound
<1>4. CASE RestartFromGenesis
  <2>1. /\ AttesterSet' = DOMAIN ValidatorIndex
        /\ DOMAIN AttestationBitmap' = DOMAIN StoredAttestationInfo
        /\ \A h \in DOMAIN StoredAttestationInfo :
              AttestationBitmap'[h] = StoredAttestationInfo[h].bitmap
        /\ DOMAIN EpochBitmap' = {} /\ Signatures' = {} /\ ahead' = {}
        /\ UNCHANGED <<height, params, bonded, power, ValidatorIndex, ValidatorPower,
                       StoredAttestationInfo, halted>>
    BY <1>4 DEF RestartFromGenesis
  <2> QED
    BY <2>1 DEF TypeOK, IndexMapSound, Bounded
<1>5. CASE UNCHANGED vars
  BY <1>5 DEF vars, TypeOK, IndexMapSound
<1> QED
  BY <1>1, <1>2, <1>3, <1>4, <1>5

\* Every step keeps the types and the soundness of the map.
LEMMA NextInv == Inv /\ [Next]_vars => Inv'
BY AttestInv, EndBlockerInv, OtherInv DEF Next

\* The types and the soundness of the map hold in every reachable state.
THEOREM Invariance == Spec => []Inv
<1> QED
  BY InitInv, NextInv, PTL DEF Spec

\* The stores of the module keep their types: heights and epochs stay within
\* the blocks of the chain (keeper.go, msg_server.go, genesis.go).
THEOREM TypeCorrect == Spec => []TypeOK
<1>1. Inv => TypeOK
  BY DEF Inv
<1> QED
  BY <1>1, Invariance, PTL

\* Whatever validators and genesis files come along, the positions in use are
\* those with a power, no two validators share one after the first rebuild,
\* and bits lie inside their bitmaps (genesis.go, keeper.go, bitmap.go).
THEOREM IndexMapIsSound == Spec => []IndexMapSound
<1>1. Inv => IndexMapSound
  BY DEF Inv
<1> QED
  BY <1>1, Invariance, PTL

-----------------------------------------------------------------------------
(***************************************************************************)
(* When EndBlocker fails.                                                  *)
(***************************************************************************)
\* Bitmaps of later heights come from attestations ahead of time, and without
\* those the bits of the current height were set under the map of this block.
Present ==
    /\ HaltsOnlyIfAttestedAhead
    /\ \A h \in DOMAIN AttestationBitmap : h > height => h \in ahead
    /\ \A h \in DOMAIN StoredAttestationInfo : h < height
    /\ height \in DOMAIN AttestationBitmap /\ height \notin ahead
          => PowersKnown(AttestationBitmap[height])

\* Nothing is attested at first.
LEMMA PresentInit == Init => Present
<1> SUFFICES ASSUME Init PROVE Present
  OBVIOUS
<1>1. DOMAIN AttestationBitmap = {} /\ DOMAIN StoredAttestationInfo = {} /\ ~ halted
  BY DEF Init
<1> QED
  BY <1>1 DEF Present, HaltsOnlyIfAttestedAhead

\* An attestation ahead of time is recorded; one for the current height sets a
\* bit that has a power.
LEMMA PresentAttest ==
    ASSUME Inv, Present, NEW v \in Validators, NEW h \in Heights, Attest(v, h)
    PROVE  Present'
<1> USE DEF Inv
<1> DEFINE i == ValidatorIndex[v]
           b == BitmapAt(AttestationBitmap, h)
<1>1. /\ AttestationBitmap' = Put(AttestationBitmap, h, SetBit(b, i))
      /\ v \in DOMAIN ValidatorIndex /\ i \in Nat
      /\ ahead' = IF h > height THEN ahead \cup {h} ELSE ahead
      /\ UNCHANGED <<height, ValidatorPower, StoredAttestationInfo, halted>>
  BY DEF Attest, TypeOK, index
<1>2. i \in DOMAIN ValidatorPower
  BY <1>1 DEF IndexMapSound
<1>3. h = height /\ height \notin ahead => b.bits \subseteq DOMAIN ValidatorPower
  <2>1. CASE h \in DOMAIN AttestationBitmap
    BY <2>1 DEF BitmapAt, PowersKnown, Present
  <2>2. CASE h \notin DOMAIN AttestationBitmap
    <3>1. Cardinality(bonded) \in Nat
      BY Positions DEF TypeOK
    <3> QED
      BY <2>2, <3>1, NewBitmapProperties DEF BitmapAt
  <2> QED
    BY <2>1, <2>2
<1>4. Bounded(b)
  BY BitmapAtProperties
<1> HIDE DEF b, i
<1>5. SetBit(b, i).bits \subseteq b.bits \cup {i}
  BY <1>1, <1>4, SetBitProperties
<1>6. /\ DOMAIN AttestationBitmap' = DOMAIN AttestationBitmap \cup {h}
      /\ AttestationBitmap'[h] = SetBit(b, i)
      /\ \A g \in DOMAIN AttestationBitmap \ {h} :
            AttestationBitmap'[g] = AttestationBitmap[g]
  BY <1>1 DEF Put
<1>7. ahead \subseteq ahead'
  BY <1>1
<1>8. height' \in DOMAIN AttestationBitmap' /\ height' \notin ahead' =>
         AttestationBitmap'[height'].bits \subseteq DOMAIN ValidatorPower'
  BY <1>1, <1>2, <1>3, <1>5, <1>6, <1>7 DEF PowersKnown, Present
<1>9. \A g \in DOMAIN AttestationBitmap' : g > height' => g \in ahead'
  BY <1>1, <1>6 DEF Present
<1> QED
  BY <1>1, <1>7, <1>8, <1>9 DEF PowersKnown, Present, HaltsOnlyIfAttestedAhead

\* The map is only rebuilt when the height moves on.
LEMMA PresentNext ==
    ASSUME Inv, Present, [Next]_vars
    PROVE  Present'
<1> USE DEF Inv, Present, HaltsOnlyIfAttestedAhead, staking, index, attestations
<1>0. height \in Nat /\ height >= 1
  BY NetworkAssumption DEF TypeOK, Heights
<1>1. ASSUME NEW v \in Validators, NEW h \in Heights, Attest(v, h) PROVE Present'
  BY <1>1, PresentAttest
<1>2. CASE EndBlocker
  <2>0. UNCHANGED <<AttestationBitmap, ahead>>
    BY <1>2 DEF EndBlocker
  <2>1. CASE CheckpointFails /\ halted' = TRUE
             /\ UNCHANGED <<height, index, StoredAttestationInfo>>
    <3>1. height \in ahead
      BY <2>1 DEF CheckpointFails, CheckpointDue
    <3> QED
      BY <2>0, <2>1, <3>1 DEF PowersKnown
  <2>2. CASE ~ CheckpointFails /\ height' = height + 1 /\ UNCHANGED halted
    <3>1. DOMAIN StoredAttestationInfo' \subseteq DOMAIN StoredAttestationInfo \cup {height}
      BY <1>2, <2>2 DEF EndBlocker, Put
    <3>2. \A h \in DOMAIN AttestationBitmap : h \in Nat /\ (h > height => h \in ahead)
      BY DEF TypeOK, Heights
    <3>3. \A h \in DOMAIN StoredAttestationInfo' : h < height'
      <4>1. \A h \in DOMAIN StoredAttestationInfo : h \in Nat
        BY NetworkAssumption DEF TypeOK, Heights
      <4> QED
        BY <1>0, <2>2, <3>1, <4>1
    <3>4. ~ halted
      BY <1>2 DEF EndBlocker
    <3> QED
      BY <1>0, <2>0, <2>2, <3>2, <3>3, <3>4
  <2> QED
    BY <1>2, <2>1, <2>2 DEF EndBlocker
<1>3. ASSUME NEW v \in Movers, JoinAttesterSet(v) \/ LeaveAttesterSet(v) \/ ChangeStaking(v)
      PROVE  Present'
  BY <1>3 DEF JoinAttesterSet, LeaveAttesterSet, ChangeStaking, PowersKnown
<1>4. ASSUME NEW p \in ParamChoices, UpdateParams(p) PROVE Present'
  BY <1>4 DEF UpdateParams, PowersKnown
<1>5. CASE RestartFromGenesis
  <2>1. /\ DOMAIN AttestationBitmap' = DOMAIN StoredAttestationInfo
        /\ UNCHANGED <<height, StoredAttestationInfo, halted>> /\ ~ halted
    BY <1>5 DEF RestartFromGenesis
  <2>2. \A h \in DOMAIN StoredAttestationInfo : h \in Nat /\ ~ (h > height) /\ h # height
    BY <1>0 DEF TypeOK, Heights
  <2> QED
    BY <2>1, <2>2
<1>6. CASE UNCHANGED vars
  BY <1>6 DEF vars, PowersKnown
<1> QED
  BY <1>1, <1>2, <1>3, <1>4, <1>5, <1>6 DEF Next

\* Whatever staking does and whoever attests, EndBlocker fails at a height
\* only if somebody attested it ahead of time: for all other heights it finds
\* a power for every bit (abci.go, msg_server.go).
THEOREM HaltsNeedEarlyAttestation == Spec => []HaltsOnlyIfAttestedAhead
<1>1. Init => Inv /\ Present
  BY InitInv, PresentInit
<1>2. (Inv /\ Present) /\ [Next]_vars => (Inv /\ Present)'
  BY NextInv, PresentNext
<1>3. Inv /\ Present => HaltsOnlyIfAttestedAhead
  BY DEF Present
<1> QED
  BY <1>1, <1>2, <1>3, PTL DEF Spec

-----------------------------------------------------------------------------
(***************************************************************************)
(* One bit per signer.                                                     *)
(***************************************************************************)
\* The bonded validators stay as they are, and the genesis file gives its
\* members the positions they have among them, and their powers.
Fixed == /\ Env \cap {"staking", "genesis"} = {}
         /\ GenesisMembers \subseteq InitBonded
         /\ \A k \in DOMAIN GenesisIndices :
               LET v == GenesisIndices[k].address
               IN  /\ GenesisPosition(k) = Position(v, InitBonded)
                   /\ GenesisIndices[k].power = InitPower[v]

\* The bits of a height are the positions of its signers, and its bitmap has
\* room for all.
Static ==
    /\ bonded = InitBonded
    /\ DOMAIN ValidatorIndex \subseteq bonded
    /\ \A v \in DOMAIN ValidatorIndex : ValidatorIndex[v] = Position(v, bonded)
    /\ \A h \in Heights : Signers(h) \subseteq bonded
    /\ \A h \in Heights \ DOMAIN AttestationBitmap : Signers(h) = {}
    /\ \A h \in DOMAIN AttestationBitmap :
          /\ AttestationBitmap[h].size >= Cardinality(bonded)
          /\ AttestationBitmap[h].bits = {Position(v, bonded) : v \in Signers(h)}

\* The map of the genesis file has the positions of the bonded validators.
LEMMA StaticInit == Fixed /\ Init => Static
<1> SUFFICES ASSUME Fixed, Init PROVE Static
  OBVIOUS
<1>1. /\ bonded = InitBonded /\ DOMAIN AttestationBitmap = {} /\ Signatures = {}
      /\ ValidatorIndex = GenesisIndex
  BY DEF Init
<1>2. /\ DOMAIN ValidatorIndex = GenesisMembers
      /\ \A v \in GenesisMembers : ValidatorIndex[v] = Position(v, InitBonded)
  BY <1>1, GenesisProperties DEF Fixed
<1>3. \A h \in Heights : Signers(h) = {}
  BY <1>1 DEF Signers
<1> QED
  BY <1>1, <1>2, <1>3 DEF Static, Fixed

\* Steps that leave the bonded validators, the map and the attestations.
LEMMA StaticKept ==
    ASSUME Static, UNCHANGED <<bonded, ValidatorIndex, AttestationBitmap, Signatures>>
    PROVE  Static'
<1>1. \A h : Signers(h)' = Signers(h)
  BY DEF Signers
<1> QED
  BY <1>1 DEF Static

\* An attestation adds one bit and one signer.
LEMMA StaticAttest ==
    ASSUME Inv, Static, NEW v \in Validators, NEW h \in Heights, Attest(v, h)
    PROVE  Static'
<1> DEFINE i == ValidatorIndex[v]
           b == BitmapAt(AttestationBitmap, h)
<1>1. /\ AttestationBitmap' = Put(AttestationBitmap, h, SetBit(b, i))
      /\ v \in DOMAIN ValidatorIndex /\ i \in Nat
      /\ Signatures' = Signatures \cup {<<h, v>>}
      /\ UNCHANGED <<bonded, ValidatorIndex>>
  BY DEF Attest, Inv, TypeOK, staking, index
<1>2. v \in bonded /\ i = Position(v, bonded) /\ i < Cardinality(bonded)
      /\ Cardinality(bonded) \in Nat
  BY <1>1, Positions DEF Static, Inv, TypeOK
<1>3. Bounded(b) /\ b.size >= Cardinality(bonded)
      /\ b.bits = {Position(w, bonded) : w \in Signers(h)}
  <2>1. Bounded(b)
    BY BitmapAtProperties
  <2>2. CASE h \in DOMAIN AttestationBitmap
    BY <2>1, <2>2 DEF BitmapAt, Static
  <2>3. CASE h \notin DOMAIN AttestationBitmap
    BY <1>2, <2>1, <2>3, NewBitmapProperties DEF BitmapAt, Static
  <2> QED
    BY <2>2, <2>3
<1> HIDE DEF i, b
<1>4. /\ SetBit(b, i).size = b.size
      /\ SetBit(b, i).bits = b.bits \cup {i}
  <2>1. i < b.size
    <3>1. b.size \in Nat
      BY <1>3 DEF Bounded, Bitmaps
    <3> QED
      BY <1>1, <1>2, <1>3, <3>1
  <2> QED
    BY <1>1, <1>3, <2>1, SetBitProperties
<1>5. /\ Signers(h)' = Signers(h) \cup {v}
      /\ \A g \in Heights \ {h} : Signers(g)' = Signers(g)
  BY <1>1 DEF Signers
<1>6. /\ DOMAIN AttestationBitmap' = DOMAIN AttestationBitmap \cup {h}
      /\ AttestationBitmap'[h] = SetBit(b, i)
      /\ \A g \in DOMAIN AttestationBitmap \ {h} :
            AttestationBitmap'[g] = AttestationBitmap[g]
  BY <1>1 DEF Put
<1>7. AttestationBitmap'[h].bits = {Position(w, bonded) : w \in Signers(h)'}
  BY <1>2, <1>3, <1>4, <1>5, <1>6
<1>8. ASSUME NEW g \in DOMAIN AttestationBitmap'
      PROVE  /\ AttestationBitmap'[g].size >= Cardinality(bonded)
             /\ AttestationBitmap'[g].bits = {Position(w, bonded) : w \in Signers(g)'}
  <2>1. CASE g = h
    BY <1>3, <1>4, <1>6, <1>7, <2>1
  <2>2. CASE g # h
    <3>1. g \in DOMAIN AttestationBitmap /\ g \in Heights
      BY <1>6, <2>2 DEF Inv, TypeOK
    <3> QED
      BY <1>5, <1>6, <2>2, <3>1 DEF Static
  <2> QED
    BY <2>1, <2>2
<1>9. /\ \A g \in Heights : Signers(g)' \subseteq bonded
      /\ \A g \in Heights \ DOMAIN AttestationBitmap' : Signers(g)' = {}
  BY <1>2, <1>5, <1>6 DEF Static
<1> QED
  BY <1>1, <1>8, <1>9 DEF Static

\* Every step keeps the bits the positions of the signers.
LEMMA StaticNext ==
    ASSUME Fixed, Inv, Static, [Next]_vars
    PROVE  Static'
<1> USE DEF staking, index, attestations
<1>1. ASSUME NEW v \in Validators, NEW h \in Heights, Attest(v, h) PROVE Static'
  BY <1>1, StaticAttest
<1>2. CASE EndBlocker
  <2>1. UNCHANGED <<bonded, AttestationBitmap, Signatures>>
    BY <1>2 DEF EndBlocker
  <2>2. CASE UNCHANGED ValidatorIndex
    BY <2>1, <2>2, StaticKept
  <2>3. CASE ValidatorIndex' = IndexMap(bonded)
    <3>1. /\ DOMAIN ValidatorIndex' = bonded
          /\ \A v \in bonded : ValidatorIndex'[v] = Position(v, bonded)
      BY <2>3 DEF IndexMap
    <3>2. \A h : Signers(h)' = Signers(h)
      BY <2>1 DEF Signers
    <3> QED
      BY <2>1, <3>1, <3>2 DEF Static
  <2> QED
    BY <1>2, <2>2, <2>3 DEF EndBlocker, BuildValidatorIndexMap
<1>3. ASSUME NEW v \in Movers, JoinAttesterSet(v) \/ LeaveAttesterSet(v) PROVE Static'
  BY <1>3, StaticKept DEF JoinAttesterSet, LeaveAttesterSet
<1>4. ASSUME NEW p \in ParamChoices, UpdateParams(p) PROVE Static'
  BY <1>4, StaticKept DEF UpdateParams
<1>5. /\ \A v \in Movers : ~ ChangeStaking(v)
      /\ ~ RestartFromGenesis
  BY DEF Fixed, ChangeStaking, RestartFromGenesis
<1>6. CASE UNCHANGED vars
  BY <1>6, StaticKept DEF vars
<1> QED
  BY <1>1, <1>2, <1>3, <1>4, <1>5, <1>6 DEF Next

\* Different signers have different positions, so there are as many bits as
\* signers.
LEMMA BitsCount == Inv /\ Static => OneBitPerSigner
<1> SUFFICES ASSUME Inv, Static, NEW h \in DOMAIN AttestationBitmap
             PROVE  Cardinality(AttestationBitmap[h].bits) = Cardinality(Signers(h))
  BY DEF OneBitPerSigner
<1> DEFINE S == Signers(h)
           T == AttestationBitmap[h].bits
           f == [v \in S |-> Position(v, bonded)]
<1>1. h \in Heights /\ S \subseteq bonded /\ bonded \in SUBSET Validators
  BY DEF Inv, TypeOK, Static
<1>2. T = {Position(v, bonded) : v \in S}
  BY DEF Static
<1>3. IsFiniteSet(S)
  BY <1>1, Positions, FS_Subset
<1>4. \A v, w \in S : Position(v, bonded) = Position(w, bonded) => v = w
  BY <1>1, Positions
<1> HIDE DEF S, T
<1>5. f \in [S -> T] /\ (\A a, b \in S : f[a] = f[b] => a = b) /\ \A t \in T : \E v \in S : f[v] = t
  BY <1>2, <1>4
<1>6. f \in Bijection(S, T)
  BY <1>5 DEF Bijection, Injection, Surjection, IsInjective
<1>7. ExistsBijection(S, T)
  BY <1>6 DEF ExistsBijection
<1>8. Cardinality(T) = Cardinality(S)
  BY <1>3, <1>7, FS_Bijection
<1> QED
  BY <1>8 DEF S, T

\* As long as the bonded validators do not change, no validator is counted
\* twice and none is forgotten, through joins, leaves, rebuilds of the map,
\* attestations ahead of time and changes of the epoch length
\* (msg_server.go, keeper.go).
THEOREM SignersCountedOnce == Fixed => (Spec => []OneBitPerSigner)
<1> SUFFICES ASSUME Fixed PROVE Spec => []OneBitPerSigner
  OBVIOUS
<1>1. Init => Inv /\ Static
  BY InitInv, StaticInit
<1>2. (Inv /\ Static) /\ [Next]_vars => (Inv /\ Static)'
  BY NextInv, StaticNext
<1> QED
  BY <1>1, <1>2, BitsCount, PTL DEF Spec
-----------------------------------------------------------------------------
(***************************************************************************)
(* Sums.  Sum folds a recursive function over the subsets of a set; the    *)
(* lemmas show that the function exists, that a sum does not depend on the *)
(* order in which it takes the elements, and what that makes of it.  The   *)
(* induction is over the number of elements: were there a counterexample,  *)
(* there would be a smallest one.                                          *)
(***************************************************************************)
\* The element a sum over s takes first.
First(s) == CHOOSE x \in s : TRUE

\* g gives the sum of f over each subset of S.
Sums(f, S, g) ==
    g = [s \in SUBSET S |-> IF s = {} THEN 0 ELSE f[First(s)] + g[s \ {First(s)}]]

\* Sum is the value of such a function.
LEMMA SumComputes ==
    ASSUME NEW f, NEW S
    PROVE  Sum(f, S) = (CHOOSE g : Sums(f, S, g))[S]
BY DEF Sum, MapThenSumSet, MapThenFoldSet, Sums, First

\* The first element of a set is one of it.
LEMMA FirstIn == \A s : s # {} => First(s) \in s
BY DEF First

\* Taking an element out of a finite set makes it smaller by one.
LEMMA Smaller ==
    ASSUME NEW S, IsFiniteSet(S), NEW x \in S
    PROVE  /\ IsFiniteSet(S \ {x})
           /\ Cardinality(S \ {x}) \in Nat /\ Cardinality(S) \in Nat
           /\ Cardinality(S) = Cardinality(S \ {x}) + 1
<1>1. /\ IsFiniteSet(S \ {x})
      /\ Cardinality(S \ {x}) = Cardinality(S) - 1
      /\ Cardinality(S) \in Nat
  BY FS_RemoveElement, FS_CardinalityType
<1>2. Cardinality(S \ {x}) \in Nat
  BY <1>1, FS_CardinalityType
<1> QED
  BY <1>1, <1>2

\* g gives the sums over the subsets of S with at most n elements.
SumsUpTo(f, S, g, n) ==
    g = [s \in SUBSET S |->
            IF Cardinality(s) > n \/ s = {} THEN 0
            ELSE f[First(s)] + g[s \ {First(s)}]]

\* There are sums over the subsets of a finite set.
LEMMA SumsExist ==
    ASSUME NEW f, NEW S, IsFiniteSet(S)
    PROVE  \E g : Sums(f, S, g)
<1> DEFINE Missing == {n \in Nat : ~ \E g : SumsUpTo(f, S, g, n)}
<1>0. \A s \in SUBSET S : /\ IsFiniteSet(s) /\ Cardinality(s) \in Nat
                          /\ Cardinality(s) <= Cardinality(S)
  BY FS_Subset, FS_CardinalityType
<1>1. CASE Missing # {}
  <2> HIDE DEF Missing
  <2>1. PICK m \in Missing : \A k \in Missing : m <= k
    <3>1. Missing \subseteq Nat
      BY DEF Missing
    <3> QED
      BY <1>1, <3>1, Least
  <2>2. m \in Nat /\ ~ \E g : SumsUpTo(f, S, g, m)
    BY <2>1 DEF Missing
  <2>3. m # 0
    <3> DEFINE z == [s \in SUBSET S |-> 0]
    <3>1. \A s \in SUBSET S : Cardinality(s) > 0 \/ s = {}
      BY <1>0, FS_EmptySet
    <3>2. SumsUpTo(f, S, z, 0)
      BY <3>1 DEF SumsUpTo
    <3> QED
      BY <2>2, <3>2
  <2>4. m - 1 \in Nat /\ ~ (m <= m - 1)
    BY <2>2, <2>3
  <2>5. m - 1 \notin Missing
    BY <2>1, <2>4
  <2>6. PICK g : SumsUpTo(f, S, g, m - 1)
    BY <2>4, <2>5 DEF Missing
  <2> DEFINE h == [s \in SUBSET S |->
                      IF Cardinality(s) > m \/ s = {} THEN 0
                      ELSE f[First(s)] + g[s \ {First(s)}]]
  <2>7. ASSUME NEW t \in SUBSET S, Cardinality(t) <= m - 1
        PROVE  h[t] = g[t]
    <3>1. ~ (Cardinality(t) > m) /\ ~ (Cardinality(t) > m - 1)
      BY <1>0, <2>2, <2>4, <2>7
    <3>2. h[t] = IF t = {} THEN 0 ELSE f[First(t)] + g[t \ {First(t)}]
      BY <3>1
    <3>3. g[t] = IF t = {} THEN 0 ELSE f[First(t)] + g[t \ {First(t)}]
      BY <2>6, <3>1 DEF SumsUpTo
    <3> QED
      BY <3>2, <3>3
  <2>8. ASSUME NEW s \in SUBSET S, ~ (Cardinality(s) > m), s # {}
        PROVE  h[s \ {First(s)}] = g[s \ {First(s)}]
    <3> DEFINE t == s \ {First(s)}
    <3>1. First(s) \in s /\ t \in SUBSET S
      BY <2>8, FirstIn
    <3>2. Cardinality(s) = Cardinality(t) + 1 /\ Cardinality(t) \in Nat
      BY <1>0, <3>1, Smaller
    <3>3. Cardinality(t) <= m - 1
      BY <2>2, <2>8, <3>2
    <3> QED
      BY <2>7, <3>1, <3>3
  <2>9. SumsUpTo(f, S, h, m)
    <3>1. h = [s \in SUBSET S |->
                  IF Cardinality(s) > m \/ s = {} THEN 0
                  ELSE f[First(s)] + h[s \ {First(s)}]]
      BY <2>8
    <3> QED
      BY <3>1 DEF SumsUpTo
  <2> QED
    BY <2>2, <2>9
<1>2. CASE Missing = {}
  <2>1. Cardinality(S) \in Nat
    BY <1>0
  <2>2. PICK g : SumsUpTo(f, S, g, Cardinality(S))
    BY <1>2, <2>1
  <2>3. \A s \in SUBSET S : ~ (Cardinality(s) > Cardinality(S))
    BY <1>0, <2>1
  <2>4. Sums(f, S, g)
    BY <2>2, <2>3 DEF SumsUpTo, Sums
  <2> QED
    BY <2>4
<1> QED
  BY <1>1, <1>2

\* Sums over the subsets of T do not depend on the set T lies in.
LEMMA SumsAgree ==
    ASSUME NEW f, NEW S, IsFiniteSet(S), NEW T \in SUBSET S,
           NEW g, Sums(f, S, g), NEW h, Sums(f, T, h)
    PROVE  \A s \in SUBSET T : g[s] = h[s]
<1> DEFINE Bad == {n \in Nat : \E s \in SUBSET T : Cardinality(s) = n /\ g[s] # h[s]}
<1>0. \A s \in SUBSET T : IsFiniteSet(s) /\ Cardinality(s) \in Nat
  BY FS_Subset, FS_CardinalityType
<1>1. CASE Bad # {}
  <2> HIDE DEF Bad
  <2>1. PICK m \in Bad : \A k \in Bad : m <= k
    <3>1. Bad \subseteq Nat
      BY DEF Bad
    <3> QED
      BY <1>1, <3>1, Least
  <2>2. PICK s \in SUBSET T : Cardinality(s) = m /\ g[s] # h[s]
    BY <2>1 DEF Bad
  <2>3. /\ g[s] = IF s = {} THEN 0 ELSE f[First(s)] + g[s \ {First(s)}]
        /\ h[s] = IF s = {} THEN 0 ELSE f[First(s)] + h[s \ {First(s)}]
    BY DEF Sums
  <2>4. s # {} /\ g[s \ {First(s)}] # h[s \ {First(s)}]
    BY <2>2, <2>3
  <2> DEFINE t == s \ {First(s)}
  <2>5. First(s) \in s /\ t \in SUBSET T
    BY <2>4, FirstIn
  <2>6. Cardinality(s) = Cardinality(t) + 1 /\ Cardinality(t) \in Nat
    BY <1>0, <2>5, Smaller
  <2>7. Cardinality(t) \in Bad
    BY <2>4, <2>5, <2>6 DEF Bad
  <2>8. m <= Cardinality(t)
    BY <2>1, <2>7
  <2> QED
    BY <2>2, <2>6, <2>8
<1>2. CASE Bad = {}
  BY <1>0, <1>2
<1> QED
  BY <1>1, <1>2

\* A sum is its first term and the sum of the others.
LEMMA SumUnfolds ==
    ASSUME NEW f, NEW S, IsFiniteSet(S)
    PROVE  Sum(f, S) = IF S = {} THEN 0
                       ELSE f[First(S)] + Sum(f, S \ {First(S)})
<1> DEFINE T == S \ {First(S)}
           g == CHOOSE g : Sums(f, S, g)
           h == CHOOSE h : Sums(f, T, h)
<1>1. IsFiniteSet(T)
  BY FS_Subset
<1>2. Sums(f, S, g) /\ Sums(f, T, h)
  BY <1>1, SumsExist
<1>3. Sum(f, S) = g[S] /\ Sum(f, T) = h[T]
  BY SumComputes
<1> HIDE DEF g, h
<1>4. g[T] = h[T]
  BY <1>2, SumsAgree
<1>5. g[S] = IF S = {} THEN 0 ELSE f[First(S)] + g[T]
  BY <1>2 DEF Sums
<1> QED
  BY <1>3, <1>4, <1>5

\* The terms are numbers.
Numbers(f, S) == \A x \in S : f[x] \in Nat

\* A sum of numbers is a number.
LEMMA SumIsNat ==
    ASSUME NEW f, NEW S, IsFiniteSet(S), Numbers(f, S)
    PROVE  Sum(f, S) \in Nat
<1> DEFINE Bad == {n \in Nat : \E s \in SUBSET S : Cardinality(s) = n /\ Sum(f, s) \notin Nat}
<1>0. \A s \in SUBSET S : IsFiniteSet(s) /\ Cardinality(s) \in Nat
  BY FS_Subset, FS_CardinalityType
<1>1. CASE Bad # {}
  <2> HIDE DEF Bad
  <2>1. PICK m \in Bad : \A k \in Bad : m <= k
    <3>1. Bad \subseteq Nat
      BY DEF Bad
    <3> QED
      BY <1>1, <3>1, Least
  <2>2. PICK s \in SUBSET S : Cardinality(s) = m /\ Sum(f, s) \notin Nat
    BY <2>1 DEF Bad
  <2> DEFINE t == s \ {First(s)}
  <2>3. Sum(f, s) = IF s = {} THEN 0 ELSE f[First(s)] + Sum(f, t)
    BY <1>0, SumUnfolds
  <2>4. s # {}
    BY <2>2, <2>3
  <2>5. First(s) \in s /\ t \in SUBSET S /\ f[First(s)] \in Nat
    BY <2>4, FirstIn DEF Numbers
  <2>6. Cardinality(s) = Cardinality(t) + 1 /\ Cardinality(t) \in Nat
    BY <1>0, <2>5, Smaller
  <2> HIDE DEF t
  <2>7. ~ (m <= Cardinality(t))
    BY <2>2, <2>6
  <2>8. Cardinality(t) \notin Bad
    BY <2>1, <2>7
  <2>9. Sum(f, t) \in Nat
    BY <2>5, <2>6, <2>8 DEF Bad
  <2> QED
    BY <2>2, <2>3, <2>4, <2>5, <2>9
<1>2. CASE Bad = {}
  BY <1>0, <1>2
<1> QED
  BY <1>1, <1>2

\* Any term can be taken out of a sum first.
LEMMA SumTakesOut ==
    ASSUME NEW f, NEW S, IsFiniteSet(S), Numbers(f, S)
    PROVE  \A x \in S : Sum(f, S) = f[x] + Sum(f, S \ {x})
<1> DEFINE Bad == {n \in Nat : \E s \in SUBSET S :
                      /\ Cardinality(s) = n
                      /\ \E x \in s : Sum(f, s) # f[x] + Sum(f, s \ {x})}
<1>0. \A s \in SUBSET S : IsFiniteSet(s) /\ Cardinality(s) \in Nat
  BY FS_Subset, FS_CardinalityType
<1>1. CASE Bad # {}
  <2> HIDE DEF Bad
  <2>1. PICK m \in Bad : \A k \in Bad : m <= k
    <3>1. Bad \subseteq Nat
      BY DEF Bad
    <3> QED
      BY <1>1, <3>1, Least
  <2>2. PICK s \in SUBSET S : /\ Cardinality(s) = m
                              /\ \E x \in s : Sum(f, s) # f[x] + Sum(f, s \ {x})
    BY <2>1 DEF Bad
  <2>3. PICK x \in s : Sum(f, s) # f[x] + Sum(f, s \ {x})
    BY <2>2
  <2>4. PICK p : p = First(s)
    OBVIOUS
  <2>5. p \in s /\ Sum(f, s) = f[p] + Sum(f, s \ {p})
    BY <1>0, <2>3, <2>4, SumUnfolds, FirstIn
  <2>6. p # x /\ x \in s \ {p} /\ p \in s \ {x}
    BY <2>3, <2>5
  <2>7. ASSUME NEW y \in s
        PROVE  \A z \in s \ {y} :
                  Sum(f, s \ {y}) = f[z] + Sum(f, (s \ {y}) \ {z})
    <3>1. Cardinality(s) = Cardinality(s \ {y}) + 1 /\ Cardinality(s \ {y}) \in Nat
      BY <1>0, Smaller
    <3>2. ~ (m <= Cardinality(s \ {y}))
      BY <2>2, <3>1
    <3>3. Cardinality(s \ {y}) \notin Bad /\ s \ {y} \in SUBSET S
      BY <2>1, <3>2
    <3> QED
      BY <3>1, <3>3 DEF Bad
  <2>8. /\ Sum(f, s \ {p}) = f[x] + Sum(f, (s \ {p}) \ {x})
        /\ Sum(f, s \ {x}) = f[p] + Sum(f, (s \ {x}) \ {p})
    BY <2>5, <2>6, <2>7
  <2>9. PICK r \in SUBSET S : r = (s \ {p}) \ {x} /\ r = (s \ {x}) \ {p}
    <3>1. (s \ {p}) \ {x} = (s \ {x}) \ {p}
      OBVIOUS
    <3> QED
      BY <3>1
  <2>10. f[x] \in Nat /\ f[p] \in Nat /\ Sum(f, r) \in Nat
    <3>1. x \in S /\ p \in S /\ Numbers(f, r)
      BY <2>5 DEF Numbers
    <3> QED
      BY <1>0, <3>1, SumIsNat DEF Numbers
  <2>11. /\ Sum(f, s) = f[p] + (f[x] + Sum(f, r))
         /\ f[x] + Sum(f, s \ {x}) = f[x] + (f[p] + Sum(f, r))
    BY <2>5, <2>8, <2>9
  <2>12. f[p] + (f[x] + Sum(f, r)) = f[x] + (f[p] + Sum(f, r))
    BY <2>10
  <2> QED
    BY <2>3, <2>11, <2>12
<1>2. CASE Bad = {}
  <2>1. Cardinality(S) \in Nat /\ S \in SUBSET S
    BY <1>0
  <2>2. Cardinality(S) \notin Bad
    BY <1>2
  <2> HIDE DEF Bad
  <2>3. ASSUME NEW x \in S, Sum(f, S) # f[x] + Sum(f, S \ {x}) PROVE FALSE
    <3>1. Cardinality(S) \in Bad
      BY <2>1, <2>3 DEF Bad
    <3> QED
      BY <2>2, <3>1
  <2> QED
    BY <2>3
<1> QED
  BY <1>1, <1>2

\* One term more makes a sum no smaller.
LEMMA SumGrows ==
    ASSUME NEW f, NEW S, IsFiniteSet(S), NEW x, Numbers(f, S \cup {x})
    PROVE  Sum(f, S \cup {x}) >= Sum(f, S)
<1>1. CASE x \in S
  <2>1. S \cup {x} = S /\ Sum(f, S) \in Nat
    BY <1>1, SumIsNat DEF Numbers
  <2> QED
    BY <2>1
<1>2. CASE x \notin S
  <2> DEFINE T == S \cup {x}
  <2>1. IsFiniteSet(T) /\ x \in T /\ T \ {x} = S /\ Numbers(f, S)
    BY <1>2, FS_AddElement DEF Numbers
  <2>2. Sum(f, T) = f[x] + Sum(f, S)
    BY <2>1, SumTakesOut
  <2>3. f[x] \in Nat /\ Sum(f, S) \in Nat
    BY <2>1, SumIsNat DEF Numbers
  <2> QED
    BY <2>2, <2>3
<1> QED
  BY <1>1, <1>2

\* k over T has the values of f over S, along the one-to-one map b.
Renames(b, S, f, T, k) ==
    /\ T = {b[v] : v \in S}
    /\ \A v \in S : k[b[v]] = f[v]
    /\ \A v, w \in S : b[v] = b[w] => v = w

\* Renaming the terms does not change a sum.
LEMMA SumRenames ==
    ASSUME NEW b, NEW S, NEW f, NEW T, NEW k, IsFiniteSet(S), Numbers(f, S),
           Renames(b, S, f, T, k)
    PROVE  Sum(k, T) = Sum(f, S)
<1> DEFINE Image(s) == {b[v] : v \in s}
           Bad == {n \in Nat : \E s \in SUBSET S :
                      Cardinality(s) = n /\ Sum(k, Image(s)) # Sum(f, s)}
<1>0. \A s \in SUBSET S : /\ IsFiniteSet(s) /\ Cardinality(s) \in Nat
                          /\ IsFiniteSet(Image(s))
  <2>1. ASSUME NEW s \in SUBSET S PROVE IsFiniteSet(Image(s))
    <3>1. IsFiniteSet(s)
      BY FS_Subset
    <3> DEFINE c == [v \in s |-> b[v]]
    <3>2. c \in Surjection(s, Image(s))
      BY DEF Surjection
    <3> QED
      BY <3>1, <3>2, FS_Surjection
  <2> QED
    BY <2>1, FS_Subset, FS_CardinalityType
<1>1. CASE Bad # {}
  <2> HIDE DEF Bad
  <2>1. PICK m \in Bad : \A n \in Bad : m <= n
    <3>1. Bad \subseteq Nat
      BY DEF Bad
    <3> QED
      BY <1>1, <3>1, Least
  <2>2. PICK s \in SUBSET S : Cardinality(s) = m /\ Sum(k, Image(s)) # Sum(f, s)
    BY <2>1 DEF Bad
  <2>3. s # {}
    <3>1. SUFFICES ASSUME s = {} PROVE FALSE
      OBVIOUS
    <3>2. Image(s) = {} /\ IsFiniteSet({})
      BY <1>0, <3>1
    <3>3. Sum(k, {}) = 0 /\ Sum(f, {}) = 0
      BY <3>2, SumUnfolds
    <3> QED
      BY <2>2, <3>1, <3>2, <3>3
  <2>4. PICK x \in s : TRUE
    BY <2>3
  <2> DEFINE t == s \ {x}
  <2>5. Image(s) \ {b[x]} = Image(t) /\ b[x] \in Image(s) /\ k[b[x]] = f[x]
    BY DEF Renames
  <2>6. Numbers(k, Image(s)) /\ Numbers(f, s)
    BY DEF Renames, Numbers
  <2>7. Sum(k, Image(s)) = k[b[x]] + Sum(k, Image(s) \ {b[x]})
    BY <1>0, <2>5, <2>6, SumTakesOut
  <2>8. Sum(f, s) = f[x] + Sum(f, t)
    BY <1>0, <2>6, SumTakesOut
  <2>9. Cardinality(s) = Cardinality(t) + 1 /\ Cardinality(t) \in Nat
    BY <1>0, Smaller
  <2>10. ~ (m <= Cardinality(t))
    BY <2>2, <2>9
  <2>11. Cardinality(t) \notin Bad /\ t \in SUBSET S
    BY <2>1, <2>10
  <2>12. Sum(k, Image(t)) = Sum(f, t)
    BY <2>9, <2>11 DEF Bad
  <2> QED
    BY <2>2, <2>5, <2>7, <2>8, <2>12
<1>2. CASE Bad = {}
  <2>1. Cardinality(S) \in Nat /\ T = Image(S)
    BY <1>0 DEF Renames
  <2> QED
    BY <1>2, <2>1
<1> QED
  BY <1>1, <1>2

-----------------------------------------------------------------------------
(***************************************************************************)
(* The quorum, an integer quotient.                                        *)
(***************************************************************************)
\* A common factor can be cancelled.
LEMMA TimesMonotone ==
    ASSUME NEW x \in Int, NEW y \in Int, NEW d \in Nat \ {0}
    PROVE  x * d <= y * d <=> x <= y
OBVIOUS

\* The quotient is what it is by its bounds.
LEMMA QuotientBounds ==
    ASSUME NEW x \in Nat, NEW b \in Nat \ {0}
    PROVE  LET q == x \div b IN q \in Nat /\ q * b <= x /\ x < (q + 1) * b
OBVIOUS

\* Nothing else has these bounds.
LEMMA QuotientUnique ==
    ASSUME NEW x \in Nat, NEW b \in Nat \ {0}, NEW q \in Nat,
           q * b <= x, x < (q + 1) * b
    PROVE  x \div b = q
<1>1. PICK r \in Nat : r = x \div b
  BY QuotientBounds
<1>2. r * b <= x /\ x < (r + 1) * b
  BY <1>1, QuotientBounds
<1>3. r * b \in Int /\ q * b \in Int /\ (r + 1) * b \in Int /\ (q + 1) * b \in Int
  OBVIOUS
<1>4. r * b < (q + 1) * b /\ q * b < (r + 1) * b
  BY <1>2, <1>3
<1>5. r < q + 1 /\ q < r + 1
  <2>1. ~ ((q + 1) * b <= r * b) /\ ~ ((r + 1) * b <= q * b)
    BY <1>3, <1>4
  <2>2. ~ (q + 1 <= r) /\ ~ (r + 1 <= q)
    <3>1. q + 1 \in Int /\ r + 1 \in Int /\ r \in Int /\ q \in Int
      OBVIOUS
    <3> QED
      BY <2>1, <3>1, TimesMonotone
  <2> QED
    BY <2>2
<1> QED
  BY <1>1, <1>5

\* Equal shares c/d = a/b of a total are rounded to the same number.
LEMMA SameShare ==
    ASSUME NEW t \in Nat, NEW a \in Nat, NEW b \in Nat \ {0},
           NEW c \in Nat, NEW d \in Nat \ {0}, c * b = a * d
    PROVE  (t * a) \div b = (t * c) \div d
<1>1. PICK q \in Nat : q = (t * a) \div b
  BY QuotientBounds
<1>2. q * b <= t * a /\ t * a < (q + 1) * b
  BY <1>1, QuotientBounds
<1>3. (t * a) * d = (t * c) * b
  BY SMTT(30)
<1>4. /\ (q * b) * d = (q * d) * b
      /\ ((q + 1) * b) * d = ((q + 1) * d) * b
  BY SMTT(30)
<1>5. /\ q * b \in Int /\ t * a \in Int /\ (q + 1) * b \in Int
      /\ q * d \in Int /\ t * c \in Nat /\ (q + 1) * d \in Int
  OBVIOUS
<1>6. (q * b) * d <= (t * a) * d /\ ~ ((q + 1) * b) * d <= (t * a) * d
  <2>1. ~ ((q + 1) * b <= t * a)
    BY <1>2, <1>5
  <2> QED
    BY <1>2, <1>5, <2>1, TimesMonotone
<1>7. (q * d) * b <= (t * c) * b /\ ~ ((q + 1) * d) * b <= (t * c) * b
  BY <1>3, <1>4, <1>6
<1>8. q * d <= t * c /\ ~ ((q + 1) * d <= t * c)
  BY <1>5, <1>7, TimesMonotone
<1>9. t * c < (q + 1) * d
  BY <1>5, <1>8
<1> QED
  BY <1>1, <1>5, <1>8, <1>9, QuotientUnique

-----------------------------------------------------------------------------
(***************************************************************************)
(* Soft confirmation.                                                      *)
(***************************************************************************)
\* The powers stay as they were, and the power found at the position of a
\* bonded validator is its own.
Weighed ==
    /\ power = InitPower
    /\ \A v \in bonded :
          Position(v, bonded) \in DOMAIN ValidatorPower
             => ValidatorPower[Position(v, bonded)] = power[v]

\* The genesis file gives validators the positions they have among the bonded.
LEMMA WeighedInit == Fixed /\ Init => Weighed
<1> SUFFICES ASSUME Fixed, Init PROVE Weighed
  OBVIOUS
<1>1. /\ bonded = InitBonded /\ power = InitPower
      /\ ValidatorPower = GenesisPower
  BY DEF Init
<1>2. /\ power \in [Validators -> Powers] /\ bonded \in SUBSET Validators
  BY <1>1, NetworkAssumption
<1>4. ASSUME NEW v \in bonded, Position(v, bonded) \in DOMAIN ValidatorPower
      PROVE  ValidatorPower[Position(v, bonded)] = power[v]
  <2>1. PICK k \in DOMAIN GenesisIndices :
           /\ GenesisPosition(k) = Position(v, bonded)
           /\ ValidatorPower[Position(v, bonded)] = GenesisIndices[k].power
    BY <1>1, <1>4, GenesisProperties
  <2> DEFINE w == GenesisIndices[k].address
  <2>2. /\ w \in bonded /\ Position(w, bonded) = Position(v, bonded)
        /\ GenesisIndices[k].power = power[w]
    BY <1>1, <2>1, GenesisProperties DEF Fixed
  <2>3. w = v
    BY <1>2, <2>2, Positions
  <2> QED
    BY <2>1, <2>2, <2>3
<1> QED
  BY <1>1, <1>4 DEF Weighed

\* Rebuilding the map gives every bonded validator its power.
LEMMA WeighedRebuild ==
    ASSUME Inv, ValidatorPower' = PowerMap(bonded), UNCHANGED <<bonded, power>>
    PROVE  /\ DOMAIN ValidatorPower' = {Position(v, bonded) : v \in bonded}
           /\ \A v \in bonded : ValidatorPower'[Position(v, bonded)] = power[v]
<1>1. power \in [Validators -> Powers] /\ bonded \in SUBSET Validators
  BY DEF Inv, TypeOK
<1> QED
  BY <1>1, IndexMapProperties

\* No other step touches the powers.
LEMMA StepPowers ==
    ASSUME Fixed, [Next]_vars
    PROVE  /\ UNCHANGED <<bonded, power>>
           /\ UNCHANGED ValidatorPower \/ ValidatorPower' = PowerMap(bonded)
<1> USE DEF staking, index, attestations
<1>1. ASSUME NEW v \in Validators, NEW h \in Heights, Attest(v, h)
      PROVE  UNCHANGED <<bonded, power, ValidatorPower>>
  BY <1>1 DEF Attest
<1>2. CASE EndBlocker
  BY <1>2 DEF EndBlocker, BuildValidatorIndexMap
<1>3. ASSUME NEW v \in Movers, JoinAttesterSet(v) \/ LeaveAttesterSet(v)
      PROVE  UNCHANGED <<bonded, power, ValidatorPower>>
  BY <1>3 DEF JoinAttesterSet, LeaveAttesterSet
<1>4. ASSUME NEW p \in ParamChoices, UpdateParams(p)
      PROVE  UNCHANGED <<bonded, power, ValidatorPower>>
  BY <1>4 DEF UpdateParams
<1>5. /\ \A v \in Movers : ~ ChangeStaking(v)
      /\ ~ RestartFromGenesis
  BY DEF Fixed, ChangeStaking, RestartFromGenesis
<1>6. CASE UNCHANGED vars
  BY <1>6 DEF vars
<1> QED
  BY <1>1, <1>2, <1>3, <1>4, <1>5, <1>6 DEF Next

\* The powers found stay the validators' own.
LEMMA WeighedNext ==
    ASSUME Fixed, Inv, Weighed, [Next]_vars
    PROVE  Weighed'
<1>1. UNCHANGED <<bonded, power>>
  BY StepPowers
<1>2. CASE UNCHANGED ValidatorPower
  BY <1>1, <1>2 DEF Weighed, Position
<1>3. CASE ValidatorPower' = PowerMap(bonded)
  <2>1. \A v \in bonded : ValidatorPower'[Position(v, bonded)] = power[v]
    BY <1>1, <1>3, WeighedRebuild
  <2> QED
    BY <1>1, <2>1 DEF Weighed, Position
<1> QED
  BY <1>2, <1>3, StepPowers

\* Sums of powers are over finite sets and of numbers.
LEMMA PowerSums ==
    ASSUME Inv, NEW S \in SUBSET Validators
    PROVE  IsFiniteSet(S) /\ Numbers(power, S) /\ Sum(power, S) \in Nat
<1>1. IsFiniteSet(S)
  BY Positions
<1>2. Numbers(power, S)
  BY NetworkAssumption DEF Inv, TypeOK, Numbers
<1> QED
  BY <1>1, <1>2, SumIsNat

\* The voted power of a height is the power of its signers.
LEMMA VotedBySigners ==
    ASSUME Inv, Static, Weighed, NEW h \in DOMAIN AttestationBitmap,
           PowersKnown(AttestationBitmap[h])
    PROVE  /\ Signers(h) \in SUBSET Validators
           /\ CalculateVotedPower(AttestationBitmap[h]) = Sum(power, Signers(h))
<1> DEFINE S == Signers(h)
           T == AttestationBitmap[h].bits
           b == [v \in S |-> Position(v, bonded)]
<1>1. h \in Heights /\ S \subseteq bonded /\ bonded \in SUBSET Validators
  BY DEF Inv, TypeOK, Static
<1>2. T = {Position(v, bonded) : v \in S} /\ T \subseteq DOMAIN ValidatorPower
  BY DEF Static, PowersKnown
<1>3. S \in SUBSET Validators /\ IsFiniteSet(S) /\ Numbers(power, S)
  BY <1>1, PowerSums
<1>4. \A v, w \in S : Position(v, bonded) = Position(w, bonded) => v = w
  BY <1>1, Positions
<1> HIDE DEF S, T
<1>5. \A v \in S : ValidatorPower[Position(v, bonded)] = power[v]
  BY <1>1, <1>2 DEF Weighed
<1>6. T = {b[v] : v \in S}
  BY <1>2
<1>7. \A v \in S : ValidatorPower[b[v]] = power[v]
  BY <1>5
<1>8. \A v, w \in S : b[v] = b[w] => v = w
  BY <1>4
<1>9. Renames(b, S, power, T, ValidatorPower)
  BY <1>6, <1>7, <1>8 DEF Renames
<1>10. Sum(ValidatorPower, T) = Sum(power, S)
  BY <1>3, <1>9, SumRenames
<1> QED
  BY <1>3, <1>10 DEF CalculateVotedPower, S, T

\* The same of every height, to be used of the next state as well.
Voted == \A h \in DOMAIN AttestationBitmap :
            PowersKnown(AttestationBitmap[h]) =>
               CalculateVotedPower(AttestationBitmap[h]) = Sum(power, Signers(h))

\* VotedBySigners for all heights.
LEMMA VotesAreSigned == Inv /\ Static /\ Weighed => Voted
BY VotedBySigners DEF Voted

\* Confirmed heights have the power of their signers.
LEMMA ConfirmedBySigners ==
    Inv /\ Static /\ Weighed => SoftConfirmedBySigners
<1> SUFFICES ASSUME Inv, Static, Weighed, NEW h \in Heights, IsSoftConfirmed(h)
             PROVE  Sum(power, Signers(h)) >= (GetTotalPower * params.num) \div params.den
  BY DEF SoftConfirmedBySigners
<1>1. h \in DOMAIN AttestationBitmap /\ PowersKnown(AttestationBitmap[h])
  BY DEF IsSoftConfirmed
<1>2. CalculateVotedPower(AttestationBitmap[h]) = Sum(power, Signers(h))
  BY <1>1, VotedBySigners
<1> QED
  BY <1>2 DEF IsSoftConfirmed, CheckQuorum

\* A soft-confirmed height was signed by validators who hold the required
\* share of the bonded power: along joins, leaves, rebuilds of the map and
\* changes of the parameters, the powers that CalculateVotedPower finds at the
\* bits of the height are those of its signers (keeper.go).
THEOREM ConfirmationsAreSigned == Fixed => (Spec => []SoftConfirmedBySigners)
<1> SUFFICES ASSUME Fixed PROVE Spec => []SoftConfirmedBySigners
  OBVIOUS
<1>1. Init => Inv /\ Static /\ Weighed
  BY InitInv, StaticInit, WeighedInit
<1>2. (Inv /\ Static /\ Weighed) /\ [Next]_vars => (Inv /\ Static /\ Weighed)'
  BY NextInv, StaticNext, WeighedNext
<1> QED
  BY <1>1, <1>2, ConfirmedBySigners, PTL DEF Spec

-----------------------------------------------------------------------------
\* A step adds at most one signer to a height, and keeps every bitmap.
LEMMA StepSigners ==
    ASSUME Fixed, Inv, [Next]_vars, NEW h \in DOMAIN AttestationBitmap
    PROVE  /\ h \in DOMAIN AttestationBitmap'
           /\ Signers(h)' = Signers(h) \/ \E v \in Validators : Signers(h)' = Signers(h) \cup {v}
<1> USE DEF staking, index, attestations
<1>0. h \in Heights
  BY DEF Inv, TypeOK
<1>1. ASSUME NEW v \in Validators, NEW g \in Heights, Attest(v, g)
      PROVE  /\ h \in DOMAIN AttestationBitmap'
             /\ Signers(h)' = Signers(h) \/ Signers(h)' = Signers(h) \cup {v}
  <2>1. PICK x : AttestationBitmap' = Put(AttestationBitmap, g, x)
    BY <1>1 DEF Attest
  <2>2. h \in DOMAIN AttestationBitmap'
    BY <2>1 DEF Put
  <2>3. Signatures' = Signatures \cup {<<g, v>>}
    BY <1>1 DEF Attest
  <2>4. CASE g = h
    BY <2>2, <2>3, <2>4 DEF Signers
  <2>5. CASE g # h
    BY <2>2, <2>3, <2>5 DEF Signers
  <2> QED
    BY <2>4, <2>5
<1>2. CASE UNCHANGED <<AttestationBitmap, Signatures>>
  BY <1>2 DEF Signers
<1>3. CASE EndBlocker
  BY <1>2, <1>3 DEF EndBlocker
<1>4. ASSUME NEW v \in Movers, JoinAttesterSet(v) \/ LeaveAttesterSet(v)
      PROVE  UNCHANGED <<AttestationBitmap, Signatures>>
  BY <1>4 DEF JoinAttesterSet, LeaveAttesterSet
<1>5. ASSUME NEW p \in ParamChoices, UpdateParams(p)
      PROVE  UNCHANGED <<AttestationBitmap, Signatures>>
  BY <1>5 DEF UpdateParams
<1>6. /\ \A v \in Movers : ~ ChangeStaking(v)
      /\ ~ RestartFromGenesis
  BY DEF Fixed, ChangeStaking, RestartFromGenesis
<1>7. CASE UNCHANGED vars
  BY <1>2, <1>7 DEF vars
<1> QED
  BY <1>1, <1>2, <1>3, <1>4, <1>5, <1>6, <1>7 DEF Next

\* A bit is set only where there is a power, and a rebuilt map has one for
\* every bonded validator.
LEMMA PowersStayKnown ==
    ASSUME Fixed, Inv, Static, Static', [Next]_vars,
           NEW h \in DOMAIN AttestationBitmap, PowersKnown(AttestationBitmap[h])
    PROVE  PowersKnown(AttestationBitmap[h])'
<1>1. UNCHANGED <<bonded, power>> /\ h \in DOMAIN AttestationBitmap' /\ h \in Heights
  BY StepPowers, StepSigners DEF Inv, TypeOK
<1>2. CASE ValidatorPower' = PowerMap(bonded)
  <2>1. DOMAIN ValidatorPower' = {Position(v, bonded) : v \in bonded}
    BY <1>1, <1>2, WeighedRebuild
  <2>2. /\ Signers(h)' \subseteq bonded
        /\ AttestationBitmap'[h].bits = {Position(v, bonded) : v \in Signers(h)'}
    BY <1>1 DEF Static, Position
  <2> QED
    BY <2>1, <2>2 DEF PowersKnown
<1>3. CASE UNCHANGED ValidatorPower
  <2> USE DEF staking, index, attestations
  <2>1. ASSUME NEW v \in Validators, NEW g \in Heights, Attest(v, g)
        PROVE  PowersKnown(AttestationBitmap[h])'
    <3> DEFINE i == ValidatorIndex[v]
               b == BitmapAt(AttestationBitmap, g)
    <3>1. /\ AttestationBitmap' = Put(AttestationBitmap, g, SetBit(b, i))
          /\ v \in DOMAIN ValidatorIndex
      BY <2>1 DEF Attest
    <3>2. i \in Nat /\ i \in DOMAIN ValidatorPower
      BY <3>1 DEF Inv, TypeOK, IndexMapSound
    <3>3. Bounded(b)
      BY <2>1, BitmapAtProperties
    <3>4. CASE g = h
      <4>1. b = AttestationBitmap[h]
        BY <3>4 DEF BitmapAt
      <4>2. AttestationBitmap'[h] = SetBit(b, i)
        BY <3>1, <3>4 DEF Put
      <4> HIDE DEF b, i
      <4>3. SetBit(b, i).bits \subseteq b.bits \cup {i}
        BY <3>2, <3>3, SetBitProperties
      <4> QED
        BY <1>3, <3>2, <4>1, <4>2, <4>3 DEF PowersKnown
    <3>5. CASE g # h
      <4>1. AttestationBitmap'[h] = AttestationBitmap[h]
        BY <3>1, <3>5 DEF Put
      <4> QED
        BY <1>3, <4>1 DEF PowersKnown
    <3> QED
      BY <3>4, <3>5
  <2>2. CASE UNCHANGED AttestationBitmap
    BY <1>3, <2>2 DEF PowersKnown
  <2>3. CASE EndBlocker
    BY <2>2, <2>3 DEF EndBlocker
  <2>4. ASSUME NEW v \in Movers, JoinAttesterSet(v) \/ LeaveAttesterSet(v)
        PROVE  UNCHANGED AttestationBitmap
    BY <2>4 DEF JoinAttesterSet, LeaveAttesterSet
  <2>5. ASSUME NEW p \in ParamChoices, UpdateParams(p)
        PROVE  UNCHANGED AttestationBitmap
    BY <2>5 DEF UpdateParams
  <2>6. /\ \A v \in Movers : ~ ChangeStaking(v)
        /\ ~ RestartFromGenesis
    BY DEF Fixed, ChangeStaking, RestartFromGenesis
  <2>7. CASE UNCHANGED vars
    BY <2>2, <2>7 DEF vars
  <2> QED
    BY <2>1, <2>2, <2>3, <2>4, <2>5, <2>6, <2>7 DEF Next
<1> QED
  BY <1>2, <1>3, StepPowers

\* The signers of a height lose no power in a step.
LEMMA VotesGrow ==
    ASSUME Fixed, Inv, [Next]_vars, NEW h \in DOMAIN AttestationBitmap
    PROVE  Sum(power, Signers(h)') >= Sum(power, Signers(h))
<1> DEFINE S == Signers(h)
<1>1. S \in SUBSET Validators
  BY DEF Signers
<1> HIDE DEF S
<1>2. IsFiniteSet(S) /\ Sum(power, S) \in Nat
  BY <1>1, PowerSums
<1>3. CASE Signers(h)' = S
  BY <1>2, <1>3 DEF S
<1>4. ASSUME NEW v \in Validators, Signers(h)' = S \cup {v}
      PROVE  Sum(power, Signers(h)') >= Sum(power, S)
  <2>1. S \cup {v} \in SUBSET Validators
    BY <1>1
  <2>2. Numbers(power, S \cup {v})
    BY <2>1, PowerSums
  <2>3. Sum(power, S \cup {v}) >= Sum(power, S)
    BY <1>2, <2>2, SumGrows
  <2> QED
    BY <1>4, <2>3
<1> QED
  BY <1>3, <1>4, StepSigners DEF S

\* The step of SoftConfirmationStable.
LEMMA ConfirmationKept ==
    ASSUME Fixed, Inv, Static, Weighed, Inv', Static', Weighed', [Next]_vars,
           NEW h \in Heights, IsSoftConfirmed(h),
           params'.num * params.den = params.num * params'.den
    PROVE  IsSoftConfirmed(h)'
<1>1. h \in DOMAIN AttestationBitmap /\ PowersKnown(AttestationBitmap[h])
  BY DEF IsSoftConfirmed
<1>2. h \in DOMAIN AttestationBitmap'
  BY <1>1, StepSigners
<1>3. PowersKnown(AttestationBitmap[h])'
  BY <1>1, PowersStayKnown
<1>4. UNCHANGED <<bonded, power>>
  BY StepPowers
<1>5. CalculateVotedPower(AttestationBitmap[h]) = Sum(power, Signers(h))
  BY <1>1, VotedBySigners
<1>6. CalculateVotedPower(AttestationBitmap[h])' = Sum(power, Signers(h)')
  <2>1. Sum(power, Signers(h))' = Sum(power, Signers(h)')
    BY <1>4 DEF Sum, MapThenSumSet, MapThenFoldSet
  <2>2. Voted'
    BY VotesAreSigned, PTL
  <2>3. CalculateVotedPower(AttestationBitmap[h])' = Sum(power, Signers(h))'
    BY <1>2, <1>3, <2>2 DEF Voted
  <2> QED
    BY <2>1, <2>3
<1>7. PICK t \in Nat : t = GetTotalPower /\ t = GetTotalPower'
  <2>1. GetTotalPower \in Nat
    BY PowerSums DEF Inv, TypeOK, GetTotalPower
  <2>2. GetTotalPower' = GetTotalPower
    BY <1>4 DEF GetTotalPower, Sum, MapThenSumSet, MapThenFoldSet
  <2> QED
    BY <2>1, <2>2
<1>8. (t * params.num) \div params.den = (t * params'.num) \div params'.den
  <2>1. /\ params.num \in Nat /\ params.den \in Nat \ {0}
        /\ params'.num \in Nat /\ params'.den \in Nat \ {0}
    BY NetworkAssumption DEF Inv, TypeOK
  <2>2. PICK a \in Nat, b \in Nat \ {0}, c \in Nat, d \in Nat \ {0} :
           a = params.num /\ b = params.den /\ c = params'.num /\ d = params'.den
    BY <2>1
  <2>3. c * b = a * d
    BY <2>2
  <2>4. (t * a) \div b = (t * c) \div d
    BY <2>3, SameShare
  <2> QED
    BY <2>2, <2>4
<1>9. PICK q : /\ q = (t * params.num) \div params.den
               /\ q = (t * params'.num) \div params'.den
               /\ q \in Int
  <2>1. params.num \in Nat /\ params.den \in Nat \ {0}
    BY NetworkAssumption DEF Inv, TypeOK
  <2>2. t * params.num \in Nat
    BY <2>1
  <2>3. (t * params.num) \div params.den \in Nat
    BY <2>1, <2>2, QuotientBounds
  <2> QED
    BY <1>8, <2>3
<1>10. Sum(power, Signers(h)) >= q
  BY <1>5, <1>7, <1>9 DEF IsSoftConfirmed, CheckQuorum
<1>11. Sum(power, Signers(h)') >= q
  <2>1. Sum(power, Signers(h)') >= Sum(power, Signers(h))
    BY <1>1, VotesGrow
  <2>2. Signers(h) \in SUBSET Validators /\ Signers(h)' \in SUBSET Validators
    BY DEF Signers
  <2>3. Sum(power, Signers(h)) \in Nat /\ Sum(power, Signers(h)') \in Nat
    BY <2>2, PowerSums
  <2> QED
    BY <1>9, <1>10, <2>1, <2>3
<1>12. CheckQuorum(CalculateVotedPower(AttestationBitmap[h]), GetTotalPower)'
  BY <1>6, <1>7, <1>9, <1>11 DEF CheckQuorum
<1> QED
  BY <1>2, <1>3, <1>12 DEF IsSoftConfirmed

\* A soft-confirmed height stays so while neither the validators nor the
\* quorum change: leaving the attester set takes no vote back, a rebuild finds
\* the same powers, and a fraction in other terms is rounded to the same
\* power (keeper.go, msg_server.go).
THEOREM ConfirmationsAreStable == Fixed => (Spec => SoftConfirmationStable)
<1> SUFFICES ASSUME Fixed PROVE Spec => SoftConfirmationStable
  OBVIOUS
<1> DEFINE I == Inv /\ Static /\ Weighed
           A == \A h \in Heights :
                   IsSoftConfirmed(h) /\ params'.num * params.den = params.num * params'.den
                      => IsSoftConfirmed(h)'
<1>1. Init => I
  BY InitInv, StaticInit, WeighedInit
<1>2. I /\ [Next]_vars => I'
  BY NextInv, StaticNext, WeighedNext
<1>3. I /\ I' /\ [Next]_vars => [A]_vars
  BY ConfirmationKept
<1> HIDE DEF I
<1>4. Spec => [][A]_vars
  BY <1>1, <1>2, <1>3, PTL DEF Spec
<1> QED
  BY <1>4 DEF SoftConfirmationStable
=============================================================================
