-------------------------- MODULE RollkitMngrProofs --------------------------
(***************************************************************************)
(* Proofs about RollkitMngr, for any validators, any targets, any smoothing*)
(* factor, any sequence of governance messages and any changes of the      *)
(* staking list, whether or not PreBlocker is called.                      *)
(*                                                                         *)
(* The lists of validators to remove and to add are sequences without      *)
(* repetitions whose slices partition them (OthersProperties,              *)
(* SliceProperties).  The strengthening: before its start the first        *)
(* migration has touched nothing (Untouched); from then on, as long as the *)
(* list stays, it has removed exactly the slices it has been through and   *)
(* makes one step per block (FirstMigration); any migration, also one that *)
(* has replaced another, has stored its sequencer or has a step counter    *)
(* that keeps up with the height, which it cannot do beyond its end        *)
(* (Ending).                                                               *)
(***************************************************************************)
EXTENDS RollkitMngr, FiniteSetTheorems, SequenceTheorems, TLAPS

-----------------------------------------------------------------------------
\* The slices of a list.  Rounded up, the slices of all steps cover it.
LEMMA StepsCover ==
    ASSUME NEW L \in Nat, NEW F \in Nat \ {0}
    PROVE  /\ (L + F - 1) \div F \in Nat
           /\ F * ((L + F - 1) \div F) >= L
<1> DEFINE q == (L + F - 1) \div F
           r == (L + F - 1) % F
<1>1. L + F - 1 = F * q + r /\ r \in 0 .. F - 1 /\ q \in Int
  OBVIOUS
<1>2. F * q >= L
  BY <1>1
<1>3. q \in Nat
  OBVIOUS
<1> QED
  BY <1>2, <1>3

\* Multiplication is monotonic.
LEMMA TimesMonotonic ==
    ASSUME NEW a \in Nat, NEW b \in Nat, NEW p \in Nat, a <= b
    PROVE  a * p <= b * p /\ a * p \in Nat /\ (a + 1) * p = a * p + p
<1>1. b * p = a * p + (b - a) * p /\ (b - a) * p \in Nat
  OBVIOUS
<1> QED
  BY <1>1

\* The smaller of two numbers.
LEMMA MinOfTwo ==
    ASSUME NEW a \in Nat, NEW b \in Nat
    PROVE  Min({a, b}) = IF a <= b THEN a ELSE b
<1> DEFINE m == IF a <= b THEN a ELSE b
<1>1. m \in {a, b} /\ \A y \in {a, b} : m <= y
  OBVIOUS
<1>2. \A x \in {a, b} : (\A y \in {a, b} : x <= y) => x = m
  OBVIOUS
<1> QED
  BY <1>1, <1>2 DEF Min

-----------------------------------------------------------------------------
\* Others(s, S) is a sequence, of exactly the entries of s outside S, and
\* repeats none that s does not repeat.
LEMMA OthersProperties ==
    ASSUME NEW K, NEW s \in Seq(K), NEW S
    PROVE  /\ Others(s, S) \in Seq(K)
           /\ Elems(Others(s, S)) = Elems(s) \ S
           /\ (\A i, j \in DOMAIN s : s[i] = s[j] => i = j) =>
                 \A i, j \in DOMAIN Others(s, S) :
                    Others(s, S)[i] = Others(s, S)[j] => i = j
<1> DEFINE at == {i \in DOMAIN s : s[i] \notin S}
           rank(i) == Cardinality({j \in at : j <= i})
           N == Cardinality(at)
           pos(n) == CHOOSE i \in at : rank(i) = n
           o == Others(s, S)
<1>1. DOMAIN s = 1 .. Len(s) /\ Len(s) \in Nat
  OBVIOUS
<1>2. IsFiniteSet(at) /\ at \subseteq Nat /\ N \in Nat
  <2>1. IsFiniteSet(1 .. Len(s))
    BY <1>1, FS_Interval
  <2>2. at \in SUBSET (1 .. Len(s))
    BY <1>1
  <2>3. IsFiniteSet(at)
    BY <2>1, <2>2, FS_Subset
  <2> QED
    BY <1>1, <2>3, FS_CardinalityType
<1>3. ASSUME NEW i \in at
      PROVE  IsFiniteSet({j \in at : j <= i}) /\ rank(i) \in 1 .. N
  <2>1. {j \in at : j <= i} \in SUBSET at /\ i \in {j \in at : j <= i}
    BY <1>2
  <2>2. IsFiniteSet({j \in at : j <= i}) /\ rank(i) <= N
    BY <1>2, <2>1, FS_Subset
  <2>3. rank(i) \in Nat /\ rank(i) # 0
    BY <2>1, <2>2, FS_CardinalityType, FS_EmptySet
  <2> QED
    BY <1>2, <2>2, <2>3
<1>4. ASSUME NEW i \in at, NEW k \in at, i < k PROVE rank(i) # rank(k)
  <2>1. /\ {j \in at : j <= i} \in SUBSET {j \in at : j <= k}
        /\ {j \in at : j <= i} # {j \in at : j <= k}
    BY <1>2, <1>4
  <2> QED
    BY <1>3, <2>1, FS_Subset
<1>5. \A i, k \in at : rank(i) = rank(k) => i = k
  BY <1>2, <1>4
<1>6. \A n \in 1 .. N : \E i \in at : rank(i) = n
  <2> DEFINE f == [i \in at |-> rank(i)]
  <2> HIDE DEF at, N
  <2>1. f \in [at -> 1 .. N] /\ \A i, k \in at : f[i] = f[k] => i = k
    BY <1>3, <1>5
  <2>2. f \in Injection(at, 1 .. N)
    BY <2>1 DEF Injection, IsInjective
  <2>3. IsFiniteSet(1 .. N) /\ Cardinality(1 .. N) = N
    BY <1>2, FS_Interval
  <2>4. f \in Surjection(at, 1 .. N)
    BY <2>2, <2>3, FS_Injection DEF N
  <2> QED
    BY <2>4 DEF Surjection
<1>7. \A n \in 1 .. N : pos(n) \in at /\ rank(pos(n)) = n
  BY <1>6
<1>8. o = [n \in 1 .. N |-> s[pos(n)]]
  BY DEF Others
<1> HIDE DEF pos, rank, N, o
<1>9. o \in Seq(K) /\ DOMAIN o = 1 .. N
  BY <1>1, <1>2, <1>7, <1>8
<1>10. \A n \in 1 .. N : o[n] = s[pos(n)] /\ pos(n) \in DOMAIN s /\ s[pos(n)] \notin S
  BY <1>7, <1>8
<1>11. Elems(o) \subseteq Elems(s) \ S
  BY <1>9, <1>10 DEF Elems
<1>12. ASSUME NEW x \in Elems(s) \ S PROVE x \in Elems(o)
  <2>1. PICK i \in at : s[i] = x
    BY DEF Elems
  <2>2. rank(i) \in 1 .. N /\ pos(rank(i)) = i
    BY <1>3, <1>5, <1>7
  <2>3. o[rank(i)] = x
    BY <1>10, <2>1, <2>2
  <2> QED
    BY <1>9, <2>2, <2>3 DEF Elems
<1>13. (\A i, j \in DOMAIN s : s[i] = s[j] => i = j) =>
          \A i, j \in DOMAIN o : o[i] = o[j] => i = j
  BY <1>7, <1>9, <1>10
<1> QED
  BY <1>9, <1>11, <1>12, <1>13 DEF o

\* Slice(s, step) holds the entries of s after the first step * PerStep(s),
\* and PerStep(s) of them or as many as there are.
LEMMA SliceProperties ==
    ASSUME NEW K, NEW s \in Seq(K), NEW step \in Nat
    PROVE  /\ PerStep(s) \in Nat /\ IBCSmoothingFactor * PerStep(s) >= Len(s)
           /\ Start(s, step) \in Nat /\ Start(s, step + 1) = Start(s, step) + PerStep(s)
           /\ \A x : x \in Slice(s, step) <=>
                 \E i \in DOMAIN s : /\ s[i] = x
                                     /\ Start(s, step) < i
                                     /\ i <= Start(s, step + 1)
<1> DEFINE P == PerStep(s)
           a == Start(s, step)
           b == Min({a + P, Len(s)})
<1>0. IBCSmoothingFactor \in Nat \ {0} /\ Len(s) \in Nat
  BY RollkitMngrAssumption
<1>1. P \in Nat /\ IBCSmoothingFactor * P >= Len(s)
  BY <1>0, StepsCover DEF PerStep
<1>2. a \in Nat /\ Start(s, step + 1) = a + P
  BY <1>1, TimesMonotonic DEF Start
<1> HIDE DEF P, a
<1>3. b \in Nat /\ b <= Len(s) /\ b <= a + P /\ (b = Len(s) \/ b = a + P)
  BY <1>0, <1>1, <1>2, MinOfTwo
<1>4. Slice(s, step) = Elems(SubSeq(s, a + 1, b))
  BY DEF Slice, a, P
<1> HIDE DEF b
<1>5. a \in Nat /\ P \in Nat /\ Len(s) \in Nat
  BY <1>0, <1>1, <1>2
<1> DEFINE u == SubSeq(s, a + 1, b)
<1> HIDE DEF u
<1>6. /\ DOMAIN u = 1 .. (IF a + 1 <= b THEN b - a ELSE 0)
      /\ \A i \in DOMAIN u : u[i] = s[a + i]
  <2>1. \A i \in a + 1 .. b : i \in 1 .. Len(s)
    BY <1>3, <1>5
  <2>2. \A i \in a + 1 .. b : s[i] \in K
    BY <2>1
  <2>3. a + 1 \in Int /\ b \in Int
    BY <1>3, <1>5
  <2>4. /\ u \in Seq(K)
        /\ Len(u) = IF a + 1 <= b THEN b - (a + 1) + 1 ELSE 0
        /\ \A i \in 1 .. b - (a + 1) + 1 : u[i] = s[(a + 1) + i - 1]
    BY <2>2, <2>3, SubSeqProperties DEF u
  <2>5. DOMAIN u = 1 .. Len(u)
    BY <2>4
  <2> QED
    BY <1>3, <1>5, <2>4, <2>5
<1>7. ASSUME NEW x \in Elems(u)
      PROVE  \E i \in DOMAIN s : s[i] = x /\ a < i /\ i <= a + P
  <2>1. PICK j \in DOMAIN u : u[j] = x
    BY DEF Elems
  <2>2. j \in 1 .. (IF a + 1 <= b THEN b - a ELSE 0) /\ s[a + j] = x
    BY <1>6, <2>1
  <2>3. a + j \in 1 .. Len(s) /\ a < a + j /\ a + j <= a + P
    BY <1>3, <1>5, <2>2
  <2> QED
    BY <2>2, <2>3
<1>8. ASSUME NEW i \in DOMAIN s, a < i, i <= a + P
      PROVE  s[i] \in Elems(u)
  <2>0. i \in 1 .. Len(s)
    OBVIOUS
  <2>1. i \in Nat /\ i - a \in 1 .. (IF a + 1 <= b THEN b - a ELSE 0) /\ a + (i - a) = i
    BY <1>3, <1>5, <1>8, <2>0
  <2> QED
    BY <1>6, <2>1 DEF Elems
<1>9. Slice(s, step) = Elems(u)
  BY <1>4 DEF u
<1> QED
  BY <1>1, <1>2, <1>7, <1>8, <1>9 DEF P, a

\* The lists of a migration.
LEMMA ListProperties ==
    ASSUME TypeOK, NEW m, m.attesters \in Seq(Keys), m.sequencer \in Keys
    PROVE  /\ OldValsToRemove(m) \in Seq(Keys)
           /\ NewAttestersToAdd(m) \in Seq(Keys)
           /\ Elems(OldValsToRemove(m)) = Elems(lastValidators) \ Target(m)
           /\ Elems(OldValsToRemove(m)) \subseteq Keys
           /\ Elems(NewAttestersToAdd(m)) \cap Elems(lastValidators) = {}
           /\ \A i, j \in DOMAIN OldValsToRemove(m) :
                 OldValsToRemove(m)[i] = OldValsToRemove(m)[j] => i = j
<1>1. /\ lastValidators \in Seq(Keys)
      /\ \A i, j \in DOMAIN lastValidators : lastValidators[i] = lastValidators[j] => i = j
  BY RollkitMngrAssumption DEF TypeOK
<1>2. /\ OldValsToRemove(m) \in Seq(Keys)
      /\ Elems(OldValsToRemove(m)) = Elems(lastValidators) \ Target(m)
      /\ \A i, j \in DOMAIN OldValsToRemove(m) :
                 OldValsToRemove(m)[i] = OldValsToRemove(m)[j] => i = j
  BY <1>1, OthersProperties DEF OldValsToRemove
<1>3. /\ NewAttestersToAdd(m) \in Seq(Keys)
      /\ Elems(NewAttestersToAdd(m)) = Elems(m.attesters) \ Elems(lastValidators)
  BY OthersProperties DEF NewAttestersToAdd
<1>4. Elems(OldValsToRemove(m)) \subseteq Keys
  BY <1>2 DEF Elems
<1> QED
  BY <1>2, <1>3, <1>4

\* After all the steps the slices have gone through the whole list.
LEMMA LastStart ==
    ASSUME NEW s \in Seq(Keys), NEW i \in DOMAIN s
    PROVE  i \in Nat \ {0} /\ i <= Start(s, IBCSmoothingFactor)
<1>1. IBCSmoothingFactor \in Nat
  BY RollkitMngrAssumption
<1>2. i \in Nat \ {0} /\ i <= Len(s) /\ Len(s) \in Nat
  OBVIOUS
<1>3. Start(s, IBCSmoothingFactor) >= Len(s) /\ Start(s, IBCSmoothingFactor) \in Nat
  BY <1>1, SliceProperties DEF Start
<1> QED
  BY <1>2, <1>3

\* Before the first step nothing has been gone through.
LEMMA FirstStart ==
    ASSUME NEW s \in Seq(Keys), NEW i \in DOMAIN s
    PROVE  i \in Nat /\ ~ (i <= Start(s, 0))
<1>1. i \in Nat \ {0}
  OBVIOUS
<1>2. Start(s, 0) = 0
  BY SliceProperties DEF Start
<1> QED
  BY <1>1, <1>2

-----------------------------------------------------------------------------
\* At most one migration is scheduled; before the first message nothing has
\* changed; without IBC there are no steps.
Items ==
    /\ \A m, n \in Migration : m = n
    /\ Migration = {} => requests = 0
    /\ requests = 0 => Migration = {} /\ MigrationStep = 0 /\ cometPower = InitPower
    /\ ~ IBCEnabled => MigrationStep = 0

\* The first migration has touched nothing before its start.
Untouched ==
    requests = 1 => \A m \in Migration :
        height <= m.blockHeight => MigrationStep = 0 /\ cometPower = InitPower

\* The sequencer is stored: without IBC from the first block on, with IBC as
\* soon as the step counter is behind the height.
Ending(m) ==
    height > m.blockHeight =>
        \/ Sequencer = {m.sequencer}
        \/ IBCEnabled /\ MigrationStep >= height - m.blockHeight

Endings == \A m \in Migration : Ending(m)

\* Only the validators of the CometBFT chain ever have a power above 1, and
\* those on the list lose it in step 0.
Level ==
    /\ \A k \in Keys \ Elems(InitValidators) : cometPower[k] \in {0, 1}
    /\ LevelDuringMigration

\* With IBC, the first migration has removed the validators old of the slices
\* it has been through; from its first step to its end it has removed no
\* other, and makes one step per block.
Stepwise(m, old) ==
    /\ \A i \in DOMAIN old :
          i <= Start(old, MigrationStep) => cometPower[old[i]] = 0
    /\ height <= EndHeight(m) =>
          /\ MigrationStep = IF height > m.blockHeight THEN height - m.blockHeight ELSE 0
          /\ MigrationStep > 0 => \A i \in DOMAIN old :
                i > Start(old, MigrationStep) => cometPower[old[i]] > 0

\* Without IBC, its first block has removed all of them.
AtOnce(m, old) ==
    height > m.blockHeight => \A i \in DOMAIN old : cometPower[old[i]] = 0

\* It gets past its end only if there were none.
Progress(m, old) ==
    /\ IBCEnabled => Stepwise(m, old)
    /\ ~ IBCEnabled => AtOnce(m, old)
    /\ height > EndHeight(m) => old = <<>>

FirstMigration ==
    Undisturbed => \A m \in Migration : Progress(m, OldValsToRemove(m))

IndInv == /\ TypeOK /\ Items /\ Untouched /\ Endings /\ Level /\ FirstMigration
          /\ RefusalsExplained /\ PanicsOnlyOnShortLists

\* The start state satisfies the invariant.
LEMMA InitInv == Init => IndInv
<1> SUFFICES ASSUME Init PROVE IndInv
  OBVIOUS
<1> USE RollkitMngrAssumption DEF Init
<1>1. TypeOK
  <2>1. shifted \in BOOLEAN /\ lastValidators \in Lists
    OBVIOUS
  <2>2. height \in 1 .. MaxHeight /\ MigrationStep \in 0 .. IBCSmoothingFactor
        /\ requests \in 0 .. MaxRequests
    OBVIOUS
  <2> QED
    BY <2>1, <2>2 DEF TypeOK
<1>2. Items /\ Untouched /\ Endings /\ FirstMigration
  BY DEF Items, Untouched, Endings, FirstMigration
<1>3. Level
  BY DEF Level, LevelDuringMigration
<1>4. RefusalsExplained /\ PanicsOnlyOnShortLists
  BY DEF RefusalsExplained, PanicsOnlyOnShortLists
<1> QED
  BY <1>1, <1>2, <1>3, <1>4 DEF IndInv

\* What the types say about a migration.
LEMMA MigrationTypes ==
    ASSUME TypeOK, NEW m \in Migration
    PROVE  /\ m.blockHeight \in Nat /\ m.sequencer \in Keys /\ m.attesters \in Seq(Keys)
           /\ EndHeight(m) = IF IBCEnabled THEN m.blockHeight + IBCSmoothingFactor
                             ELSE m.blockHeight + 1
           /\ EndHeight(m) \in Nat /\ EndHeight(m) > m.blockHeight
           /\ height \in Nat /\ MigrationStep \in Nat
           /\ MigrationStep <= IBCSmoothingFactor
<1>1. /\ m.blockHeight \in Nat /\ m.sequencer \in Keys /\ m.attesters \in Seq(Keys)
      /\ IBCSmoothingFactor \in Nat \ {0} /\ MaxHeight \in Nat
      /\ height \in Nat /\ MigrationStep \in Nat /\ MigrationStep <= IBCSmoothingFactor
  BY RollkitMngrAssumption DEF TypeOK
<1>2. CASE IBCEnabled
  BY <1>1, <1>2 DEF EndHeight
<1>3. CASE ~ IBCEnabled
  BY <1>1, <1>3 DEF EndHeight
<1> QED
  BY <1>2, <1>3

\* The end of a migration does not depend on the step, and its lists only on
\* the staking list.
LEMMA MigrationFixed ==
    /\ UNCHANGED IBCEnabled => \A m : EndHeight(m)' = EndHeight(m)
    /\ UNCHANGED lastValidators =>
          \A m : /\ OldValsToRemove(m)' = OldValsToRemove(m)
                 /\ NewAttestersToAdd(m)' = NewAttestersToAdd(m)
BY DEF EndHeight, OldValsToRemove, NewAttestersToAdd

\* Steps that leave the items, both validator sets and the height alone.
LEMMA QuietInv ==
    ASSUME IndInv, TypeOK',
           UNCHANGED <<IBCEnabled, height, Migration, MigrationStep, Sequencer,
                       lastValidators, cometPower, requests, shifted>>,
           RefusalsExplained', PanicsOnlyOnShortLists'
    PROVE  IndInv'
<1> USE DEF IndInv
<1>0. \A m : EndHeight(m)' = EndHeight(m) /\ OldValsToRemove(m)' = OldValsToRemove(m)
  BY MigrationFixed
<1>1. Items' /\ Level' /\ Untouched'
  BY DEF Items, Level, LevelDuringMigration, Untouched
<1>2. Endings'
  BY DEF Endings, Ending
<1>3. FirstMigration'
  BY <1>0 DEF FirstMigration, Progress, Stepwise, AtOnce, Undisturbed
<1> QED
  BY <1>1, <1>2, <1>3

\* PreBlocker: the block stops or goes on.
LEMMA PreBlockerInv == IndInv /\ PreBlocker => IndInv'
<1> SUFFICES ASSUME IndInv, PreBlocker PROVE IndInv'
  OBVIOUS
<1>1. TypeOK'
  BY DEF IndInv, TypeOK, PreBlocker, chain, staking
<1>2. RefusalsExplained' /\ PanicsOnlyOnShortLists'
  BY DEF RefusalsExplained, PanicsOnlyOnShortLists, PreBlocker, Running
<1> QED
  BY <1>1, <1>2, QuietInv DEF PreBlocker, chain, staking

\* Restart: the block is tried again.
LEMMA RestartInv == IndInv /\ Restart => IndInv'
<1> SUFFICES ASSUME IndInv, Restart PROVE IndInv'
  OBVIOUS
<1>1. TypeOK'
  BY DEF IndInv, TypeOK, Restart, chain, staking
<1>2. RefusalsExplained' /\ PanicsOnlyOnShortLists'
  BY DEF RefusalsExplained, PanicsOnlyOnShortLists, Restart
<1> QED
  BY <1>1, <1>2, QuietInv DEF Restart, chain, staking

\* Stuttering.
LEMMA StutterInv == IndInv /\ UNCHANGED vars => IndInv'
<1> SUFFICES ASSUME IndInv, UNCHANGED vars PROVE IndInv'
  OBVIOUS
<1> USE DEF vars, chain, staking
<1>0. \A m : /\ EndHeight(m)' = EndHeight(m)
             /\ OldValsToRemove(m)' = OldValsToRemove(m)
             /\ NewAttestersToAdd(m)' = NewAttestersToAdd(m)
  BY MigrationFixed
<1>1. TypeOK'
  BY DEF IndInv, TypeOK
<1>2. RefusalsExplained' /\ PanicsOnlyOnShortLists'
  BY <1>0 DEF IndInv, RefusalsExplained, PanicsOnlyOnShortLists, Undisturbed, Members
<1> QED
  BY <1>1, <1>2, QuietInv

\* The list changes: if no migration has begun, the first one starts from the
\* new list.
LEMMA ChangeStakingInv == IndInv /\ ChangeStaking => IndInv'
<1> SUFFICES ASSUME IndInv, ChangeStaking PROVE IndInv'
  OBVIOUS
<1> USE DEF IndInv
<1>0. /\ stopped = "no" /\ lastValidators' \in Lists
      /\ shifted' = (shifted \/ \E m \in Migration : Begun(m))
      /\ UNCHANGED <<IBCEnabled, callsPreBlocker, height, phase, Migration, MigrationStep,
                     Sequencer, cometPower, stopped, requests>>
  BY DEF ChangeStaking, Running, chain
<1>1. TypeOK'
  <2>1. shifted' \in BOOLEAN
    BY <1>0
  <2> QED
    BY <1>0, <2>1 DEF TypeOK
<1>2. Items' /\ Untouched' /\ Endings'
  BY <1>0 DEF Items, Untouched, Endings, Ending
<1>3. ASSUME ~ shifted', NEW m \in Migration
      PROVE  ~ shifted /\ MigrationStep = 0 /\ height <= m.blockHeight
  <2>1. ~ shifted /\ ~ Begun(m)
    BY <1>0, <1>3
  <2>2. MigrationStep \in Nat /\ height \in Nat /\ m.blockHeight \in Nat
    BY MigrationTypes
  <2> QED
    BY <2>1, <2>2 DEF Begun
<1>4. Level'
  <2>1. LevelDuringMigration'
    <3> SUFFICES ASSUME MigrationStep > 0, ~ shifted' PROVE FALSE
      BY <1>0 DEF LevelDuringMigration
    <3>1. Migration = {}
      BY <1>3, RollkitMngrAssumption
    <3>2. MigrationStep = 0
      BY <3>1 DEF Items
    <3> QED
      BY <3>2
  <2> QED
    BY <1>0, <2>1 DEF Level
<1>5. FirstMigration'
  <2> SUFFICES ASSUME ~ shifted', NEW m \in Migration PROVE Progress(m, OldValsToRemove(m))'
    BY <1>0 DEF FirstMigration, Undisturbed
  <2> PICK old : old = OldValsToRemove(m)'
    OBVIOUS
  <2>1. EndHeight(m)' = EndHeight(m)
    BY <1>0, MigrationFixed
  <2>2. MigrationStep' = 0 /\ height' <= m.blockHeight /\ ~ (height' > m.blockHeight) /\ ~ (height' > EndHeight(m))
    BY <1>0, <1>3, MigrationTypes
  <2>3. old \in Seq(Keys)
    <3>1. OldValsToRemove(m)' = Others(lastValidators', Target(m)) /\ lastValidators' \in Seq(Keys)
      BY <1>0, RollkitMngrAssumption DEF OldValsToRemove
    <3> QED
      BY <3>1, OthersProperties
  <2>4. \A i \in DOMAIN old : ~ (i <= Start(old, 0))
    BY <2>3, FirstStart
  <2> QED
    BY <2>1, <2>2, <2>4 DEF Progress, Stepwise, AtOnce
<1>6. RefusalsExplained' /\ PanicsOnlyOnShortLists'
  BY <1>0 DEF RefusalsExplained, PanicsOnlyOnShortLists
<1> QED
  BY <1>1, <1>2, <1>4, <1>5, <1>6

\* A new migration starts at this height or later: nothing is due yet.
LEMMA MigrateToRollkitInv ==
    ASSUME IndInv, NEW t \in Targets, NEW h \in 1 .. MaxHeight, MigrateToRollkit(t, h)
    PROVE  IndInv'
<1> USE DEF IndInv
<1> PICK m : m = [blockHeight |-> h, sequencer |-> t.sequencer, attesters |-> t.attesters]
  OBVIOUS
<1>0. /\ Running /\ phase = "txs" /\ h >= height /\ requests < MaxRequests
      /\ Migration' = {m} /\ requests' = requests + 1
      /\ UNCHANGED <<IBCEnabled, callsPreBlocker, height, phase, MigrationStep, Sequencer,
                     lastValidators, shifted, cometPower, stopped>>
  BY DEF MigrateToRollkit, chain, staking
<1>1. /\ m.blockHeight = h /\ m.sequencer \in Keys /\ m.attesters \in Seq(Keys)
      /\ h \in Nat /\ height \in Nat /\ requests \in Nat /\ MaxRequests \in Nat
  BY RollkitMngrAssumption DEF TypeOK
<1>2. TypeOK'
  BY <1>0, <1>1 DEF TypeOK
<1>3. EndHeight(m)' = EndHeight(m) /\ EndHeight(m) \in Nat /\ h < EndHeight(m)
  <2>1. m \in Migration' /\ EndHeight(m)' = EndHeight(m)
    BY <1>0, MigrationFixed
  <2> QED
    BY <1>0, <1>1, <1>2, <2>1, RollkitMngrAssumption DEF EndHeight
<1>4. Items' /\ Level'
  BY <1>0, <1>1 DEF Items, Level, LevelDuringMigration
<1>5. Endings'
  BY <1>0, <1>1 DEF Endings, Ending
<1>6. requests' = 1 => MigrationStep' = 0 /\ cometPower' = InitPower
  BY <1>0, <1>1 DEF Items
<1>7. Untouched'
  BY <1>0, <1>6 DEF Untouched
<1>8. FirstMigration'
  <2> SUFFICES ASSUME requests' = 1 PROVE Progress(m, OldValsToRemove(m))'
    BY <1>0 DEF FirstMigration, Undisturbed
  <2> PICK old : old = OldValsToRemove(m)
    OBVIOUS
  <2>1. old \in Seq(Keys) /\ OldValsToRemove(m)' = old
    BY <1>0, <1>1, ListProperties, MigrationFixed
  <2>2. MigrationStep' = 0 /\ ~ (height' > m.blockHeight) /\ ~ (height' > EndHeight(m))
    BY <1>0, <1>1, <1>3, <1>6
  <2>3. \A i \in DOMAIN old : ~ (i <= Start(old, 0))
    BY <2>1, FirstStart
  <2> QED
    BY <1>3, <2>1, <2>2, <2>3 DEF Progress, Stepwise, AtOnce
<1>9. RefusalsExplained' /\ PanicsOnlyOnShortLists'
  BY <1>0 DEF RefusalsExplained, PanicsOnlyOnShortLists, Running
<1> QED
  BY <1>2, <1>4, <1>5, <1>7, <1>8, <1>9

\* Beyond the end of a migration its sequencer is stored.
LEMMA StoredAtEnd ==
    ASSUME TypeOK, NEW m \in Migration, Ending(m), height > EndHeight(m)
    PROVE  Sequencer = {m.sequencer}
<1>1. /\ m.blockHeight \in Nat /\ height \in Nat /\ MigrationStep \in Nat
      /\ MigrationStep <= IBCSmoothingFactor /\ IBCSmoothingFactor \in Nat
      /\ EndHeight(m) = IF IBCEnabled THEN m.blockHeight + IBCSmoothingFactor
                        ELSE m.blockHeight + 1
  BY MigrationTypes, RollkitMngrAssumption
<1> QED
  BY <1>1 DEF Ending

\* Before the start and after the end of the migration a block changes nothing.
LEMMA EndBlockIdleInv == IndInv /\ EndBlockIdle => IndInv'
<1> SUFFICES ASSUME IndInv, EndBlockIdle PROVE IndInv'
  OBVIOUS
<1> USE DEF IndInv
<1>0. /\ stopped = "no" /\ phase = "txs" /\ height < MaxHeight
      /\ \A m \in Migration : ~ IsMigrating(m)
      /\ height' = height + 1 /\ phase' = "preblock"
      /\ UNCHANGED <<IBCEnabled, callsPreBlocker, Migration, MigrationStep, Sequencer,
                     lastValidators, shifted, cometPower, stopped, requests>>
  BY DEF EndBlockIdle, Running, chain, staking
<1>1. TypeOK'
  BY <1>0, RollkitMngrAssumption DEF TypeOK
<1>2. ASSUME NEW m \in Migration
      PROVE  /\ m.blockHeight \in Nat /\ EndHeight(m) \in Nat /\ height \in Nat
             /\ EndHeight(m)' = EndHeight(m) /\ OldValsToRemove(m)' = OldValsToRemove(m)
             /\ EndHeight(m) > m.blockHeight
             /\ height < m.blockHeight \/ height > EndHeight(m)
  BY <1>0, MigrationTypes, MigrationFixed DEF IsMigrating
<1>3. Items' /\ Level'
  BY <1>0 DEF Items, Level, LevelDuringMigration
<1>4. Untouched'
  BY <1>0, <1>2 DEF Untouched
<1>5. Endings'
  BY <1>0, <1>2, StoredAtEnd DEF Endings, Ending
<1>6. FirstMigration'
  <2> SUFFICES ASSUME Undisturbed, NEW m \in Migration PROVE Progress(m, OldValsToRemove(m))'
    BY <1>0 DEF FirstMigration, Undisturbed
  <2> PICK old : old = OldValsToRemove(m)
    OBVIOUS
  <2>1. Progress(m, old) /\ old \in Seq(Keys)
    BY MigrationTypes, ListProperties DEF FirstMigration
  <2>2. CASE height < m.blockHeight
    <3>1. MigrationStep = 0 /\ ~ (height' > m.blockHeight) /\ ~ (height' > EndHeight(m))
      BY <1>0, <1>2, <2>2 DEF Untouched, Undisturbed
    <3> QED
      BY <1>0, <1>2, <2>1, <3>1 DEF Progress, Stepwise, AtOnce
  <2>3. CASE height > EndHeight(m)
    <3>1. old = <<>> /\ height' > EndHeight(m) /\ ~ (height' <= EndHeight(m))
      BY <1>0, <1>2, <2>1, <2>3 DEF Progress
    <3>2. DOMAIN old = {}
      BY <3>1
    <3> QED
      BY <1>0, <1>2, <3>1, <3>2 DEF Progress, Stepwise, AtOnce
  <2> QED
    BY <1>2, <2>2, <2>3
<1>7. RefusalsExplained' /\ PanicsOnlyOnShortLists'
  BY <1>0 DEF RefusalsExplained, PanicsOnlyOnShortLists
<1> QED
  BY <1>1, <1>3, <1>4, <1>5, <1>6, <1>7

-----------------------------------------------------------------------------
\* A block that CometBFT rejects or EndBlock panics in leaves all but stopped.
LEMMA StoppedInv ==
    ASSUME IndInv, stopped' \in {"rejected", "panic"},
           UNCHANGED <<IBCEnabled, callsPreBlocker, height, phase, Migration, MigrationStep,
                       Sequencer, lastValidators, shifted, cometPower, requests>>,
           RefusalsExplained', PanicsOnlyOnShortLists'
    PROVE  IndInv'
<1>1. TypeOK'
  BY DEF IndInv, TypeOK
<1> QED
  BY <1>1, QuietInv

\* A block whose updates, all of power 0 or 1, CometBFT takes.
LEMMA TakenUpdates ==
    ASSUME TypeOK, NEW u, \A k \in DOMAIN u : u[k] \in {0, 1},
           cometPower' = [k \in Keys |-> IF k \in DOMAIN u THEN u[k] ELSE cometPower[k]]
    PROVE  /\ cometPower' \in [Keys -> Nat]
           /\ \A k \in Keys : k \in DOMAIN u => cometPower'[k] = u[k]
           /\ \A k \in Keys : k \notin DOMAIN u => cometPower'[k] = cometPower[k]
BY DEF TypeOK

\* Where migrateNow finds an undisturbed migration: at its last block all the
\* validators to go are gone already, and any earlier block is the first one.
LEMMA LastBlock ==
    ASSUME IndInv, Undisturbed, NEW m \in Migration, NEW old \in Seq(Keys),
           old = OldValsToRemove(m), IsMigrating(m), IBCEnabled => OverDone
    PROVE  \/ height = EndHeight(m) /\ \A k \in Elems(old) : cometPower[k] = 0
           \/ ~ IBCEnabled /\ height = m.blockHeight /\ cometPower = InitPower
<1> USE DEF IndInv
<1>1. Progress(m, old)
  BY DEF FirstMigration
<1>2. /\ m.blockHeight \in Nat /\ height \in Nat /\ EndHeight(m) \in Nat
      /\ EndHeight(m) = IF IBCEnabled THEN m.blockHeight + IBCSmoothingFactor
                        ELSE m.blockHeight + 1
      /\ MigrationStep \in Nat /\ MigrationStep <= IBCSmoothingFactor
      /\ height >= m.blockHeight /\ height <= EndHeight(m)
      /\ IBCSmoothingFactor \in Nat \ {0}
  BY MigrationTypes, RollkitMngrAssumption DEF IsMigrating
<1>3. CASE IBCEnabled
  <2>1. MigrationStep = IBCSmoothingFactor /\ Stepwise(m, old)
    BY <1>1, <1>2, <1>3 DEF OverDone, Progress
  <2>2. height = EndHeight(m)
    BY <1>2, <1>3, <2>1 DEF Stepwise
  <2>3. \A i \in DOMAIN old : cometPower[old[i]] = 0
    BY <2>1, LastStart DEF Stepwise
  <2> QED
    BY <2>2, <2>3 DEF Elems
<1>4. CASE ~ IBCEnabled /\ height > m.blockHeight
  <2>1. height = EndHeight(m) /\ \A i \in DOMAIN old : cometPower[old[i]] = 0
    BY <1>1, <1>2, <1>4 DEF Progress, AtOnce
  <2> QED
    BY <2>1 DEF Elems
<1>5. CASE ~ IBCEnabled /\ ~ (height > m.blockHeight)
  <2>1. height = m.blockHeight /\ requests = 1
    BY <1>2, <1>5 DEF Undisturbed
  <2> QED
    BY <1>2, <1>5, <2>1 DEF Untouched
<1> QED
  BY <1>3, <1>4, <1>5

\* migrateNow: the sequencer is stored, all powers are 0 or 1, and whoever is
\* to go is removed, in the last block for the second time.
LEMMA MigrateNowInv ==
    ASSUME IndInv, NEW m \in Migration, MigrateNow(m)
    PROVE  IndInv'
<1> USE DEF IndInv
<1> DEFINE u == NowUpdates(m)
           step == IF IBCEnabled THEN 0 ELSE MigrationStep
<1> PICK old : old = OldValsToRemove(m)
  OBVIOUS
<1>0. /\ stopped = "no" /\ phase = "txs" /\ height < MaxHeight
      /\ IsMigrating(m) /\ (IBCEnabled => OverDone)
      /\ FinishBlock(u, step, NewSequencer(m))
      /\ UNCHANGED <<IBCEnabled, callsPreBlocker, Migration, lastValidators, shifted, requests>>
  BY DEF MigrateNow, Running, chain, staking
<1>1. /\ m.blockHeight \in Nat /\ m.sequencer \in Keys /\ m.attesters \in Seq(Keys)
      /\ height \in Nat /\ EndHeight(m) \in Nat
      /\ EndHeight(m)' = EndHeight(m) /\ OldValsToRemove(m)' = old
      /\ height >= m.blockHeight /\ height <= EndHeight(m)
      /\ EndHeight(m) = IF IBCEnabled THEN m.blockHeight + IBCSmoothingFactor
                        ELSE m.blockHeight + 1
      /\ \A n \in Migration : n = m
      /\ MaxHeight \in Nat /\ IBCSmoothingFactor \in Nat \ {0}
  BY <1>0, MigrationTypes, MigrationFixed, RollkitMngrAssumption DEF IsMigrating, Items
<1>2. /\ DOMAIN u = Elems(lastValidators) \cup Target(m)
      /\ \A k \in DOMAIN u : u[k] \in {0, 1}
      /\ \A k \in DOMAIN u : u[k] = 0 <=> k \in Elems(old)
      /\ old \in Seq(Keys) /\ Elems(old) \subseteq Keys
      /\ Elems(old) \subseteq DOMAIN u
  <2>1. /\ old \in Seq(Keys) /\ Elems(old) = Elems(lastValidators) \ Target(m)
        /\ Elems(old) \subseteq Keys
    BY <1>1, ListProperties
  <2> QED
    BY <2>1 DEF NowUpdates
<1>3. \E k \in Keys : k \in DOMAIN u /\ u[k] # 0
  <2>1. \E k \in Keys : k \in Target(m)
    <3>1. CASE m.attesters = <<>>
      BY <1>1, <3>1 DEF Target
    <3>2. CASE m.attesters # <<>>
      <4>1. 1 \in DOMAIN m.attesters /\ m.attesters[1] \in Keys
        BY <1>1, <3>2
      <4> QED
        BY <3>2, <4>1 DEF Target, Elems
    <3> QED
      BY <3>1, <3>2
  <2> QED
    BY <2>1 DEF NowUpdates
<1> HIDE DEF u
<1>4. Undisturbed =>
         \/ height = EndHeight(m) /\ \A k \in Elems(old) : cometPower[k] = 0
         \/ ~ IBCEnabled /\ height = m.blockHeight /\ cometPower = InitPower
  BY <1>0, <1>2, LastBlock
<1>5. CASE Rejected(u) /\ stopped' = "rejected" /\
           UNCHANGED <<height, phase, cometPower, MigrationStep, Sequencer>>
  <2>1. PICK k \in Elems(old) : cometPower[k] = 0
    BY <1>2, <1>3, <1>5 DEF Rejected
  <2>2. RefusalsExplained'
    <3> SUFFICES ASSUME Undisturbed
                 PROVE  \/ height = EndHeight(m) /\ old # <<>>
                        \/ ~ Elems(old) \subseteq Elems(InitValidators)
      BY <1>0, <1>1, <1>5 DEF RefusalsExplained, Undisturbed
    <3>1. old # <<>>
      BY <2>1 DEF Elems
    <3>2. cometPower = InitPower => k \notin Elems(InitValidators)
      BY <1>2, <2>1, RollkitMngrAssumption
    <3> QED
      BY <1>4, <2>1, <3>1, <3>2
  <2>3. PanicsOnlyOnShortLists'
    BY <1>5 DEF PanicsOnlyOnShortLists
  <2> QED
    BY <1>0, <1>5, <2>2, <2>3, StoppedInv
<1>6. CASE /\ ~ Rejected(u)
           /\ MigrationStep' = step /\ Sequencer' = NewSequencer(m)
           /\ cometPower' = [k \in Keys |-> IF k \in DOMAIN u THEN u[k] ELSE cometPower[k]]
           /\ height' = height + 1 /\ phase' = "preblock" /\ UNCHANGED stopped
  <2>2. /\ cometPower' \in [Keys -> Nat]
        /\ \A k \in Keys : k \in DOMAIN u => cometPower'[k] = u[k]
        /\ \A k \in Keys : k \notin DOMAIN u => cometPower'[k] = cometPower[k]
    BY <1>2, <1>6, TakenUpdates
  <2>3. MigrationStep' = 0
    BY <1>6 DEF Items
  <2>4. TypeOK'
    BY <1>0, <1>1, <1>6, <2>2, <2>3 DEF TypeOK, NewSequencer
  <2>5. Items' /\ Untouched'
    <3>1. height' > m.blockHeight /\ ~ (height' <= m.blockHeight)
      BY <1>1, <1>6
    <3> QED
      BY <1>0, <1>1, <2>3, <3>1 DEF Items, Untouched
  <2>6. Level'
    BY <1>2, <2>2, <2>3 DEF Level, LevelDuringMigration
  <2>7. Endings'
    BY <1>0, <1>1, <1>6 DEF Endings, Ending, NewSequencer
  <2>8. FirstMigration'
    <3> SUFFICES ASSUME Undisturbed PROVE Progress(m, old)'
      BY <1>0, <1>1 DEF FirstMigration, Undisturbed
    <3>1. \A k \in Elems(old) : cometPower[k] # 0
      BY <1>2, <1>6 DEF Rejected
    <3>2. \A i \in DOMAIN old : old[i] \in Elems(old) /\ cometPower'[old[i]] = 0
      BY <1>2, <2>2 DEF Elems
    <3>3. CASE height = EndHeight(m)
      <4>1. Elems(old) = {}
        BY <1>1, <1>4, <3>1, <3>3
      <4>2. DOMAIN old = {}
        BY <4>1 DEF Elems
      <4>3. old = <<>>
        BY <1>2, <4>2
      <4>4. ~ (height' <= EndHeight(m))
        BY <1>1, <1>6, <3>3
      <4> QED
        BY <1>1, <4>2, <4>3, <4>4 DEF Progress, Stepwise, AtOnce
    <3>4. CASE height # EndHeight(m)
      <4>1. ~ IBCEnabled /\ ~ (height' > EndHeight(m))
        BY <1>1, <1>4, <1>6, <3>4
      <4> QED
        BY <1>0, <1>1, <3>2, <4>1 DEF Progress, AtOnce
    <3> QED
      BY <3>3, <3>4
  <2>9. RefusalsExplained' /\ PanicsOnlyOnShortLists'
    BY <1>0, <1>6 DEF RefusalsExplained, PanicsOnlyOnShortLists
  <2> QED
    BY <2>4, <2>5, <2>6, <2>7, <2>8, <2>9
<1> QED
  BY <1>0, <1>5, <1>6 DEF FinishBlock

\* One step of migrateOver: the slices of the first migration are disjoint,
\* so each validator is still there when its turn comes.
LEMMA MigrateOverInv ==
    ASSUME IndInv, NEW m \in Migration, MigrateOver(m)
    PROVE  IndInv'
<1> USE DEF IndInv
<1> DEFINE step == MigrationStep
           old == OldValsToRemove(m)
           u == OverUpdates(m, step)
<1>0. /\ stopped = "no" /\ phase = "txs" /\ height < MaxHeight
      /\ IsMigrating(m) /\ IBCEnabled /\ ~ OverDone
      /\ UNCHANGED <<IBCEnabled, callsPreBlocker, Migration, lastValidators, shifted, requests>>
  BY DEF MigrateOver, Running, chain, staking
<1>1. /\ m.blockHeight \in Nat /\ m.sequencer \in Keys /\ m.attesters \in Seq(Keys)
      /\ height \in Nat /\ EndHeight(m) \in Nat /\ EndHeight(m)' = EndHeight(m)
      /\ EndHeight(m) = m.blockHeight + IBCSmoothingFactor
      /\ OldValsToRemove(m)' = old /\ NewAttestersToAdd(m)' = NewAttestersToAdd(m)
      /\ height >= m.blockHeight /\ height <= EndHeight(m)
      /\ \A n \in Migration : n = m
      /\ step \in Nat /\ step < IBCSmoothingFactor
      /\ MaxHeight \in Nat /\ IBCSmoothingFactor \in Nat \ {0}
  BY <1>0, MigrationTypes, MigrationFixed, RollkitMngrAssumption
     DEF IsMigrating, Items, OverDone
<1>2. /\ old \in Seq(Keys) /\ NewAttestersToAdd(m) \in Seq(Keys)
      /\ Elems(old) \subseteq Elems(lastValidators)
      /\ Elems(NewAttestersToAdd(m)) \cap Elems(lastValidators) = {}
      /\ \A i, j \in DOMAIN old : old[i] = old[j] => i = j
  BY <1>1, ListProperties
<1>3. CASE /\ stopped' = "panic"
           /\ UNCHANGED <<height, phase, MigrationStep, Sequencer, cometPower>>
           /\ \/ SlicePanics(OldValsToRemove(m), MigrationStep)
              \/ SlicePanics(NewAttestersToAdd(m), MigrationStep)
  <2>1. RefusalsExplained'
    BY <1>3 DEF RefusalsExplained
  <2>2. PICK s \in {old, NewAttestersToAdd(m)} : SlicePanics(s, step)
    BY <1>3
  <2> HIDE DEF old
  <2>3. s \in Seq(Keys) /\ Len(s) \in Nat /\ PerStep(s) \in Nat
    <3>1. s \in Seq(Keys)
      BY <1>2
    <3>2. Len(s) \in Nat
      BY <3>1
    <3> QED
      BY <3>1, <3>2, <1>1, SliceProperties
  <2>4. step * PerStep(s) <= (IBCSmoothingFactor - 1) * PerStep(s)
    <3>1. IBCSmoothingFactor - 1 \in Nat /\ step <= IBCSmoothingFactor - 1
      BY <1>1
    <3> QED
      BY <1>1, <2>3, <3>1, TimesMonotonic
  <2>5. step * PerStep(s) > Len(s)
    BY <2>2 DEF SlicePanics, Start
  <2>6. (IBCSmoothingFactor - 1) * PerStep(s) > Len(s)
    <3> DEFINE x == step * PerStep(s)
               y == (IBCSmoothingFactor - 1) * PerStep(s)
    <3>1. x \in Int /\ y \in Int
      BY <1>1, <2>3
    <3> HIDE DEF x, y
    <3>2. x <= y /\ x > Len(s)
      BY <2>4, <2>5 DEF x, y
    <3>3. y > Len(s)
      BY <2>3, <3>1, <3>2
    <3> QED
      BY <3>3 DEF y
  <2>7. PanicsOnlyOnShortLists'
    BY <1>0, <1>1, <2>2, <2>6 DEF PanicsOnlyOnShortLists, old
  <2> QED
    BY <1>0, <1>3, <2>1, <2>7, StoppedInv
<1> DEFINE gone == Slice(old, step)
           new == Slice(NewAttestersToAdd(m), step)
<1>4. /\ \A k \in DOMAIN u : u[k] = IF k \in gone THEN 0 ELSE 1
      /\ gone \subseteq DOMAIN u /\ new \subseteq DOMAIN u
      /\ step = 0 => DOMAIN u = gone \cup new \cup Elems(lastValidators)
      /\ step # 0 => DOMAIN u = gone \cup new
  BY DEF OverUpdates
<1>5. /\ \A x : x \in gone <=> \E i \in DOMAIN old :
                  old[i] = x /\ Start(old, step) < i /\ i <= Start(old, step + 1)
      /\ Start(old, step) \in Nat /\ Start(old, step + 1) \in Nat
      /\ Start(old, step) <= Start(old, step + 1)
  <2> HIDE DEF old
  <2>1. /\ PerStep(old) \in Nat
        /\ Start(old, step) \in Nat /\ Start(old, step + 1) = Start(old, step) + PerStep(old)
    BY <1>1, <1>2, SliceProperties
  <2>2. \A x : x \in Slice(old, step) <=> \E i \in DOMAIN old :
                  old[i] = x /\ Start(old, step) < i /\ i <= Start(old, step + 1)
    BY <1>1, <1>2, SliceProperties
  <2> QED
    BY <2>1, <2>2
<1>6. new \subseteq Elems(NewAttestersToAdd(m))
  <2> DEFINE add == NewAttestersToAdd(m)
  <2> HIDE DEF add
  <2>1. \A x : x \in Slice(add, step) <=> \E i \in DOMAIN add :
                  add[i] = x /\ Start(add, step) < i /\ i <= Start(add, step + 1)
    <3>1. add \in Seq(Keys)
      BY <1>2 DEF add
    <3> QED
      BY <1>1, <3>1, SliceProperties
  <2>2. Slice(add, step) \subseteq Elems(add)
    BY <2>1 DEF Elems
  <2> QED
    BY <2>2 DEF add
<1> HIDE DEF old, u, gone, new
<1>7. /\ \A i \in DOMAIN old : i \in Nat /\ old[i] \in Elems(old)
      /\ \A i \in DOMAIN old : old[i] \in Keys /\ old[i] \notin new
      /\ \A i \in DOMAIN old : old[i] \in gone <=>
            Start(old, step) < i /\ i <= Start(old, step + 1)
      /\ gone \subseteq Elems(old)
  <2>1. \A i \in DOMAIN old : i \in Nat /\ old[i] \in Elems(old) /\ old[i] \in Keys
    BY <1>2 DEF Elems
  <2>2. \A i \in DOMAIN old : old[i] \notin new
    BY <1>2, <1>6, <2>1
  <2>3. \A i \in DOMAIN old : old[i] \in gone <=>
            Start(old, step) < i /\ i <= Start(old, step + 1)
    BY <1>2, <1>5
  <2>4. gone \subseteq Elems(old)
    BY <1>5 DEF Elems
  <2> QED
    BY <2>1, <2>2, <2>3, <2>4
<1>8. CASE Rejected(u) /\ stopped' = "rejected" /\
           UNCHANGED <<height, phase, cometPower, MigrationStep, Sequencer>>
  <2>1. RefusalsExplained'
    <3> SUFFICES ASSUME Undisturbed
                 PROVE  \/ ~ Elems(old) \subseteq Elems(InitValidators)
                        \/ Members \subseteq Elems(old)
      BY <1>0, <1>1, <1>8 DEF RefusalsExplained, Undisturbed, Members
    <3>1. Stepwise(m, old)
      BY <1>0 DEF FirstMigration, Progress, old
    <3>2. CASE \A k \in Keys : IF k \in DOMAIN u THEN u[k] = 0 ELSE cometPower[k] = 0
      BY <1>4, <1>7, <3>2 DEF Members, TypeOK
    <3>3. CASE \E k \in DOMAIN u : u[k] = 0 /\ cometPower[k] = 0
      <4>1. PICK i \in DOMAIN old : /\ old[i] \in gone /\ cometPower[old[i]] = 0
                                    /\ i > Start(old, step)
        BY <1>4, <1>5, <1>7, <3>3
      <4>2. step = 0 /\ ~ (height > m.blockHeight)
        BY <1>1, <3>1, <4>1 DEF Stepwise
      <4>3. cometPower = InitPower
        BY <1>1, <4>2 DEF Untouched, Undisturbed
      <4>4. old[i] \notin Elems(InitValidators)
        BY <1>7, <4>1, <4>3, RollkitMngrAssumption
      <4> QED
        BY <1>7, <4>4
    <3> QED
      BY <1>8, <3>2, <3>3 DEF Rejected
  <2>2. PanicsOnlyOnShortLists'
    BY <1>8 DEF PanicsOnlyOnShortLists
  <2> QED
    BY <1>0, <1>8, <2>1, <2>2, StoppedInv
<1>9. CASE /\ MigrationStep' = MigrationStep + 1 /\ Sequencer' = Sequencer
           /\ cometPower' = [k \in Keys |-> IF k \in DOMAIN u THEN u[k] ELSE cometPower[k]]
           /\ height' = height + 1 /\ phase' = "preblock" /\ UNCHANGED stopped
  <2>1. /\ cometPower' \in [Keys -> Nat]
        /\ \A k \in Keys : k \in DOMAIN u => cometPower'[k] = u[k]
        /\ \A k \in Keys : k \notin DOMAIN u => cometPower'[k] = cometPower[k]
    BY <1>4, <1>9, TakenUpdates
  <2>2. TypeOK'
    <3>1. height' \in 1 .. MaxHeight
      BY <1>0, <1>1, <1>9 DEF TypeOK
    <3>2. MigrationStep' \in 0 .. IBCSmoothingFactor
      BY <1>1, <1>9
    <3> QED
      BY <1>0, <1>9, <2>1, <3>1, <3>2 DEF TypeOK
  <2>3. requests \in Nat /\ requests # 0
    BY DEF Items, TypeOK
  <2>4. Items' /\ Untouched'
    <3>1. height' > m.blockHeight /\ ~ (height' <= m.blockHeight)
      BY <1>1, <1>9
    <3> QED
      BY <1>0, <1>1, <2>3, <3>1 DEF Items, Untouched
  <2>5. Level'
    <3>1. \A k \in Keys \ Elems(InitValidators) : cometPower'[k] \in {0, 1}
      BY <1>4, <2>1 DEF Level
    <3>2. ASSUME ~ shifted, NEW k \in Keys
          PROVE  cometPower'[k] \in {0, 1} \/ k \in Elems(InitValidators) \ Elems(lastValidators)
      <4>1. CASE k \in DOMAIN u
        BY <1>4, <2>1, <4>1
      <4>2. CASE k \notin DOMAIN u /\ step = 0
        BY <1>4, <3>1, <4>2
      <4>3. CASE k \notin DOMAIN u /\ step # 0
        BY <1>1, <2>1, <3>2, <4>3 DEF Level, LevelDuringMigration
      <4> QED
        BY <4>1, <4>2, <4>3
    <3> QED
      BY <1>0, <3>1, <3>2 DEF Level, LevelDuringMigration
  <2>6. Endings'
    BY <1>0, <1>1, <1>9 DEF Endings, Ending
  <2>7. FirstMigration'
    <3> SUFFICES ASSUME Undisturbed PROVE Progress(m, old)'
      BY <1>0, <1>1 DEF FirstMigration, Undisturbed, old
    <3>1. Stepwise(m, old)
      BY <1>0 DEF FirstMigration, Progress, old
    <3>2. /\ \A i \in DOMAIN old : i <= Start(old, step) => cometPower[old[i]] = 0
          /\ step > 0 => \A i \in DOMAIN old : i > Start(old, step) => cometPower[old[i]] > 0
          /\ step = IF height > m.blockHeight THEN height - m.blockHeight ELSE 0
      BY <1>1, <3>1 DEF Stepwise
    <3>3. step = 0 => Start(old, step) = 0
      BY <1>1, <1>2, SliceProperties DEF Start
    <3>4. ASSUME NEW i \in DOMAIN old, i <= Start(old, step + 1)
          PROVE  cometPower'[old[i]] = 0
      <4>1. CASE i > Start(old, step)
        BY <1>4, <1>7, <2>1, <3>4, <4>1
      <4>2. CASE i <= Start(old, step)
        <5>1. step # 0 /\ cometPower[old[i]] = 0
          <6>1. i > 0
            BY <1>2
          <6> QED
            BY <1>7, <3>2, <3>3, <4>2, <6>1
        <5>2. old[i] \notin gone
          BY <1>5, <1>7, <4>2
        <5>3. old[i] \notin DOMAIN u
          BY <1>4, <1>7, <5>1, <5>2
        <5> QED
          BY <1>7, <2>1, <5>1, <5>3
      <4> QED
        BY <1>5, <1>7, <4>1, <4>2
    <3>5. ASSUME NEW i \in DOMAIN old, i > Start(old, step + 1)
          PROVE  cometPower'[old[i]] > 0
      <4>1. old[i] \notin gone /\ i > Start(old, step)
        BY <1>5, <1>7, <3>5
      <4>2. CASE old[i] \in DOMAIN u
        BY <1>4, <1>7, <2>1, <4>1, <4>2
      <4>3. CASE old[i] \notin DOMAIN u
        <5>1. step > 0
          BY <1>1, <1>2, <1>4, <1>7, <4>3
        <5> QED
          BY <1>7, <2>1, <3>2, <4>1, <4>3, <5>1
      <4> QED
        BY <4>2, <4>3
    <3>6. MigrationStep' = IF height' > m.blockHeight THEN height' - m.blockHeight ELSE 0
      BY <1>1, <1>9, <3>2
    <3>7. height' <= EndHeight(m)
      BY <1>1, <1>9, <3>2
    <3>8. Stepwise(m, old)'
      <4> PICK o : o = old
        OBVIOUS
      <4>1. (old)' = o
        BY <1>1 DEF old
      <4>2. Stepwise(m, o)'
        BY <1>1, <1>9, <3>4, <3>5, <3>6 DEF Stepwise
      <4> QED
        BY <4>1, <4>2 DEF Stepwise
    <3> QED
      BY <1>0, <1>1, <1>9, <3>7, <3>8 DEF Progress
  <2>8. RefusalsExplained' /\ PanicsOnlyOnShortLists'
    BY <1>0, <1>9 DEF RefusalsExplained, PanicsOnlyOnShortLists
  <2> QED
    BY <2>2, <2>4, <2>5, <2>6, <2>7, <2>8
<1> QED
  BY <1>3, <1>8, <1>9 DEF MigrateOver, FinishBlock, u

-----------------------------------------------------------------------------
\* Every step keeps the invariant.
LEMMA NextInv == IndInv /\ [Next]_vars => IndInv'
BY PreBlockerInv, ChangeStakingInv, RestartInv, StutterInv, MigrateToRollkitInv, EndBlockIdleInv,
   MigrateNowInv, MigrateOverInv DEF Next

\* The strengthened invariant holds in every reachable state.
THEOREM Invariance == Spec => []IndInv
<1> QED
  BY InitInv, NextInv, PTL DEF Spec

\* The items of the module keep their types: the step counter stays within
\* IBCSmoothingFactor, also when one migration replaces another.
THEOREM TypeCorrect == Spec => []TypeOK
<1>1. IndInv => TypeOK
  BY DEF IndInv
<1> QED
  BY <1>1, Invariance, PTL

\* After the last step of an undisturbed migration every validator that was to
\* go is gone, whatever the list it has read (migration.go:138-200).
THEOREM StepsRemoveAll == Spec => []SlicesCoverTheSet
<1>1. IndInv => SlicesCoverTheSet
  <2> SUFFICES ASSUME IndInv, Undisturbed, MigrationStep = IBCSmoothingFactor,
                      NEW m \in Migration
               PROVE  Members \cap Elems(OldValsToRemove(m)) = {}
    BY DEF SlicesCoverTheSet
  <2> PICK old : old = OldValsToRemove(m)
    OBVIOUS
  <2>1. IBCEnabled
    BY RollkitMngrAssumption DEF IndInv, Items
  <2>2. \A i \in DOMAIN old : i <= Start(old, IBCSmoothingFactor) => cometPower[old[i]] = 0
    BY <2>1 DEF IndInv, FirstMigration, Progress, Stepwise
  <2>3. old \in Seq(Keys)
    BY MigrationTypes, ListProperties DEF IndInv
  <2>4. \A i \in DOMAIN old : cometPower[old[i]] = 0
    BY <2>2, <2>3, LastStart
  <2> QED
    BY <2>4 DEF Elems, Members
<1> QED
  BY <1>1, Invariance, PTL

\* CometBFT refuses an update of an undisturbed migration only in its last
\* block, for a validator it was never told of, or because nobody would be
\* left (migration.go:50-113, 128-200).
THEOREM RefusalsAreExplained == Spec => []RefusalsExplained
<1>1. IndInv => RefusalsExplained
  BY DEF IndInv
<1> QED
  BY <1>1, Invariance, PTL

\* No undisturbed migration that removes anybody gets past its last block,
\* which removes them once more (abci.go:65-70, migration.go:128-133).
THEOREM RemovalsStopTheChain == Spec => []NoRemovalGetsThrough
<1>1. IndInv => NoRemovalGetsThrough
  BY DEF IndInv, FirstMigration, Progress, NoRemovalGetsThrough
<1> QED
  BY <1>1, Invariance, PTL

\* While the steps run on one list, every power is 0 or 1 but for validators
\* the list had lost before (migration.go:203-229).
THEOREM PowersAreLevel == Spec => []LevelDuringMigration
<1>1. IndInv => LevelDuringMigration
  BY DEF IndInv, Level
<1> QED
  BY <1>1, Invariance, PTL

\* Beyond the end of a migration its sequencer is stored, whatever migration
\* came before and whether or not the chain stops there (migration.go:43).
THEOREM SwitchFindsSequencer == Spec => []SequencerKnownAtHalt
<1>1. IndInv => SequencerKnownAtHalt
  BY StoredAtEnd DEF IndInv, Endings, SequencerKnownAtHalt
<1> QED
  BY <1>1, Invariance, PTL

\* EndBlock panics only for a list whose slices, rounded up, are used up
\* before the last step (migration.go:147-185).
THEOREM PanicsAreForeseeable == Spec => []PanicsOnlyOnShortLists
<1>1. IndInv => PanicsOnlyOnShortLists
  BY DEF IndInv
<1> QED
  BY <1>1, Invariance, PTL
=============================================================================
