----------------------------- MODULE CodecProofs -----------------------------
(***************************************************************************)
(* Proofs about Codec, for words of any width above that of the small      *)
(* integers and for every input.                                           *)
(***************************************************************************)
EXTENDS Codec, SequenceTheorems, WellFoundedInduction, TLAPS

-----------------------------------------------------------------------------
(***************************************************************************)
(* Recursion and numbers.                                                  *)
(***************************************************************************)
\* Every nonempty set of naturals has a least element.
LEMMA Least ==
    ASSUME NEW S, S \subseteq Nat, S # {}
    PROVE  \E m \in S : \A k \in S : m <= k
<1> DEFINE R == {p \in Nat \X Nat : p[1] < p[2]}
<1>1. R = OpToRel(<, Nat)
  BY DEF OpToRel
<1>2. IsWellFoundedOn(R, Nat)
  BY <1>1, NatLessThanWellFounded, Zenon
<1> HIDE DEF R
<1>3. PICK m \in S : \A k \in S : ~ (<<k, m>> \in R)
  BY <1>2, WFMin
<1>4. ASSUME NEW k \in S PROVE m <= k
  <2>1. k \in Nat /\ m \in Nat
    OBVIOUS
  <2>2. k < m => <<k, m>> \in R
    BY <2>1 DEF R
  <2> QED
    BY <1>3, <2>1, <2>2
<1> QED
  BY <1>4

\* Induction: a set that has 0 and with every number below n the next one has
\* them all, up to n.
LEMMA UpTo ==
    ASSUME NEW S, NEW n \in Nat, 0 \in S,
           \A k \in 0 .. n : k \in S /\ k < n => k + 1 \in S
    PROVE  \A k \in 0 .. n : k \in S
<1> DEFINE Out == {k \in 0 .. n : k \notin S}
<1> SUFFICES ASSUME Out # {} PROVE FALSE
  OBVIOUS
<1>1. Out \subseteq Nat
  OBVIOUS
<1>2. PICK m \in Out : \A k \in Out : m <= k
  BY <1>1, Least
<1>3. m # 0 /\ m \in 0 .. n
  BY <1>2
<1>4. m - 1 \in 0 .. n /\ m - 1 < n /\ (m - 1) + 1 = m /\ ~ (m <= m - 1)
  BY <1>3
<1>5. m - 1 \in S
  BY <1>2, <1>4
<1> QED
  BY <1>2, <1>4, <1>5

\* All numbers.
LEMMA Naturally ==
    ASSUME NEW S, 0 \in S, \A k \in Nat : k \in S => k + 1 \in S
    PROVE  \A k \in Nat : k \in S
<1> SUFFICES ASSUME NEW n \in Nat PROVE n \in S
  OBVIOUS
<1>1. \A k \in 0 .. n : k \in S
  BY UpTo
<1> QED
  BY <1>1

\* f runs through n rounds of step, from a.
Runs(f, n, a, step) ==
    f = [k \in 0 .. n |-> IF k = 0 THEN a ELSE step[<<k, f[k - 1]>>]]

\* What is defined by recursion exists.
LEMMA RunExists ==
    ASSUME NEW n \in Nat, NEW a, NEW step
    PROVE  \E f : Runs(f, n, a, step)
<1> DEFINE S == {k \in Nat : \E f : Runs(f, k, a, step)}
<1>1. 0 \in S
  <2>1. Runs([k \in 0 .. 0 |-> a], 0, a, step)
    BY DEF Runs
  <2> QED
    BY <2>1
<1>2. ASSUME NEW k \in Nat, k \in S PROVE k + 1 \in S
  <2>1. PICK f : Runs(f, k, a, step)
    BY <1>2
  <2> DEFINE g == [i \in 0 .. k + 1 |->
                     IF i = k + 1 THEN step[<<k + 1, f[k]>>] ELSE f[i]]
  <2>2. ASSUME NEW i \in 0 .. k + 1
        PROVE  g[i] = IF i = 0 THEN a ELSE step[<<i, g[i - 1]>>]
    <3>1. CASE i = k + 1
      <4>1. k \in 0 .. k + 1 /\ k # k + 1 /\ i # 0 /\ i - 1 = k
        BY <3>1
      <4>2. g[k] = f[k]
        BY <4>1
      <4> QED
        BY <3>1, <4>1, <4>2
    <3>2. CASE i # k + 1
      <4>1. i \in 0 .. k /\ g[i] = f[i]
        BY <3>2
      <4>2. f[i] = IF i = 0 THEN a ELSE step[<<i, f[i - 1]>>]
        BY <2>1, <4>1 DEF Runs
      <4>3. i # 0 => i - 1 \in 0 .. k + 1 /\ i - 1 # k + 1
        BY <4>1
      <4>4. i # 0 => g[i - 1] = f[i - 1]
        BY <4>3
      <4> QED
        BY <4>1, <4>2, <4>4
    <3> QED
      BY <3>1, <3>2
  <2>3. g = [i \in 0 .. k + 1 |-> g[i]]
    OBVIOUS
  <2> HIDE DEF g
  <2>4. Runs(g, k + 1, a, step)
    BY <2>2, <2>3 DEF Runs
  <2> QED
    BY <2>4
<1> HIDE DEF S
<1>3. n \in S
  BY <1>1, <1>2, Naturally
<1> QED
  BY <1>3 DEF S

\* If the rounds stay within S, so does the run.
LEMMA RunIn ==
    ASSUME NEW n \in Nat, NEW a, NEW S, a \in S, NEW step,
           \A k \in 1 .. n, x \in S : step[<<k, x>>] \in S
    PROVE  \E f : Runs(f, n, a, step) /\ \A k \in 0 .. n : f[k] \in S
<1>1. PICK f : Runs(f, n, a, step)
  BY RunExists
<1>2. \A k \in 0 .. n : f[k] = IF k = 0 THEN a ELSE step[<<k, f[k - 1]>>]
  BY <1>1 DEF Runs
<1> DEFINE T == {k \in 0 .. n : f[k] \in S}
<1>3. 0 \in T
  <2>1. 0 \in 0 .. n
    OBVIOUS
  <2>2. f[0] = a
    BY <1>2, <2>1
  <2> QED
    BY <2>1, <2>2
<1>4. ASSUME NEW k \in 0 .. n, k \in T, k < n PROVE k + 1 \in T
  <2>1. k + 1 \in 0 .. n /\ k + 1 \in 1 .. n /\ k + 1 # 0 /\ (k + 1) - 1 = k
    BY <1>4
  <2>2. f[k + 1] = step[<<k + 1, f[k]>>]
    BY <1>2, <2>1
  <2> QED
    BY <1>4, <2>1, <2>2
<1> HIDE DEF T
<1>5. \A k \in 0 .. n : k \in T
  BY <1>3, <1>4, UpTo
<1> QED
  BY <1>1, <1>5 DEF T

\* Two is the powers of two.
LEMMA TwoUnfolds ==
    /\ Two[0] = 1
    /\ \A n \in 0 .. WordBits : n # 0 => Two[n] = 2 * Two[n - 1]
<1> DEFINE Step(f) == [n \in 0 .. WordBits |-> IF n = 0 THEN 1 ELSE 2 * f[n - 1]]
           step == [p \in (0 .. WordBits) \X Int |-> 2 * p[2]]
<1>1. PICK f : Runs(f, WordBits, 1, step)
  BY WidthsAssumption, RunExists, Zenon
<1>2. \A n \in 0 .. WordBits : f[n] = IF n = 0 THEN 1 ELSE step[<<n, f[n - 1]>>]
  BY <1>1, Zenon DEF Runs
<1> DEFINE S == {n \in 0 .. WordBits : f[n] \in Int}
<1>3. \A n \in 0 .. WordBits : f[n] \in Int
  <2>1. 0 \in S
    <3>1. 0 \in 0 .. WordBits
      BY WidthsAssumption
    <3>2. f[0] = 1
      BY <1>2, <3>1, Zenon
    <3> QED
      BY <3>1, <3>2
  <2>2. ASSUME NEW n \in 0 .. WordBits, n \in S, n < WordBits PROVE n + 1 \in S
    <3>1. n + 1 \in 0 .. WordBits /\ n + 1 # 0 /\ (n + 1) - 1 = n /\ f[n] \in Int
      BY <2>2, WidthsAssumption
    <3>2. f[n + 1] = step[<<n + 1, f[n]>>]
      BY <1>2, <3>1
    <3> QED
      BY <3>1, <3>2
  <2> HIDE DEF S
  <2>3. \A n \in 0 .. WordBits : n \in S
    BY <2>1, <2>2, UpTo, WidthsAssumption
  <2> QED
    BY <2>3 DEF S
<1>4. \A n \in 0 .. WordBits : f[n] = IF n = 0 THEN 1 ELSE 2 * f[n - 1]
  <2> SUFFICES ASSUME NEW n \in 0 .. WordBits, n # 0 PROVE f[n] = 2 * f[n - 1]
    BY <1>2, Zenon
  <2>1. n - 1 \in 0 .. WordBits
    BY WidthsAssumption
  <2>2. step[<<n, f[n - 1]>>] = 2 * f[n - 1]
    BY <1>3, <2>1
  <2> QED
    BY <1>2, <2>2, Zenon
<1>5. f = [n \in 0 .. WordBits |-> f[n]]
  BY <1>1, Zenon DEF Runs
<1>6. f = Step(f)
  BY <1>4, <1>5, Zenon
<1>7. Two = CHOOSE g : g = Step(g)
  BY DEF Two
<1>8. Two = Step(Two)
  BY <1>6, <1>7, Zenon
<1>9. \A n \in 0 .. WordBits : Two[n] = IF n = 0 THEN 1 ELSE 2 * Two[n - 1]
  BY <1>8
<1> QED
  BY <1>9, WidthsAssumption

LEMMA TwoNat == \A n \in 0 .. WordBits : Two[n] \in Nat /\ Two[n] > 0
<1> DEFINE S == {n \in 0 .. WordBits : Two[n] \in Nat /\ Two[n] > 0}
<1>1. 0 \in S
  BY TwoUnfolds, WidthsAssumption
<1>2. ASSUME NEW n \in 0 .. WordBits, n \in S, n < WordBits PROVE n + 1 \in S
  <2>1. n + 1 \in 0 .. WordBits /\ n + 1 # 0 /\ (n + 1) - 1 = n
    BY <1>2, WidthsAssumption
  <2>2. Two[n + 1] = 2 * Two[n]
    BY <2>1, TwoUnfolds
  <2> QED
    BY <1>2, <2>1, <2>2
<1> HIDE DEF S
<1>3. \A n \in 0 .. WordBits : n \in S
  BY <1>1, <1>2, UpTo, WidthsAssumption
<1> QED
  BY <1>3 DEF S

LEMMA TwoSums ==
    \A a, b \in Nat : a + b <= WordBits => Two[a + b] = Two[a] * Two[b]
<1> SUFFICES ASSUME NEW a \in Nat, NEW c \in Nat, a + c <= WordBits
             PROVE  Two[a + c] = Two[a] * Two[c]
  OBVIOUS
<1> USE WidthsAssumption
<1> DEFINE S == {b \in 0 .. c : Two[a + b] = Two[a] * Two[b]}
<1>1. 0 \in S
  <2>1. a \in 0 .. WordBits /\ a + 0 = a
    OBVIOUS
  <2>2. Two[a] \in Nat
    BY <2>1, TwoNat
  <2> QED
    BY <2>1, <2>2, TwoUnfolds
<1>2. ASSUME NEW b \in 0 .. c, b \in S, b < c PROVE b + 1 \in S
  <2>1. /\ b + 1 \in 0 .. WordBits /\ b + 1 # 0 /\ (b + 1) - 1 = b
        /\ a + (b + 1) \in 0 .. WordBits /\ a + (b + 1) # 0
        /\ (a + (b + 1)) - 1 = a + b /\ b + 1 \in 0 .. c
        /\ a \in 0 .. WordBits /\ b \in 0 .. WordBits
    BY <1>2
  <2>2. Two[b + 1] = 2 * Two[b] /\ Two[a + (b + 1)] = 2 * Two[a + b]
    BY <2>1, TwoUnfolds
  <2>3. Two[a + b] = Two[a] * Two[b]
    BY <1>2
  <2>4. Two[a] \in Nat /\ Two[b] \in Nat
    BY <2>1, TwoNat
  <2>5. \A x, y \in Nat : 2 * (x * y) = x * (2 * y)
    OBVIOUS
  <2>6. Two[a + (b + 1)] = Two[a] * Two[b + 1]
    BY <2>2, <2>3, <2>4, <2>5
  <2> QED
    BY <2>1, <2>6
<1> HIDE DEF S
<1>3. \A b \in 0 .. c : b \in S
  BY <1>1, <1>2, UpTo
<1>4. c \in S
  BY <1>3
<1> QED
  BY <1>4 DEF S

\* The product of two positive numbers is no smaller than either.
LEMMA ProductGrows ==
    ASSUME NEW x \in Nat, NEW y \in Nat, y > 0
    PROVE  x * y \in Nat /\ x <= x * y
<1>1. y = (y - 1) + 1 /\ y - 1 \in Nat
  OBVIOUS
<1>2. \A d \in Nat : x * (d + 1) = x * d + x /\ x * d \in Nat
  OBVIOUS
<1>3. x * y = x * (y - 1) + x /\ x * (y - 1) \in Nat
  BY <1>1, <1>2
<1> QED
  BY <1>3

LEMMA TwoGrows ==
    \A a, b \in 0 .. WordBits : a <= b => Two[a] <= Two[b]
<1> SUFFICES ASSUME NEW a \in 0 .. WordBits, NEW b \in 0 .. WordBits, a <= b
             PROVE  Two[a] <= Two[b]
  OBVIOUS
<1>1. a \in Nat /\ b - a \in Nat /\ b - a \in 0 .. WordBits /\ a + (b - a) = b
  BY WidthsAssumption
<1>2. Two[b] = Two[a] * Two[b - a]
  BY <1>1, TwoSums, WidthsAssumption
<1>3. Two[a] \in Nat /\ Two[b - a] \in Nat /\ Two[b - a] > 0
  BY <1>1, TwoNat
<1> QED
  BY <1>2, <1>3, ProductGrows

-----------------------------------------------------------------------------
(***************************************************************************)
(* Division.                                                               *)
(***************************************************************************)
LEMMA Division ==
    ASSUME NEW v \in Int, NEW d \in Nat, d > 0
    PROVE  /\ v \div d \in Int /\ v % d \in 0 .. d - 1
           /\ v = d * (v \div d) + (v % d)
           /\ v \in Nat => v \div d \in Nat
  OBVIOUS
LEMMA DivisionUnique ==
    ASSUME NEW d \in Nat, d > 0, NEW q \in Int, NEW r \in 0 .. d - 1
    PROVE  (d * q + r) \div d = q /\ (d * q + r) % d = r
  OBVIOUS
LEMMA Small ==
    ASSUME NEW d \in Nat, NEW v \in 0 .. d - 1
    PROVE  v \div d = 0 /\ v % d = v
  OBVIOUS

\* A remainder by a multiple keeps the remainder.
LEMMA ModInside ==
    ASSUME NEW v \in Int, NEW d \in Nat, NEW e \in Nat, d > 0, e > 0
    PROVE  (v % (d * e)) % d = v % d
<1>1. PICK de \in Nat : de = d * e /\ de > 0
  <2>1. d * e \in Nat /\ d * e >= d
    BY ProductGrows
  <2> QED
    BY <2>1
<1>2. PICK q \in Int, r \in 0 .. de - 1 : v = de * q + r /\ v % de = r
  BY <1>1, Division
<1>3. PICK p \in Int, t \in 0 .. d - 1 : r = d * p + t /\ r % d = t
  BY <1>2, Division
<1>4. v = d * (e * q + p) + t
  <2>1. (d * e) * q = d * (e * q)
    OBVIOUS
  <2>2. d * (e * q + p) = d * (e * q) + d * p
    OBVIOUS
  <2>3. d * (e * q) \in Int /\ d * p \in Int
    OBVIOUS
  <2> QED
    BY <1>1, <1>2, <1>3, <2>1, <2>2, <2>3
<1>5. e * q + p \in Int
  OBVIOUS
<1>6. v % d = t
  BY <1>4, <1>5, DivisionUnique
<1> QED
  BY <1>1, <1>2, <1>3, <1>6

-----------------------------------------------------------------------------
(***************************************************************************)
(* Reading a varint.                                                       *)
(***************************************************************************)
\* Where the loop can stop: after k bytes.
Ends(s, i) == {k \in 1 .. WordBits : /\ 7 * (k - 1) < WordBits
                                     /\ i + k <= Len(s) /\ s[i + k] < 128}

\* f is the value of the varint at i after each of n bytes.
Accumulates(f, s, i, n) ==
    f = [k \in 0 .. n |->
           IF k = 0 THEN 0
           ELSE (f[k - 1] + (s[i + k] % 128) * Two[7 * (k - 1)]) % Two[WordBits]]

\* n bytes can be read at i, at most as many as a word has.
Readable(s, i, n) ==
    /\ s \in Seq(Byte) /\ i \in Nat /\ n \in Nat /\ i + n <= Len(s)
    /\ \A k \in 1 .. n : 7 * (k - 1) < WordBits

LEMMA Digit ==
    ASSUME NEW s, NEW i, NEW n, Readable(s, i, n), NEW k \in 1 .. n
    PROVE  /\ s[i + k] \in Byte /\ s[i + k] % 128 \in 0 .. 127
           /\ 7 * (k - 1) \in 0 .. WordBits
           /\ (s[i + k] % 128) * Two[7 * (k - 1)] \in Nat
<1>1. i + k \in 1 .. Len(s)
  BY DEF Readable
<1>2. s[i + k] \in Byte
  BY <1>1 DEF Readable
<1>3. s[i + k] % 128 \in 0 .. 127
  BY <1>2 DEF Byte
<1>4. 7 * (k - 1) \in 0 .. WordBits
  BY WidthsAssumption DEF Readable
<1>5. Two[7 * (k - 1)] \in Nat
  BY <1>4, TwoNat
<1> QED
  BY <1>2, <1>3, <1>4, <1>5

LEMMA AccumulatesExists ==
    ASSUME NEW s, NEW i, NEW n, Readable(s, i, n)
    PROVE  \E f : Accumulates(f, s, i, n)
<1> DEFINE Digits(k) == (s[i + k] % 128) * Two[7 * (k - 1)]
           step == [p \in (0 .. n) \X Int |-> (p[2] + Digits(p[1])) % Two[WordBits]]
<1>0. n \in Nat
  BY DEF Readable
<1>1. PICK f : Runs(f, n, 0, step)
  BY <1>0, RunExists, ZenonT(60)
<1>2. \A k \in 0 .. n : f[k] = IF k = 0 THEN 0 ELSE step[<<k, f[k - 1]>>]
  BY <1>1, ZenonT(60) DEF Runs
<1>t. Two[WordBits] \in Nat /\ Two[WordBits] > 0
  BY TwoNat, WidthsAssumption
<1>d. \A k \in 1 .. n : Digits(k) \in Nat
  BY Digit
<1> HIDE DEF Digits
<1>s. ASSUME NEW k \in 0 .. n, k # 0, f[k - 1] \in Int
      PROVE  /\ f[k] = (f[k - 1] + Digits(k)) % Two[WordBits]
             /\ f[k] \in Int
  <2>1. step[<<k, f[k - 1]>>] = (f[k - 1] + Digits(k)) % Two[WordBits]
    BY <1>s
  <2>2. f[k] = (f[k - 1] + Digits(k)) % Two[WordBits]
    BY <1>2, <1>s, <2>1, Zenon
  <2>3. k \in 1 .. n
    BY <1>s, <1>0
  <2>4. f[k - 1] + Digits(k) \in Int
    BY <1>d, <1>s, <2>3
  <2>5. (f[k - 1] + Digits(k)) % Two[WordBits] \in Int
    BY <1>t, <2>4, Division
  <2> QED
    BY <2>2, <2>5
<1> HIDE DEF step
<1> DEFINE S == {k \in 0 .. n : f[k] \in Int}
<1>3. \A k \in 0 .. n : f[k] \in Int
  <2>1. 0 \in S
    <3>1. 0 \in 0 .. n
      BY <1>0
    <3>2. f[0] = 0
      BY <1>2, <3>1
    <3> QED
      BY <3>1, <3>2
  <2>2. ASSUME NEW k \in 0 .. n, k \in S, k < n PROVE k + 1 \in S
    <3>1. k + 1 \in 0 .. n /\ k + 1 # 0 /\ (k + 1) - 1 = k
      BY <1>0, <2>2
    <3> QED
      BY <1>s, <2>2, <3>1
  <2> HIDE DEF S
  <2>3. \A k \in 0 .. n : k \in S
    BY <1>0, <2>1, <2>2, UpTo
  <2> QED
    BY <2>3 DEF S
<1>4. \A k \in 0 .. n : f[k] = IF k = 0 THEN 0
                               ELSE (f[k - 1] + Digits(k)) % Two[WordBits]
  <2> SUFFICES ASSUME NEW k \in 0 .. n, k # 0
               PROVE  f[k] = (f[k - 1] + Digits(k)) % Two[WordBits]
    BY <1>2
  <2>1. k - 1 \in 0 .. n
    BY <1>0
  <2> QED
    BY <1>3, <1>s, <2>1
<1>5. f = [k \in 0 .. n |-> f[k]]
  BY <1>1 DEF Runs
<1>6. Accumulates(f, s, i, n)
  BY <1>4, <1>5 DEF Accumulates, Digits
<1> QED
  BY <1>6

LEMMA AccumulatesStep ==
    ASSUME NEW f, NEW s, NEW i, NEW n, Readable(s, i, n), Accumulates(f, s, i, n)
    PROVE  /\ f[0] = 0
           /\ \A k \in 1 .. n :
                f[k] = (f[k - 1] + (s[i + k] % 128) * Two[7 * (k - 1)])
                         % Two[WordBits]
<1>1. n \in Nat /\ 0 \in 0 .. n
  BY DEF Readable
<1>2. \A k \in 1 .. n : k \in 0 .. n /\ k # 0
  BY <1>1
<1> DEFINE D(k) == (s[i + k] % 128) * Two[7 * (k - 1)]
<1>3. f = [k \in 0 .. n |-> IF k = 0 THEN 0 ELSE (f[k - 1] + D(k)) % Two[WordBits]]
  BY DEF Accumulates
<1> HIDE DEF D
<1>4. f[0] = 0 /\ \A k \in 1 .. n : f[k] = (f[k - 1] + D(k)) % Two[WordBits]
  BY <1>1, <1>2, <1>3, Zenon
<1> QED
  BY <1>4 DEF D

\* What has been read fits a word.
LEMMA AccumulatesBounded ==
    ASSUME NEW f, NEW s, NEW i, NEW n, Readable(s, i, n), Accumulates(f, s, i, n)
    PROVE  \A k \in 0 .. n : f[k] \in 0 .. Two[WordBits] - 1
<1> DEFINE S == {k \in 0 .. n : f[k] \in 0 .. Two[WordBits] - 1}
<1>0. n \in Nat
  BY DEF Readable
<1>t. Two[WordBits] \in Nat /\ Two[WordBits] > 0
  BY TwoNat, WidthsAssumption
<1>1. 0 \in S
  <2>1. f[0] = 0 /\ 0 \in 0 .. n
    BY <1>0, AccumulatesStep
  <2> QED
    BY <1>t, <2>1
<1>2. ASSUME NEW k \in 0 .. n, k \in S, k < n PROVE k + 1 \in S
  <2>1. k + 1 \in 1 .. n /\ k + 1 \in 0 .. n /\ (k + 1) - 1 = k
    BY <1>0, <1>2
  <2>2. PICK d \in Nat : d = (s[i + (k + 1)] % 128) * Two[7 * ((k + 1) - 1)]
    BY <2>1, Digit
  <2>3. f[k + 1] = (f[k] + d) % Two[WordBits]
    <3>1. f[k + 1] = (f[(k + 1) - 1] + (s[i + (k + 1)] % 128) * Two[7 * ((k + 1) - 1)])
                       % Two[WordBits]
      BY <2>1, AccumulatesStep
    <3> QED
      BY <2>1, <2>2, <3>1
  <2>4. f[k] + d \in Int
    BY <1>2, <1>t, <2>2
  <2> QED
    BY <1>t, <2>1, <2>3, <2>4, Division
<1> HIDE DEF S
<1>3. \A k \in 0 .. n : k \in S
  BY <1>0, <1>1, <1>2, UpTo
<1> QED
  BY <1>3 DEF S

\* The same bytes elsewhere.
SameBytes(s, i, t, j, n) == \A k \in 1 .. n : t[j + k] = s[i + k]

LEMMA AccumulatesSame ==
    ASSUME NEW f, NEW g, NEW s, NEW i, NEW t, NEW j, NEW n,
           Readable(s, i, n), Readable(t, j, n), SameBytes(s, i, t, j, n),
           Accumulates(f, s, i, n), Accumulates(g, t, j, n)
    PROVE  \A k \in 0 .. n : f[k] = g[k]
<1> DEFINE S == {k \in 0 .. n : f[k] = g[k]}
<1>0. n \in Nat
  BY DEF Readable
<1>1. 0 \in S
  BY <1>0, AccumulatesStep
<1>2. ASSUME NEW k \in 0 .. n, k \in S, k < n PROVE k + 1 \in S
  <2>1. k + 1 \in 1 .. n /\ k + 1 \in 0 .. n /\ (k + 1) - 1 = k
    BY <1>0, <1>2
  <2>2. t[j + (k + 1)] = s[i + (k + 1)]
    BY <2>1 DEF SameBytes
  <2> DEFINE D == (s[i + (k + 1)] % 128) * Two[7 * ((k + 1) - 1)]
  <2>3. /\ f[k + 1] = (f[(k + 1) - 1] + D) % Two[WordBits]
        /\ g[k + 1] = (g[(k + 1) - 1] + D) % Two[WordBits]
    BY <2>1, <2>2, AccumulatesStep
  <2> HIDE DEF D
  <2> QED
    BY <1>2, <2>1, <2>3
<1> HIDE DEF S
<1>3. \A k \in 0 .. n : k \in S
  BY <1>0, <1>1, <1>2, UpTo
<1> QED
  BY <1>3 DEF S

\* What ReadVarint does: it stops at the first byte below 128.
Stops(s, i, n) == n \in Ends(s, i) /\ \A k \in Ends(s, i) : n <= k

LEMMA StopsReadable ==
    ASSUME NEW s \in Seq(Byte), NEW i \in Nat, NEW n, Stops(s, i, n)
    PROVE  Readable(s, i, n) /\ n \in Nat /\ n >= 1 /\ n <= WordBits
<1>1. n \in 1 .. WordBits /\ 7 * (n - 1) < WordBits /\ i + n <= Len(s)
  BY DEF Stops, Ends
<1>2. \A k \in 1 .. n : 7 * (k - 1) < WordBits
  BY <1>1, WidthsAssumption
<1>3. n \in Nat /\ n >= 1 /\ n <= WordBits
  BY <1>1, WidthsAssumption
<1> QED
  BY <1>1, <1>2, <1>3 DEF Readable

LEMMA MinStops ==
    ASSUME NEW s \in Seq(Byte), NEW i \in Nat, Ends(s, i) # {}
    PROVE  Stops(s, i, Min(Ends(s, i)))
<1>1. Ends(s, i) \subseteq Nat
  BY WidthsAssumption DEF Ends
<1>2. \E m \in Ends(s, i) : \A k \in Ends(s, i) : m <= k
  BY <1>1, Least
<1> QED
  BY <1>2 DEF Min, Stops

LEMMA GotFields ==
    ASSUME NEW v, NEW next
    PROVE  ~ IsErr(Got(v, next)) /\ Got(v, next).v = v /\ Got(v, next).next = next
BY DEF Got, IsErr

LEMMA FailedFields ==
    ASSUME NEW e
    PROVE  (e # "" => IsErr(Failed(e))) /\ Failed(e).v = 0 /\ Failed(e).next = 0
BY Zenon DEF Failed, IsErr

\* ReadVarint succeeds with the value v, and goes on at next.
Reads(s, i, v, next) == ReadVarint(s, i) = Got(v, next)

LEMMA ReadVarintStops ==
    ASSUME NEW s \in Seq(Byte), NEW i \in Nat, Ends(s, i) # {}
    PROVE  \E n, f : /\ Stops(s, i, n) /\ Accumulates(f, s, i, n)
                     /\ Reads(s, i, f[n], i + n)
<1> DEFINE n == Min(Ends(s, i))
           Acc(g) == [k \in 0 .. n |->
                        IF k = 0 THEN 0
                        ELSE (g[k - 1] + (s[i + k] % 128) * Two[7 * (k - 1)])
                               % Two[WordBits]]
           f == CHOOSE g : g = Acc(g)
<1>1. Stops(s, i, n)
  BY MinStops
<1>2. Reads(s, i, f[n], i + n)
  BY Zenon DEF ReadVarint, Ends, Reads
<1>3. \E g : Accumulates(g, s, i, n)
  BY <1>1, StopsReadable, AccumulatesExists
<1>4. \A g : Accumulates(g, s, i, n) <=> g = Acc(g)
  BY DEF Accumulates
<1> HIDE DEF Acc, n
<1>5. f = Acc(f)
  BY <1>3, <1>4
<1> HIDE DEF f
<1> QED
  BY <1>1, <1>2, <1>4, <1>5

LEMMA ReadVarintFails ==
    ASSUME NEW s \in Seq(Byte), NEW i \in Nat, Ends(s, i) = {}
    PROVE  IsErr(ReadVarint(s, i)) /\ \A v, next : ~ Reads(s, i, v, next)
<1>1. PICK e : e \in {"overflow", "EOF"} /\ ReadVarint(s, i) = Failed(e)
  BY Zenon DEF ReadVarint, Ends
<1>2. IsErr(Failed(e))
  BY <1>1, FailedFields, Zenon
<1>3. IsErr(ReadVarint(s, i))
  BY <1>1, <1>2, Zenon
<1>4. \A v, next : ~ IsErr(Got(v, next))
  BY GotFields
<1> QED
  BY <1>3, <1>4, Zenon DEF Reads

\* It succeeds or reports an error.
LEMMA ReadsOrFails ==
    ASSUME NEW s \in Seq(Byte), NEW i \in Nat
    PROVE  IsErr(ReadVarint(s, i)) \/ \E v, next : Reads(s, i, v, next)
<1>1. CASE Ends(s, i) = {}
  BY <1>1, ReadVarintFails
<1>2. CASE Ends(s, i) # {}
  BY <1>2, ReadVarintStops
<1> QED
  BY <1>1, <1>2

LEMMA ReadsFields ==
    ASSUME NEW s, NEW i, NEW v, NEW next, Reads(s, i, v, next)
    PROVE  /\ ~ IsErr(ReadVarint(s, i)) /\ ReadVarint(s, i).v = v
           /\ ReadVarint(s, i).next = next
<1>1. ~ IsErr(Got(v, next)) /\ Got(v, next).v = v /\ Got(v, next).next = next
  BY GotFields
<1> QED
  BY <1>1, Zenon DEF Reads

LEMMA ReadsOnce ==
    ASSUME NEW s, NEW i, NEW v, NEW next, Reads(s, i, v, next),
           NEW w, NEW last, Reads(s, i, w, last)
    PROVE  v = w /\ next = last
<1>1. /\ Got(v, next).v = v /\ Got(v, next).next = next
      /\ Got(w, last).v = w /\ Got(w, last).next = last
  BY GotFields
<1> QED
  BY <1>1, Zenon DEF Reads

\* A varint that has been read lies inside the buffer and fits a word.
LEMMA ReadsBounds ==
    ASSUME NEW s \in Seq(Byte), NEW i \in Nat, NEW v, NEW next,
           Reads(s, i, v, next)
    PROVE  next \in i + 1 .. Len(s) /\ v \in 0 .. Two[WordBits] - 1
<1>1. Ends(s, i) # {}
  BY ReadVarintFails
<1>2. PICK n, f : /\ Stops(s, i, n) /\ Accumulates(f, s, i, n)
                  /\ Reads(s, i, f[n], i + n)
  BY <1>1, ReadVarintStops
<1>3. Readable(s, i, n) /\ n \in Nat /\ n >= 1
  BY <1>2, StopsReadable
<1>4. f[n] \in 0 .. Two[WordBits] - 1
  BY <1>2, <1>3, AccumulatesBounded
<1>5. v = f[n] /\ next = i + n
  BY <1>2, ReadsOnce
<1>6. i + n \in i + 1 .. Len(s)
  BY <1>3 DEF Readable
<1> QED
  BY <1>4, <1>5, <1>6

\* The same bytes elsewhere are read the same way.
LEMMA ReadsSame ==
    ASSUME NEW s \in Seq(Byte), NEW i \in Nat, NEW n \in Nat, NEW v,
           Reads(s, i, v, i + n),
           NEW t \in Seq(Byte), NEW j \in Nat, j + n <= Len(t),
           SameBytes(s, i, t, j, n)
    PROVE  Reads(t, j, v, j + n)
<1>1. Ends(s, i) # {}
  BY ReadVarintFails
<1>2. PICK n1, f : /\ Stops(s, i, n1) /\ Accumulates(f, s, i, n1)
                   /\ Reads(s, i, f[n1], i + n1)
  BY <1>1, ReadVarintStops
<1>3. Readable(s, i, n1) /\ n1 \in Nat /\ n1 >= 1 /\ n1 <= WordBits
  BY <1>2, StopsReadable
<1>4. v = f[n1] /\ i + n = i + n1
  BY <1>2, ReadsOnce
<1>n. n1 = n
  BY <1>3, <1>4
<1>5. \A k \in 1 .. n : k \in Ends(s, i) <=> k \in Ends(t, j)
  <2> SUFFICES ASSUME NEW k \in 1 .. n
               PROVE  k \in Ends(s, i) <=> k \in Ends(t, j)
    OBVIOUS
  <2>1. i + k <= Len(s) /\ j + k <= Len(t) /\ k \in 1 .. WordBits
    BY <1>3, <1>n, WidthsAssumption DEF Readable
  <2>2. t[j + k] = s[i + k]
    BY DEF SameBytes
  <2> QED
    BY <2>1, <2>2 DEF Ends
<1>6. n \in Ends(t, j) /\ \A k \in Ends(t, j) : n <= k
  <2>1. n \in Ends(t, j)
    <3>1. n \in 1 .. n
      BY <1>3, <1>n
    <3> QED
      BY <1>2, <1>n, <1>5, <3>1 DEF Stops
  <2>2. ASSUME NEW k \in Ends(t, j), ~ (n <= k) PROVE FALSE
    <3>1. k \in 1 .. n
      BY <2>2 DEF Ends
    <3>2. k \in Ends(s, i)
      BY <1>5, <3>1
    <3> QED
      BY <1>2, <1>n, <2>2, <3>2 DEF Stops
  <2> QED
    BY <2>1, <2>2
<1>7. PICK n2, g : /\ Stops(t, j, n2) /\ Accumulates(g, t, j, n2)
                   /\ Reads(t, j, g[n2], j + n2)
  BY <1>6, ReadVarintStops
<1>8. n2 = n
  <2>1. n2 \in Nat /\ n2 \in Ends(t, j) /\ n2 <= n
    BY <1>6, <1>7, StopsReadable DEF Stops
  <2> QED
    BY <1>6, <2>1
<1>9. Readable(t, j, n)
  BY <1>7, <1>8, StopsReadable
<1>10. f[n] = g[n]
  <2>1. n \in 0 .. n
    OBVIOUS
  <2> QED
    BY <1>2, <1>3, <1>n, <1>7, <1>8, <1>9, <2>1, AccumulatesSame
<1> QED
  BY <1>4, <1>n, <1>7, <1>8, <1>10

-----------------------------------------------------------------------------
(***************************************************************************)
(* Signed words.                                                           *)
(***************************************************************************)
LEMMA Halves ==
    ASSUME NEW bits \in 1 .. WordBits
    PROVE  /\ Two[bits] = 2 * Two[bits - 1]
           /\ Two[bits - 1] \in Nat /\ Two[bits - 1] > 0
           /\ Two[bits] \in Nat /\ Two[bits] > 0
<1>1. bits \in 0 .. WordBits /\ bits # 0 /\ bits - 1 \in 0 .. WordBits
  BY WidthsAssumption
<1> QED
  BY <1>1, TwoUnfolds, TwoNat

LEMMA ToIntValue ==
    ASSUME NEW v \in Int, NEW bits \in 1 .. WordBits
    PROVE  /\ ToInt(v, bits) \in -Two[bits - 1] .. Two[bits - 1] - 1
           /\ v \in 0 .. Two[bits - 1] - 1 => ToInt(v, bits) = v
           /\ v \in Two[bits - 1] .. Two[bits] - 1 => ToInt(v, bits) = v - Two[bits]
<1>1. PICK h \in Nat, d \in Nat : /\ h = Two[bits - 1] /\ d = Two[bits]
                                  /\ d = 2 * h /\ h > 0 /\ d > 0
  BY Halves
<1>2. PICK u \in 0 .. d - 1 : u = v % d
  BY <1>1, Division
<1>3. ToInt(v, bits) = IF u < h THEN u ELSE u - d
  BY <1>1, <1>2 DEF ToInt
<1>4. v \in 0 .. d - 1 => u = v
  BY <1>2, Small
<1>5. ToInt(v, bits) \in -h .. h - 1
  BY <1>1, <1>2, <1>3
<1>6. v \in 0 .. h - 1 => ToInt(v, bits) = v
  BY <1>1, <1>3, <1>4
<1>7. v \in h .. d - 1 => ToInt(v, bits) = v - d
  BY <1>1, <1>3, <1>4
<1> QED
  BY <1>1, <1>5, <1>6, <1>7

\* An index of at most two word-sized summands is right or negative.
LEMMA IndexValue ==
    ASSUME NEW i \in Nat, i < Two[WordBits]
    PROVE  /\ Index(i) \in Int
           /\ i < Two[WordBits - 1] => Index(i) = i
           /\ ~ (i < Two[WordBits - 1]) => Index(i) < 0
<1>0. WordBits \in 1 .. WordBits
  BY WidthsAssumption
<1>1. PICK h \in Nat, d \in Nat : /\ h = Two[WordBits - 1] /\ d = Two[WordBits]
                                  /\ d = 2 * h /\ h > 0 /\ d > 0
  BY <1>0, Halves
<1>2. Index(i) = ToInt(i, WordBits)
  BY DEF Index
<1>3. /\ Index(i) \in -h .. h - 1
      /\ i \in 0 .. h - 1 => Index(i) = i
      /\ i \in h .. d - 1 => Index(i) = i - d
  <2>1. /\ ToInt(i, WordBits) \in -Two[WordBits - 1] .. Two[WordBits - 1] - 1
        /\ i \in 0 .. Two[WordBits - 1] - 1 => ToInt(i, WordBits) = i
        /\ i \in Two[WordBits - 1] .. Two[WordBits] - 1
             => ToInt(i, WordBits) = i - Two[WordBits]
    BY <1>0, ToIntValue, SMTT(40)
  <2> QED
    BY <1>1, <1>2, <2>1
<1>4. i \in 0 .. d - 1
  BY <1>1
<1>5. Index(i) \in Int /\ (i < h => Index(i) = i) /\ (~ (i < h) => Index(i) < 0)
  BY <1>1, <1>3, <1>4
<1> QED
  BY <1>1, <1>5

-----------------------------------------------------------------------------
(***************************************************************************)
(* Reading what is delimited by its length.                                *)
(***************************************************************************)
\* A buffer of the program: bytes, as many as an int can count.
Buffer(s) == s \in Seq(Byte) /\ Len(s) < Two[WordBits - 1]

\* ReadDelimited finds the bytes from b to e.
Delimits(s, i, b, e) == ReadDelimited(s, i) = Got(b, e)

LEMMA DelimitsFields ==
    ASSUME NEW s, NEW i, NEW b, NEW e, Delimits(s, i, b, e)
    PROVE  /\ ~ IsErr(ReadDelimited(s, i)) /\ ReadDelimited(s, i).v = b
           /\ ReadDelimited(s, i).next = e
<1>1. ~ IsErr(Got(b, e)) /\ Got(b, e).v = b /\ Got(b, e).next = e
  BY GotFields
<1> QED
  BY <1>1, Zenon DEF Delimits

\* Once the length has been read.
LEMMA DelimitedBy ==
    ASSUME NEW s, Buffer(s), NEW i \in Nat, NEW len, NEW b, Reads(s, i, len, b)
    PROVE  IF len < Two[WordBits - 1] /\ b + len <= Len(s)
           THEN Delimits(s, i, b, b + len)
           ELSE IsErr(ReadDelimited(s, i))
<1>w. WordBits \in 1 .. WordBits
  BY WidthsAssumption
<1>h. PICK h \in Nat, d \in Nat : /\ h = Two[WordBits - 1] /\ d = Two[WordBits]
                                  /\ d = 2 * h /\ h > 0 /\ d > 0
  BY <1>w, Halves
<1>s. s \in Seq(Byte) /\ Len(s) \in Nat /\ Len(s) < h
  BY <1>h DEF Buffer
<1>r. b \in Nat /\ b <= Len(s) /\ len \in Nat /\ len < d
  <2>1. b \in i + 1 .. Len(s) /\ len \in 0 .. Two[WordBits] - 1
    BY <1>s, ReadsBounds
  <2> QED
    BY <1>h, <1>s, <2>1
<1> DEFINE n == ToInt(len, WordBits)
           p == Index(b + n)
<1>1. ReadDelimited(s, i) =
        IF n < 0 \/ p < 0 THEN Failed("length")
        ELSE IF p > Len(s) THEN Failed("EOF") ELSE Got(b, p)
  <2>1. /\ ~ IsErr(ReadVarint(s, i)) /\ ReadVarint(s, i).v = len
        /\ ReadVarint(s, i).next = b
    BY ReadsFields
  <2> QED
    BY <2>1, Zenon DEF ReadDelimited
<1>f. \A e \in {"length", "EOF"} : IsErr(Failed(e))
  BY FailedFields, Zenon
<1>2. n \in Int /\ (len < h => n = len) /\ (~ (len < h) => n < 0)
  <2>1. /\ Index(len) \in Int
        /\ len < Two[WordBits - 1] => Index(len) = len
        /\ ~ (len < Two[WordBits - 1]) => Index(len) < 0
    BY <1>h, <1>r, IndexValue
  <2>2. n = Index(len)
    BY DEF Index
  <2> HIDE DEF n
  <2> QED
    BY <1>h, <2>1, <2>2
<1>3. CASE ~ (len < h)
  <2>1. ReadDelimited(s, i) = Failed("length")
    BY <1>1, <1>2, <1>3
  <2> QED
    BY <1>3, <1>f, <1>h, <2>1
<1>4. CASE len < h
  <2>1. n = len /\ b + len \in Nat /\ b + len < d
    BY <1>2, <1>4, <1>h, <1>r, <1>s
  <2>2. /\ p \in Int /\ (b + len < h => p = b + len)
        /\ (~ (b + len < h) => p < 0)
    BY <1>h, <2>1, IndexValue
  <2> HIDE DEF n, p
  <2>3. CASE b + len <= Len(s)
    <3>1. p = b + len /\ ~ (n < 0) /\ ~ (p < 0) /\ ~ (p > Len(s))
      BY <1>r, <1>s, <2>1, <2>2, <2>3
    <3>2. ReadDelimited(s, i) = Got(b, p)
      BY <1>1, <3>1
    <3>3. Delimits(s, i, b, b + len)
      BY <3>1, <3>2 DEF Delimits
    <3> QED
      BY <1>4, <1>h, <2>3, <3>3
  <2>4. CASE ~ (b + len <= Len(s))
    <3>1. p < 0 \/ p > Len(s)
      BY <1>r, <1>s, <2>1, <2>2, <2>4
    <3>2. ReadDelimited(s, i) \in {Failed("length"), Failed("EOF")}
      BY <1>1, <3>1
    <3> QED
      BY <1>f, <2>4, <3>2
  <2> QED
    BY <2>3, <2>4
<1> QED
  BY <1>3, <1>4

LEMMA DelimitsOrFails ==
    ASSUME NEW s, Buffer(s), NEW i \in Nat
    PROVE  \/ IsErr(ReadDelimited(s, i))
           \/ \E b, len : /\ Reads(s, i, len, b) /\ len < Two[WordBits - 1]
                          /\ b + len <= Len(s) /\ Delimits(s, i, b, b + len)
<1>s. s \in Seq(Byte)
  BY DEF Buffer
<1>1. CASE IsErr(ReadVarint(s, i))
  BY <1>1, Zenon DEF ReadDelimited
<1>2. ASSUME NEW len, NEW b, Reads(s, i, len, b)
      PROVE  \/ IsErr(ReadDelimited(s, i))
             \/ \E c, n : /\ Reads(s, i, n, c) /\ n < Two[WordBits - 1]
                          /\ c + n <= Len(s) /\ Delimits(s, i, c, c + n)
  BY <1>2, DelimitedBy
<1> QED
  BY <1>1, <1>2, <1>s, ReadsOrFails

\* The bytes found lie inside the buffer, behind their length.
LEMMA DelimitsBounds ==
    ASSUME NEW s, Buffer(s), NEW i \in Nat
    PROVE  \/ IsErr(ReadDelimited(s, i))
           \/ \E b, e : /\ Delimits(s, i, b, e) /\ b \in Nat /\ e \in Nat
                        /\ i < b /\ b <= e /\ e <= Len(s)
<1>s. s \in Seq(Byte) /\ Len(s) \in Nat
  BY DEF Buffer
<1>t. Two[WordBits] \in Nat
  BY TwoNat, WidthsAssumption
<1>1. ASSUME NEW b, NEW len,
             /\ Reads(s, i, len, b) /\ len < Two[WordBits - 1]
             /\ b + len <= Len(s) /\ Delimits(s, i, b, b + len)
      PROVE  \E c, e : /\ Delimits(s, i, c, e) /\ c \in Nat /\ e \in Nat
                       /\ i < c /\ c <= e /\ e <= Len(s)
  <2>1. b \in i + 1 .. Len(s) /\ len \in 0 .. Two[WordBits] - 1
    BY <1>1, <1>s, ReadsBounds
  <2>2. b \in Nat /\ i < b /\ len \in Nat /\ b <= b + len /\ b + len \in Nat
    BY <1>s, <1>t, <2>1
  <2> QED
    BY <1>1, <2>2
<1> QED
  BY <1>1, DelimitsOrFails, Zenon

-----------------------------------------------------------------------------
(***************************************************************************)
(* Skipping a field.                                                       *)
(***************************************************************************)

Rounded(a, e) ==
    IF IsErr(a) THEN a
    ELSE IF a.next < 0 THEN Failed("length") ELSE Got(e, a.next)

LEMMA RoundUnfolds ==
    ASSUME NEW s, NEW i, NEW d, NEW t, NEW k, Reads(s, i, t, k), ~ (i >= Len(s))
    PROVE  SkipRound(s, Got(d, i)) =
             Rounded(Payload(d, Got(t, k), ReadVarint(s, k)), Depth(d, Got(t, k)))
<1>1. ReadVarint(s, i) = Got(t, k)
  BY DEF Reads
<1>2. /\ Got(d, i).next = i /\ Got(d, i).v = d
      /\ ~ IsErr(Got(t, k)) /\ Got(t, k).next = k
  BY GotFields
<1> QED
  BY <1>1, <1>2, Zenon DEF SkipRound, Rounded

\* A round goes from index i and depth d to j and e.
Passes(s, i, d, j, e) ==
    /\ i < Len(s)
    /\ \E t, k : /\ Reads(s, i, t, k)
                 /\ \/ t % 8 = 0 /\ e = d /\ \E v : Reads(s, k, v, j)
                    \/ t % 8 = 1 /\ e = d /\ j = k + 8 /\ j < Two[WordBits - 1]
                    \/ /\ t % 8 = 2 /\ e = d /\ j < Two[WordBits - 1]
                       /\ \E v, b : /\ Reads(s, k, v, b) /\ v < Two[WordBits - 1]
                                    /\ j = b + v
                    \/ t % 8 = 3 /\ e = d + 1 /\ j = k
                    \/ t % 8 = 4 /\ d > 0 /\ e = d - 1 /\ j = k
                    \/ t % 8 = 5 /\ e = d /\ j = k + 4 /\ j < Two[WordBits - 1]

\* An error ends the loop.
Errors == {"EOF", "length", "group", "wireType", "overflow"}

Ended(st) == \E e \in Errors : st = Failed(e)

LEMMA EndedFailed == \A e \in Errors : Ended(Failed(e))
  BY DEF Ended

LEMMA EndedFields == \A st : Ended(st) => IsErr(st) /\ st.v = 0
<1>1. \A e \in Errors : e # ""
  BY Zenon DEF Errors
<1> QED
  BY <1>1, FailedFields, Zenon DEF Ended

LEMMA VarintEnded ==
    ASSUME NEW s \in Seq(Byte), NEW i \in Nat, IsErr(ReadVarint(s, i))
    PROVE  Ended(ReadVarint(s, i))
<1>1. CASE Ends(s, i) # {}
  <2>1. PICK n, f : Reads(s, i, f[n], i + n)
    BY <1>1, ReadVarintStops
  <2>2. ~ IsErr(ReadVarint(s, i))
    BY <2>1, ReadsFields
  <2> QED
    BY <2>2, Zenon
<1>2. CASE Ends(s, i) = {}
  <2>1. \E e \in {"overflow", "EOF"} : ReadVarint(s, i) = Failed(e)
    BY <1>2, Zenon DEF ReadVarint, Ends
  <2> QED
    BY <2>1 DEF Ended, Errors
<1> QED
  BY <1>1, <1>2

LEMMA RoundedEnded == \A a, e : Ended(a) => Rounded(a, e) = a
  BY EndedFields, Zenon DEF Rounded

LEMMA RoundedGot ==
    ASSUME NEW v, NEW j \in Int, NEW e
    PROVE  Rounded(Got(v, j), e) = IF j < 0 THEN Failed("length") ELSE Got(e, j)
<1>1. ~ IsErr(Got(v, j)) /\ Got(v, j).next = j
  BY GotFields
<1> QED
  BY <1>1, Zenon DEF Rounded

\* The payload p by wire type, and the depth e behind it.
PayloadIs(p, e, d, t, k, length) ==
    /\ t % 8 = 0 => p = length
    /\ t % 8 = 1 => p = Got(0, Index(k + 8))
    /\ t % 8 = 2 => p = IF IsErr(length) THEN length
                        ELSE IF ToInt(length.v, WordBits) < 0 THEN Failed("length")
                        ELSE Got(0, Index(length.next + ToInt(length.v, WordBits)))
    /\ t % 8 = 3 => p = Got(t, k)
    /\ t % 8 = 4 => p = IF d = 0 THEN Failed("group") ELSE Got(t, k)
    /\ t % 8 = 5 => p = Got(0, Index(k + 4))
    /\ t % 8 \in {6, 7} => p = Failed("wireType")
    /\ t % 8 = 3 => e = d + 1
    /\ t % 8 = 4 => e = d - 1
    /\ t % 8 \notin {3, 4} => e = d

LEMMA PayloadCases ==
    ASSUME NEW d, NEW t, NEW k, NEW length
    PROVE  PayloadIs(Payload(d, Got(t, k), length), Depth(d, Got(t, k)),
                     d, t, k, length)
<1>1. Got(t, k).v = t /\ Got(t, k).next = k
  BY GotFields
<1>2. PICK w : w = t % 8
  OBVIOUS
<1>3. PICK tag : tag = Got(t, k) /\ tag.v % 8 = w /\ tag.next = k
  BY <1>1, <1>2, Zenon
<1>4. /\ w = 0 => Payload(d, tag, length) = length
      /\ w = 1 => Payload(d, tag, length) = Got(0, Index(k + 8))
      /\ w = 3 => Payload(d, tag, length) = tag
      /\ w = 5 => Payload(d, tag, length) = Got(0, Index(k + 4))
  BY <1>3 DEF Payload
<1>5. w = 2 => Payload(d, tag, length) =
                 IF IsErr(length) THEN length
                 ELSE IF ToInt(length.v, WordBits) < 0 THEN Failed("length")
                 ELSE Got(0, Index(length.next + ToInt(length.v, WordBits)))
  BY <1>3 DEF Payload
<1>6. /\ w = 4 => Payload(d, tag, length) = IF d = 0 THEN Failed("group") ELSE tag
      /\ w \in {6, 7} => Payload(d, tag, length) = Failed("wireType")
  BY <1>3 DEF Payload
<1>7. /\ w = 3 => Depth(d, tag) = d + 1
      /\ w = 4 => Depth(d, tag) = d - 1
      /\ w \notin {3, 4} => Depth(d, tag) = d
  BY <1>3 DEF Depth
<1> QED
  BY <1>2, <1>3, <1>4, <1>5, <1>6, <1>7, Zenon DEF PayloadIs

\* The index behind a fixed-width payload.
LEMMA IndexAhead ==
    ASSUME NEW k \in Nat, k < Two[WordBits - 1], NEW n \in Nat, n < Two[WordBits - 1]
    PROVE  /\ Index(k + n) \in Int
           /\ k + n < Two[WordBits - 1] => Index(k + n) = k + n
           /\ ~ (k + n < Two[WordBits - 1]) => Index(k + n) < 0
<1>1. WordBits \in 1 .. WordBits
  BY WidthsAssumption
<1>2. /\ Two[WordBits] = 2 * Two[WordBits - 1]
      /\ Two[WordBits - 1] \in Nat /\ Two[WordBits] \in Nat
  BY <1>1, Halves
<1>3. k + n \in Nat /\ k + n < Two[WordBits]
  BY <1>2
<1> QED
  BY <1>3, IndexValue

LEMMA EightFits == 8 < Two[WordBits - 1] /\ 4 < Two[WordBits - 1]
<1>1. Two[0] = 1
  BY TwoUnfolds
<1>2. \A n \in 1 .. 4 : n \in 0 .. WordBits /\ n # 0
  BY WidthsAssumption
<1>3. Two[1] = 2 * Two[1 - 1] /\ Two[2] = 2 * Two[2 - 1]
      /\ Two[3] = 2 * Two[3 - 1] /\ Two[4] = 2 * Two[4 - 1]
  BY <1>2, TwoUnfolds
<1>4. Two[4] = 16
  BY <1>1, <1>3
<1>5. 4 \in 0 .. WordBits /\ WordBits - 1 \in 0 .. WordBits /\ 4 <= WordBits - 1
  BY WidthsAssumption
<1>6. Two[4] <= Two[WordBits - 1] /\ Two[WordBits - 1] \in Nat
  BY <1>5, TwoGrows, TwoNat
<1> QED
  BY <1>4, <1>6

\* A round of the loop passes over a field or ends it.
LEMMA RoundCases ==
    ASSUME NEW s, Buffer(s), NEW i \in Nat, NEW d \in Nat
    PROVE  \/ Ended(SkipRound(s, Got(d, i)))
           \/ \E j, e : /\ Passes(s, i, d, j, e)
                        /\ SkipRound(s, Got(d, i)) = Got(e, j)
<1> DEFINE R == SkipRound(s, Got(d, i))
           Goal == \/ Ended(R)
                   \/ \E j, e : Passes(s, i, d, j, e) /\ R = Got(e, j)
<1>s. s \in Seq(Byte) /\ Len(s) \in Nat /\ Len(s) < Two[WordBits - 1]
  BY DEF Buffer
<1>h. Two[WordBits - 1] \in Nat /\ Two[WordBits] \in Nat
  BY TwoNat, WidthsAssumption
<1>f. Ended(Failed("EOF")) /\ Ended(Failed("length")) /\ Ended(Failed("group"))
      /\ Ended(Failed("wireType"))
  BY EndedFailed DEF Errors
<1>1. ASSUME i >= Len(s) PROVE Goal
  <2>1. R = Failed("EOF")
    <3>1. Got(d, i).next = i
      BY GotFields
    <3> QED
      BY <1>1, <3>1, Zenon DEF SkipRound
  <2> HIDE DEF R
  <2> QED
    BY <1>f, <2>1
<1>2. ASSUME ~ (i >= Len(s)), IsErr(ReadVarint(s, i)) PROVE Goal
  <2>1. R = ReadVarint(s, i)
    <3>1. Got(d, i).next = i
      BY GotFields
    <3> QED
      BY <1>2, <3>1, Zenon DEF SkipRound
  <2>2. Ended(ReadVarint(s, i))
    BY <1>2, <1>s, VarintEnded
  <2> HIDE DEF R
  <2> QED
    BY <2>1, <2>2
<1>3. ASSUME NEW t, NEW k, Reads(s, i, t, k), ~ (i >= Len(s))
      PROVE  Goal
  <2>1. R = Rounded(Payload(d, Got(t, k), ReadVarint(s, k)), Depth(d, Got(t, k)))
    BY <1>3, RoundUnfolds
  <2>2. k \in Nat /\ k < Two[WordBits - 1] /\ t \in Nat /\ i < Len(s)
    <3>1. k \in i + 1 .. Len(s) /\ t \in 0 .. Two[WordBits] - 1
      BY <1>3, <1>s, ReadsBounds
    <3> QED
      BY <1>3, <1>s, <1>h, <3>1
  <2> DEFINE P == Payload(d, Got(t, k), ReadVarint(s, k))
             e == Depth(d, Got(t, k))
  <2>l. PICK length : length = ReadVarint(s, k)
    OBVIOUS
  <2>p. PayloadIs(P, e, d, t, k, length)
    BY <2>l, PayloadCases, Zenon
  <2>q. R = Rounded(P, e)
    BY <2>1
  <2>g. \A v, j \in Int : Rounded(Got(v, j), e) = IF j < 0 THEN Failed("length")
                                                   ELSE Got(e, j)
    BY RoundedGot
  <2>e. \A a : Ended(a) => Rounded(a, e) = a
    BY RoundedEnded
  <2>f. Reads(s, i, t, k) /\ i < Len(s)
    BY <1>3, <2>2
  <2>w. t % 8 \in 0 .. 7
    BY <2>2
  <2> HIDE DEF R, P, e
  <2>3. CASE t % 8 = 0
    <3>1. e = d /\ P = ReadVarint(s, k)
      BY <2>3, <2>l, <2>p DEF PayloadIs
    <3>2. CASE IsErr(ReadVarint(s, k))
      <4>1. Ended(P)
        BY <1>s, <2>2, <3>1, <3>2, VarintEnded
      <4> QED
        BY <2>q, <2>e, <4>1
    <3>3. ASSUME NEW v, NEW j, Reads(s, k, v, j) PROVE Goal
      <4>1. v \in Int /\ j \in Int /\ ~ (j < 0)
        <5>1. j \in k + 1 .. Len(s) /\ v \in 0 .. Two[WordBits] - 1
          BY <1>s, <2>2, <3>3, ReadsBounds
        <5> QED
          BY <1>s, <1>h, <2>2, <5>1
      <4>2. P = Got(v, j)
        BY <3>1, <3>3 DEF Reads
      <4>3. R = Got(e, j)
        BY <2>g, <2>q, <4>1, <4>2
      <4>4. Passes(s, i, d, j, e)
        BY <2>3, <2>f, <3>1, <3>3 DEF Passes
      <4> QED
        BY <4>3, <4>4
    <3> QED
      BY <1>s, <2>2, <3>2, <3>3, ReadsOrFails
  <2>4. ASSUME NEW n \in {8, 4}, e = d, P = Got(0, Index(k + n)),
               n = 8 => t % 8 = 1, n = 4 => t % 8 = 5
        PROVE  Goal
    <3>1. /\ Index(k + n) \in Int
          /\ k + n < Two[WordBits - 1] => Index(k + n) = k + n
          /\ ~ (k + n < Two[WordBits - 1]) => Index(k + n) < 0
      BY <2>2, EightFits, IndexAhead
    <3>2. R = IF Index(k + n) < 0 THEN Failed("length") ELSE Got(e, Index(k + n))
      BY <2>4, <2>g, <2>q, <3>1
    <3>3. CASE k + n < Two[WordBits - 1]
      <4>1. Index(k + n) = k + n /\ ~ (Index(k + n) < 0)
        BY <2>2, <3>1, <3>3
      <4>2. R = Got(e, k + n)
        BY <3>2, <4>1
      <4>3. Passes(s, i, d, k + n, e)
        BY <2>4, <2>f, <3>3 DEF Passes
      <4> QED
        BY <4>2, <4>3
    <3>4. CASE ~ (k + n < Two[WordBits - 1])
      BY <1>f, <3>1, <3>2, <3>4
    <3> QED
      BY <3>3, <3>4
  <2>5. CASE t % 8 \in {1, 5}
    BY <2>4, <2>5, <2>p DEF PayloadIs
  <2>6. CASE t % 8 = 2
    <3>1. CASE IsErr(ReadVarint(s, k))
      <4>1. Ended(P)
        <5>1. P = ReadVarint(s, k)
          BY <2>6, <2>l, <2>p, <3>1, Zenon DEF PayloadIs
        <5> QED
          BY <1>s, <2>2, <3>1, <5>1, VarintEnded
      <4> QED
        BY <2>q, <2>e, <4>1
    <3>2. ASSUME NEW v, NEW b, Reads(s, k, v, b) PROVE Goal
      <4>1. v \in Nat /\ v < Two[WordBits] /\ b \in Nat /\ b < Two[WordBits - 1]
        <5>1. b \in k + 1 .. Len(s) /\ v \in 0 .. Two[WordBits] - 1
          BY <1>s, <2>2, <3>2, ReadsBounds
        <5> QED
          BY <1>s, <1>h, <2>2, <5>1
      <4>2. /\ ~ IsErr(ReadVarint(s, k)) /\ ReadVarint(s, k).v = v
            /\ ReadVarint(s, k).next = b
        BY <3>2, ReadsFields
      <4> DEFINE n == ToInt(v, WordBits)
      <4>3. P = IF n < 0 THEN Failed("length") ELSE Got(0, Index(b + n))
        BY <2>6, <2>l, <2>p, <4>2, Zenon DEF PayloadIs
      <4>4. /\ n \in Int /\ (v < Two[WordBits - 1] => n = v)
            /\ (~ (v < Two[WordBits - 1]) => n < 0)
        BY <4>1, IndexValue DEF Index
      <4> HIDE DEF n
      <4>5. CASE n < 0
        <5>1. P = Failed("length")
          BY <4>3, <4>5
        <5> QED
          BY <1>f, <2>e, <2>q, <5>1
      <4>6. CASE ~ (n < 0)
        <5>1. n = v /\ v < Two[WordBits - 1]
          BY <4>4, <4>6
        <5>2. /\ Index(b + v) \in Int
              /\ b + v < Two[WordBits - 1] => Index(b + v) = b + v
              /\ ~ (b + v < Two[WordBits - 1]) => Index(b + v) < 0
          BY <4>1, <5>1, IndexAhead
        <5>3. P = Got(0, Index(b + v))
          BY <4>3, <4>6, <5>1
        <5>4. R = IF Index(b + v) < 0 THEN Failed("length") ELSE Got(e, Index(b + v))
          BY <2>g, <2>q, <5>2, <5>3
        <5>5. CASE b + v < Two[WordBits - 1]
          <6>1. Index(b + v) = b + v /\ ~ (Index(b + v) < 0)
            BY <4>1, <5>2, <5>5
          <6>2. R = Got(e, b + v)
            BY <5>4, <6>1
          <6>3. e = d
            BY <2>6, <2>p DEF PayloadIs
          <6>4. Passes(s, i, d, b + v, e)
            BY <2>6, <2>f, <3>2, <5>1, <5>5, <6>3 DEF Passes
          <6> QED
            BY <6>2, <6>4
        <5>6. CASE ~ (b + v < Two[WordBits - 1])
          BY <1>f, <5>2, <5>4, <5>6
        <5> QED
          BY <5>5, <5>6
      <4> QED
        BY <4>5, <4>6
    <3> QED
      BY <1>s, <2>2, <3>1, <3>2, ReadsOrFails
  <2>7. CASE t % 8 \in {3, 4}
    <3>1. CASE t % 8 = 4 /\ d = 0
      <4>1. P = Failed("group")
        BY <2>p, <3>1 DEF PayloadIs
      <4> QED
        BY <1>f, <2>e, <2>q, <4>1
    <3>2. CASE ~ (t % 8 = 4 /\ d = 0)
      <4>1. P = Got(t, k)
        BY <2>7, <2>p, <3>2 DEF PayloadIs
      <4>2. R = Got(e, k)
        <5>1. t \in Int /\ k \in Int /\ ~ (k < 0)
          BY <2>2
        <5> QED
          BY <2>g, <2>q, <4>1, <5>1
      <4>3. Passes(s, i, d, k, e)
        <5>1. (t % 8 = 3 /\ e = d + 1) \/ (t % 8 = 4 /\ d > 0 /\ e = d - 1)
          BY <2>7, <2>p, <3>2 DEF PayloadIs
        <5> QED
          BY <2>f, <5>1 DEF Passes
      <4> QED
        BY <4>2, <4>3
    <3> QED
      BY <3>1, <3>2
  <2>8. CASE t % 8 \in {6, 7}
    <3>1. P = Failed("wireType")
      BY <2>8, <2>p DEF PayloadIs
    <3> QED
      BY <1>f, <2>e, <2>q, <3>1
  <2> QED
    BY <2>3, <2>5, <2>6, <2>7, <2>8, <2>w
<1>4. IsErr(ReadVarint(s, i)) \/ \E t, k : Reads(s, i, t, k)
  BY <1>s, ReadsOrFails
<1> QED
  BY <1>1, <1>2, <1>3, <1>4, Zenon

LEMMA PassesBounds ==
    ASSUME NEW s, Buffer(s), NEW i \in Nat, NEW d \in Nat, NEW j, NEW e,
           Passes(s, i, d, j, e)
    PROVE  /\ j \in Nat /\ e \in Nat /\ i < j /\ j < Two[WordBits - 1]
           /\ \A t, k : Reads(s, i, t, k) =>
                /\ k \in Nat /\ k <= j
                /\ k < j \/ (t % 8 = 3 /\ e = d + 1) \/ (t % 8 = 4 /\ d > 0)
<1>s. s \in Seq(Byte) /\ Len(s) \in Nat /\ Len(s) < Two[WordBits - 1]
  BY DEF Buffer
<1>h. Two[WordBits - 1] \in Nat
  BY TwoNat, WidthsAssumption
<1>1. PICK t, k : /\ Reads(s, i, t, k)
                  /\ \/ t % 8 = 0 /\ e = d /\ \E v : Reads(s, k, v, j)
                     \/ t % 8 = 1 /\ e = d /\ j = k + 8 /\ j < Two[WordBits - 1]
                     \/ /\ t % 8 = 2 /\ e = d /\ j < Two[WordBits - 1]
                        /\ \E v, b : /\ Reads(s, k, v, b) /\ v < Two[WordBits - 1]
                                     /\ j = b + v
                     \/ t % 8 = 3 /\ e = d + 1 /\ j = k
                     \/ t % 8 = 4 /\ d > 0 /\ e = d - 1 /\ j = k
                     \/ t % 8 = 5 /\ e = d /\ j = k + 4 /\ j < Two[WordBits - 1]
  BY DEF Passes
<1>2. k \in Nat /\ i < k /\ k < Two[WordBits - 1]
  <2>1. k \in i + 1 .. Len(s)
    BY <1>1, <1>s, ReadsBounds
  <2> QED
    BY <1>h, <1>s, <2>1
<1> DEFINE Good == /\ j \in Nat /\ e \in Nat /\ i < j /\ j < Two[WordBits - 1]
                   /\ k <= j
                   /\ k < j \/ (t % 8 = 3 /\ e = d + 1) \/ (t % 8 = 4 /\ d > 0)
<1>3. ASSUME e = d, NEW v, Reads(s, k, v, j) PROVE Good
  <2>1. j \in k + 1 .. Len(s)
    BY <1>2, <1>3, <1>s, ReadsBounds
  <2> QED
    BY <1>2, <1>3, <1>h, <1>s, <2>1
<1>4. ASSUME e = d, j < Two[WordBits - 1], NEW v, NEW b, Reads(s, k, v, b), j = b + v
      PROVE  Good
  <2>1. b \in k + 1 .. Len(s) /\ v \in 0 .. Two[WordBits] - 1
    BY <1>2, <1>4, <1>s, ReadsBounds
  <2>2. Two[WordBits] \in Nat
    BY TwoNat, WidthsAssumption
  <2> QED
    BY <1>2, <1>4, <1>h, <1>s, <2>1, <2>2
<1>5. Good
  <2>1. CASE j = k /\ (e = d + 1 \/ (d > 0 /\ e = d - 1)) /\ t % 8 \in {3, 4}
    BY <1>1, <1>2, <1>h, <2>1
  <2>2. CASE e = d /\ j < Two[WordBits - 1] /\ (j = k + 8 \/ j = k + 4)
    BY <1>2, <1>h, <2>2
  <2> HIDE DEF Good
  <2> QED
    BY <1>1, <1>3, <1>4, <2>1, <2>2
<1>6. ASSUME NEW t1, NEW k1, Reads(s, i, t1, k1) PROVE t1 = t /\ k1 = k
  BY <1>1, <1>6, ReadsOnce
<1> QED
  BY <1>2, <1>5, <1>6

\* t begins with s.
Extends(s, t) == /\ s \in Seq(Byte) /\ t \in Seq(Byte) /\ Len(s) <= Len(t)
                 /\ \A k \in 1 .. Len(s) : t[k] = s[k]

LEMMA ReadsExtended ==
    ASSUME NEW s, NEW t, Extends(s, t), NEW i \in Nat, NEW v, NEW next,
           Reads(s, i, v, next)
    PROVE  Reads(t, i, v, next)
<1>1. s \in Seq(Byte) /\ t \in Seq(Byte) /\ Len(s) \in Nat /\ Len(t) \in Nat
      /\ Len(s) <= Len(t)
  BY DEF Extends
<1>2. next \in i + 1 .. Len(s)
  BY <1>1, ReadsBounds
<1>3. PICK n \in Nat : next = i + n /\ i + n <= Len(s)
  BY <1>1, <1>2
<1>4. SameBytes(s, i, t, i, n)
  <2> SUFFICES ASSUME NEW k \in 1 .. n PROVE t[i + k] = s[i + k]
    BY DEF SameBytes
  <2>1. i + k \in 1 .. Len(s)
    BY <1>1, <1>3
  <2> QED
    BY <2>1 DEF Extends
<1>5. Reads(s, i, v, i + n) /\ i + n <= Len(t)
  BY <1>1, <1>3
<1>6. Reads(t, i, v, i + n)
  BY <1>1, <1>4, <1>5, ReadsSame
<1> QED
  BY <1>3, <1>6

\* A round that passes over a field does so in a longer buffer.
LEMMA RoundExtended ==
    ASSUME NEW s, NEW t, Buffer(s), Extends(s, t), NEW i \in Nat, NEW d \in Nat,
           NEW j, NEW e, Passes(s, i, d, j, e)
    PROVE  SkipRound(t, Got(d, i)) = SkipRound(s, Got(d, i))
<1>s. s \in Seq(Byte) /\ t \in Seq(Byte) /\ Len(s) \in Nat /\ Len(t) \in Nat
      /\ Len(s) <= Len(t)
  BY DEF Extends
<1>1. PICK w, k : /\ Reads(s, i, w, k) /\ i < Len(s)
                  /\ w % 8 \in {1, 3, 4, 5} \/ \E v, b : Reads(s, k, v, b)
  BY DEF Passes
<1>2. k \in Nat
  <2>1. k \in i + 1 .. Len(s)
    BY <1>1, <1>s, ReadsBounds
  <2> QED
    BY <1>s, <2>1
<1>3. Reads(t, i, w, k) /\ ~ (i >= Len(s)) /\ ~ (i >= Len(t))
  BY <1>1, <1>s, ReadsExtended
<1> DEFINE P(u) == Payload(d, Got(w, k), ReadVarint(u, k))
<1>4. /\ SkipRound(s, Got(d, i)) = Rounded(P(s), Depth(d, Got(w, k)))
      /\ SkipRound(t, Got(d, i)) = Rounded(P(t), Depth(d, Got(w, k)))
  BY <1>1, <1>3, RoundUnfolds
<1>5. P(s) = P(t)
  <2>1. ASSUME NEW v, NEW b, Reads(s, k, v, b) PROVE P(s) = P(t)
    <3>1. Reads(t, k, v, b)
      BY <1>2, <2>1, ReadsExtended
    <3> QED
      BY <2>1, <3>1, Zenon DEF Reads
  <2>2. CASE w % 8 \in {1, 3, 4, 5}
    <3>1. \A u : PayloadIs(P(u), Depth(d, Got(w, k)), d, w, k, ReadVarint(u, k))
      BY PayloadCases, Zenon
    <3> HIDE DEF P
    <3> QED
      BY <2>2, <3>1 DEF PayloadIs
  <2> HIDE DEF P
  <2> QED
    BY <1>1, <2>1, <2>2
<1> HIDE DEF P
<1> QED
  BY <1>4, <1>5

\* The loop: a round of it, and f its states after each of n.
SkipStep(s, k, st) == IF k > 1 /\ st.v = 0 THEN st ELSE SkipRound(s, st)

SkipRuns(f, s, n) ==
    f = [k \in 0 .. n |-> IF k = 0 THEN Got(0, 0) ELSE SkipStep(s, k, f[k - 1])]

SkipStates == {Got(d, i) : d \in Nat, i \in Nat} \cup {Failed(e) : e \in Errors}

LEMMA SkipStatesAre ==
    /\ \A d, i \in Nat : Got(d, i) \in SkipStates
    /\ \A st : Ended(st) => st \in SkipStates
    /\ \A st \in SkipStates : Ended(st) \/ \E d, i \in Nat : st = Got(d, i)
<1>1. \A d, i \in Nat : Got(d, i) \in SkipStates
  BY DEF SkipStates
<1>2. \A st : Ended(st) => st \in SkipStates
  BY DEF SkipStates, Ended
<1>3. ASSUME NEW st \in SkipStates
      PROVE  Ended(st) \/ \E d, i \in Nat : st = Got(d, i)
  BY DEF SkipStates, Ended
<1> QED
  BY <1>1, <1>2, <1>3

LEMMA SkipRoundStates ==
    ASSUME NEW s, Buffer(s), NEW d \in Nat, NEW i \in Nat
    PROVE  SkipRound(s, Got(d, i)) \in SkipStates
<1>1. \A j, e : Passes(s, i, d, j, e) => j \in Nat /\ e \in Nat
  BY PassesBounds
<1>2. \/ Ended(SkipRound(s, Got(d, i)))
      \/ \E j, e : /\ Passes(s, i, d, j, e)
                   /\ SkipRound(s, Got(d, i)) = Got(e, j)
  BY RoundCases
<1> QED
  BY <1>1, <1>2, SkipStatesAre

LEMMA SkipStepStates ==
    ASSUME NEW s, Buffer(s), NEW k \in Nat, NEW st \in SkipStates,
           k <= 1 => st = Got(0, 0)
    PROVE  SkipStep(s, k, st) \in SkipStates
<1>1. CASE k > 1 /\ st.v = 0
  BY <1>1, Zenon DEF SkipStep
<1>2. ASSUME ~ (k > 1 /\ st.v = 0) PROVE \E d, i \in Nat : st = Got(d, i)
  <2>1. CASE k <= 1
    BY <2>1, Zenon
  <2>2. CASE k > 1
    BY <1>2, <2>2, EndedFields, SkipStatesAre, Zenon
  <2> QED
    BY <2>1, <2>2
<1>3. ~ (k > 1 /\ st.v = 0) => SkipStep(s, k, st) = SkipRound(s, st)
  BY Zenon DEF SkipStep
<1> QED
  BY <1>1, <1>2, <1>3, SkipRoundStates, Zenon

LEMMA SkipRunExists ==
    ASSUME NEW s, Buffer(s), NEW n \in Nat
    PROVE  \E f : SkipRuns(f, s, n) /\ \A k \in 0 .. n : f[k] \in SkipStates
<1> DEFINE D(k) == IF k <= 1 THEN {Got(0, 0)} ELSE SkipStates
           step == [p \in (0 .. n) \X SkipStates |->
                      IF p[1] <= 1 THEN SkipStep(s, p[1], Got(0, 0))
                      ELSE SkipStep(s, p[1], p[2])]
<1>0. Got(0, 0) \in SkipStates
  BY SkipStatesAre
<1>1. ASSUME NEW k \in 0 .. n, NEW x \in SkipStates
      PROVE  /\ step[<<k, x>>] \in SkipStates
             /\ k <= 1 => step[<<k, x>>] = SkipStep(s, k, Got(0, 0))
             /\ k > 1 => step[<<k, x>>] = SkipStep(s, k, x)
  <2>1. k \in Nat /\ (k > 1 <=> ~ (k <= 1))
    OBVIOUS
  <2>2. step[<<k, x>>] = IF k <= 1 THEN SkipStep(s, k, Got(0, 0)) ELSE SkipStep(s, k, x)
    OBVIOUS
  <2>3. k <= 1 => SkipStep(s, k, Got(0, 0)) \in SkipStates
    BY <1>0, <2>1, SkipStepStates
  <2>4. ~ (k <= 1) => SkipStep(s, k, x) \in SkipStates
    BY <2>1, SkipStepStates
  <2> HIDE DEF step
  <2> QED
    BY <2>1, <2>2, <2>3, <2>4, Zenon
<1> HIDE DEF step
<1>2. \A k \in 1 .. n : k \in 0 .. n
  OBVIOUS
<1>3. \A k \in 1 .. n, x \in SkipStates : step[<<k, x>>] \in SkipStates
  BY <1>1, <1>2, Zenon
<1>4. PICK f : Runs(f, n, Got(0, 0), step) /\ \A k \in 0 .. n : f[k] \in SkipStates
  BY <1>0, <1>3, RunIn
<1>5. \A k \in 0 .. n : f[k] = IF k = 0 THEN Got(0, 0) ELSE step[<<k, f[k - 1]>>]
  BY <1>4 DEF Runs
<1>6. ASSUME NEW k \in 0 .. n, k # 0
      PROVE  f[k] = SkipStep(s, k, f[k - 1])
  <2>1. k - 1 \in 0 .. n /\ (k <= 1 => k - 1 = 0) /\ (k <= 1 \/ k > 1) /\ 0 \in 0 .. n
    BY <1>6
  <2>2. f[k - 1] \in SkipStates /\ f[0] = Got(0, 0) /\ f[k] = step[<<k, f[k - 1]>>]
    BY <1>4, <1>5, <1>6, <2>1
  <2> QED
    BY <1>1, <2>1, <2>2, Zenon
<1>7. f = [k \in 0 .. n |-> f[k]]
  BY <1>4 DEF Runs
<1>8. SkipRuns(f, s, n)
  BY <1>5, <1>6, <1>7 DEF SkipRuns
<1> QED
  BY <1>4, <1>8

\* skip is such a run.
LEMMA SkipIs ==
    ASSUME NEW s, Buffer(s)
    PROVE  \E f : /\ SkipRuns(f, s, Len(s) + 1) /\ skip(s) = f[Len(s) + 1]
                  /\ \A k \in 0 .. Len(s) + 1 : f[k] \in SkipStates
<1> DEFINE n == Len(s) + 1
           Step(g) == [k \in 0 .. n |->
                         IF k = 0 THEN Got(0, 0) ELSE SkipStep(s, k, g[k - 1])]
           f == CHOOSE g : g = Step(g)
<1>0. n \in Nat
  BY DEF Buffer
<1>1. skip(s) = f[n]
  BY DEF skip, SkipStep
<1>2. \A g : SkipRuns(g, s, n) <=> g = Step(g)
  BY DEF SkipRuns
<1>3. \E g : SkipRuns(g, s, n)
  BY <1>0, SkipRunExists
<1> HIDE DEF Step
<1>4. SkipRuns(f, s, n)
  BY <1>2, <1>3
<1> HIDE DEF f
<1>5. PICK g : SkipRuns(g, s, n) /\ \A k \in 0 .. n : g[k] \in SkipStates
  BY <1>0, SkipRunExists
<1> DEFINE S == {k \in 0 .. n : f[k] = g[k]}
<1>6. \A k \in 0 .. n : /\ f[k] = IF k = 0 THEN Got(0, 0) ELSE SkipStep(s, k, f[k - 1])
                        /\ g[k] = IF k = 0 THEN Got(0, 0) ELSE SkipStep(s, k, g[k - 1])
  BY <1>4, <1>5 DEF SkipRuns
<1> HIDE DEF n
<1>7. 0 \in S
  BY <1>0, <1>6
<1>8. ASSUME NEW k \in 0 .. n, k \in S, k < n PROVE k + 1 \in S
  <2>1. k + 1 \in 0 .. n /\ k + 1 # 0 /\ (k + 1) - 1 = k
    BY <1>0, <1>8
  <2> QED
    BY <1>6, <1>8, <2>1
<1> HIDE DEF S
<1>9. \A k \in 0 .. n : k \in S
  BY <1>0, <1>7, <1>8, UpTo
<1>10. \A k \in 0 .. n : f[k] \in SkipStates
  BY <1>5, <1>9 DEF S
<1> QED
  BY <1>1, <1>4, <1>10 DEF n

\* Where the loop is after k rounds: inside groups it has passed k bytes at
\* least, outside of them the first tag m and its payload.
SkipAt(s, k, st) ==
    \/ Ended(st)
    \/ \E e, j \in Nat : /\ st = Got(e, j) /\ 1 <= j /\ j < Two[WordBits - 1]
                         /\ e > 0 => k <= j
                         /\ \A t, m : Reads(s, 0, t, m) =>
                              m \in Nat /\ m <= j /\ (e = 0 => m < j)

LEMMA SkipAtFirst ==
    ASSUME NEW s, Buffer(s)
    PROVE  SkipAt(s, 1, SkipStep(s, 1, Got(0, 0)))
<1>1. SkipStep(s, 1, Got(0, 0)) = SkipRound(s, Got(0, 0))
  <2>1. ~ (1 > 1)
    OBVIOUS
  <2> QED
    BY <2>1, Zenon DEF SkipStep
<1>2. ASSUME NEW j, NEW e, Passes(s, 0, 0, j, e)
      PROVE  SkipAt(s, 1, Got(e, j))
  <2>1. /\ j \in Nat /\ e \in Nat /\ 0 < j /\ j < Two[WordBits - 1]
        /\ \A t, m : Reads(s, 0, t, m) =>
             /\ m \in Nat /\ m <= j
             /\ m < j \/ (t % 8 = 3 /\ e = 0 + 1) \/ (t % 8 = 4 /\ 0 > 0)
    BY <1>2, PassesBounds
  <2>2. 1 <= j
    BY <2>1
  <2>3. \A t, m : Reads(s, 0, t, m) => m \in Nat /\ m <= j /\ (e = 0 => m < j)
    BY <2>1
  <2> QED
    BY <2>1, <2>2, <2>3 DEF SkipAt
<1>3. SkipAt(s, 1, SkipRound(s, Got(0, 0)))
  <2>1. \A st : Ended(st) => SkipAt(s, 1, st)
    BY Zenon DEF SkipAt
  <2>2. \/ Ended(SkipRound(s, Got(0, 0)))
        \/ \E j, e : /\ Passes(s, 0, 0, j, e)
                     /\ SkipRound(s, Got(0, 0)) = Got(e, j)
    BY RoundCases
  <2> QED
    BY <1>2, <2>1, <2>2
<1> QED
  BY <1>1, <1>3

LEMMA SkipAtNext ==
    ASSUME NEW s, Buffer(s), NEW k \in Nat, k >= 1, NEW st, SkipAt(s, k, st)
    PROVE  SkipAt(s, k + 1, SkipStep(s, k + 1, st))
<1>0. k + 1 > 1
  OBVIOUS
<1>e. \A x, n : Ended(x) => SkipAt(s, n, x)
  BY Zenon DEF SkipAt
<1>1. CASE Ended(st)
  <2>1. SkipStep(s, k + 1, st) = st
    BY <1>0, <1>1, EndedFields, Zenon DEF SkipStep
  <2> QED
    BY <1>1, <1>e, <2>1
<1>2. ASSUME NEW e \in Nat, NEW j \in Nat, st = Got(e, j), 1 <= j,
             j < Two[WordBits - 1], e > 0 => k <= j,
             \A t, m : Reads(s, 0, t, m) => m \in Nat /\ m <= j /\ (e = 0 => m < j)
      PROVE  SkipAt(s, k + 1, SkipStep(s, k + 1, st))
  <2>1. CASE e = 0
    <3>1. SkipStep(s, k + 1, st) = st
      BY <1>0, <1>2, <2>1, GotFields, Zenon DEF SkipStep
    <3>2. SkipAt(s, k + 1, Got(e, j))
      BY <1>2, <2>1 DEF SkipAt
    <3> QED
      BY <1>2, <3>1, <3>2
  <2>2. CASE e # 0
    <3>1. SkipStep(s, k + 1, st) = SkipRound(s, Got(e, j))
      BY <1>2, <2>2, GotFields, Zenon DEF SkipStep
    <3>2. ASSUME NEW j1, NEW e1, Passes(s, j, e, j1, e1)
          PROVE  SkipAt(s, k + 1, Got(e1, j1))
      <4>1. j1 \in Nat /\ e1 \in Nat /\ j < j1 /\ j1 < Two[WordBits - 1]
        BY <3>2, PassesBounds
      <4>2. 1 <= j1 /\ k + 1 <= j1
        BY <1>2, <2>2, <4>1
      <4>3. \A t, m : Reads(s, 0, t, m) => m \in Nat /\ m <= j1 /\ (e1 = 0 => m < j1)
        BY <1>2, <4>1
      <4> QED
        BY <4>1, <4>2, <4>3 DEF SkipAt
    <3>3. \/ Ended(SkipRound(s, Got(e, j)))
          \/ \E j1, e1 : /\ Passes(s, j, e, j1, e1)
                         /\ SkipRound(s, Got(e, j)) = Got(e1, j1)
      BY RoundCases
    <3> QED
      BY <1>e, <3>1, <3>2, <3>3
  <2> QED
    BY <2>1, <2>2
<1> QED
  BY <1>1, <1>2 DEF SkipAt

LEMMA SkipRunsStep ==
    ASSUME NEW f, NEW s, NEW n \in Nat, SkipRuns(f, s, n)
    PROVE  /\ f[0] = Got(0, 0)
           /\ \A k \in 0 .. n : k < n => f[k + 1] = SkipStep(s, k + 1, f[k])
<1>1. \A k \in 0 .. n : f[k] = IF k = 0 THEN Got(0, 0) ELSE SkipStep(s, k, f[k - 1])
  BY DEF SkipRuns
<1>2. 0 \in 0 .. n
  OBVIOUS
<1>3. ASSUME NEW k \in 0 .. n, k < n PROVE f[k + 1] = SkipStep(s, k + 1, f[k])
  <2>1. k + 1 \in 0 .. n /\ k + 1 # 0 /\ (k + 1) - 1 = k
    BY <1>3
  <2> QED
    BY <1>1, <2>1
<1> QED
  BY <1>1, <1>2, <1>3

LEMMA SkipRunsAt ==
    ASSUME NEW f, NEW s, Buffer(s), NEW n \in Nat, SkipRuns(f, s, n)
    PROVE  \A k \in 0 .. n : k >= 1 => SkipAt(s, k, f[k])
<1> DEFINE S == {k \in 0 .. n : k >= 1 => SkipAt(s, k, f[k])}
<1>1. 0 \in S
  <2>1. 0 \in 0 .. n /\ ~ (0 >= 1)
    OBVIOUS
  <2> QED
    BY <2>1
<1>2. ASSUME NEW k \in 0 .. n, k \in S, k < n PROVE k + 1 \in S
  <2>1. k + 1 \in 0 .. n /\ k \in Nat /\ (k = 0 \/ k >= 1)
    BY <1>2
  <2>2. f[k + 1] = SkipStep(s, k + 1, f[k]) /\ f[0] = Got(0, 0)
    BY <1>2, SkipRunsStep
  <2>3. k = 0 => SkipAt(s, 0 + 1, f[0 + 1])
    <3>1. k = 0 => f[0 + 1] = SkipStep(s, 1, Got(0, 0))
      BY <2>2
    <3> QED
      BY <3>1, SkipAtFirst
  <2>4. k >= 1 => SkipAt(s, k + 1, f[k + 1])
    BY <1>2, <2>1, <2>2, SkipAtNext
  <2> QED
    BY <2>1, <2>3, <2>4
<1> HIDE DEF S
<1>3. \A k \in 0 .. n : k \in S
  BY <1>1, <1>2, UpTo
<1> QED
  BY <1>3 DEF S

LEMMA SkipStepGot ==
    ASSUME NEW s, NEW k, NEW e, NEW j
    PROVE  /\ k > 1 /\ e = 0 => SkipStep(s, k, Got(e, j)) = Got(e, j)
           /\ e # 0 => SkipStep(s, k, Got(e, j)) = SkipRound(s, Got(e, j))
<1>1. Got(e, j).v = e
  BY GotFields
<1> QED
  BY <1>1, Zenon DEF SkipStep

\* skip fails or passes over a whole field.
Skips(s, j) == skip(s) = Got(0, j)

LEMMA SkipCases ==
    ASSUME NEW s, Buffer(s)
    PROVE  \/ Ended(skip(s))
           \/ \E j \in Nat : /\ Skips(s, j) /\ j >= 1 /\ j < Two[WordBits - 1]
                             /\ \A t, m : Reads(s, 0, t, m) => m \in Nat /\ m < j
<1>s. Len(s) \in Nat
  BY DEF Buffer
<1>1. PICK f : SkipRuns(f, s, Len(s) + 1) /\ skip(s) = f[Len(s) + 1]
  BY SkipIs
<1>2. PICK n \in Nat : n = Len(s)
  BY <1>s
<1>3. f[0] = Got(0, 0) /\ f[n + 1] = SkipStep(s, n + 1, f[n])
  <2>1. n + 1 \in Nat /\ n \in 0 .. n + 1 /\ n < n + 1
    OBVIOUS
  <2> QED
    BY <1>1, <1>2, <2>1, SkipRunsStep
<1>4. \A i, d \in Nat : i >= n => Ended(SkipRound(s, Got(d, i)))
  <2>1. \A i, d, j, e : i \in Nat /\ i >= n => ~ Passes(s, i, d, j, e)
    BY <1>2 DEF Passes
  <2> QED
    BY <2>1, RoundCases
<1>5. CASE n = 0
  <2>1. f[n + 1] = SkipRound(s, Got(0, 0))
    <3>1. ~ (0 + 1 > 1)
      OBVIOUS
    <3> QED
      BY <1>3, <1>5, <3>1, Zenon DEF SkipStep
  <2>2. Ended(SkipRound(s, Got(0, 0)))
    BY <1>4, <1>5
  <2> QED
    BY <1>1, <1>2, <2>1, <2>2
<1>6. CASE n # 0
  <2>1. n + 1 > 1 /\ n >= 1 /\ n \in 0 .. n + 1 /\ n + 1 \in 0 .. n + 1 /\ n + 1 >= 1
    BY <1>6
  <2>2. SkipAt(s, n, f[n]) /\ SkipAt(s, n + 1, f[n + 1])
    BY <1>1, <1>2, <2>1, SkipRunsAt
  <2>3. CASE Ended(f[n])
    <3>1. f[n + 1] = f[n]
      BY <1>3, <2>1, <2>3, EndedFields, Zenon DEF SkipStep
    <3> QED
      BY <1>1, <1>2, <2>3, <3>1
  <2>4. ASSUME NEW e \in Nat, NEW j \in Nat, f[n] = Got(e, j), 1 <= j,
               j < Two[WordBits - 1], e > 0 => n <= j,
               \A t, m : Reads(s, 0, t, m) => m \in Nat /\ m <= j /\ (e = 0 => m < j)
        PROVE  \/ Ended(f[n + 1])
               \/ /\ f[n + 1] = Got(0, j) /\ j >= 1 /\ j < Two[WordBits - 1]
                  /\ \A t, m : Reads(s, 0, t, m) => m \in Nat /\ m < j
    <3>1. CASE e = 0
      <4>1. f[n + 1] = Got(0, j)
        BY <1>3, <2>1, <2>4, <3>1, SkipStepGot
      <4> QED
        BY <2>4, <3>1, <4>1
    <3>2. CASE e # 0
      <4>1. f[n + 1] = SkipRound(s, Got(e, j))
        BY <1>3, <2>4, <3>2, SkipStepGot
      <4>2. Ended(SkipRound(s, Got(e, j)))
        BY <1>4, <2>4, <3>2
      <4> QED
        BY <4>1, <4>2
    <3> QED
      BY <3>1, <3>2
  <2>5. skip(s) = f[n + 1]
    BY <1>1, <1>2
  <2>6. Ended(f[n + 1]) => Ended(skip(s))
    BY <2>5
  <2>7. \A j : f[n + 1] = Got(0, j) => Skips(s, j)
    BY <2>5 DEF Skips
  <2>8. Ended(f[n]) \/ \E e, j \in Nat :
          /\ f[n] = Got(e, j) /\ 1 <= j /\ j < Two[WordBits - 1]
          /\ e > 0 => n <= j
          /\ \A t, m : Reads(s, 0, t, m) => m \in Nat /\ m <= j /\ (e = 0 => m < j)
    BY <2>2 DEF SkipAt
  <2> QED
    BY <2>3, <2>4, <2>6, <2>7, <2>8
<1> QED
  BY <1>5, <1>6

\* What skip passes over it passes over in a longer buffer too.
LEMMA SkipExtended ==
    ASSUME NEW s, NEW t, Buffer(s), Buffer(t), Extends(s, t), NEW j, Skips(s, j)
    PROVE  Skips(t, j)
<1>1. PICK n \in Nat, m \in Nat : n = Len(s) + 1 /\ m = Len(t) + 1 /\ n <= m /\ n >= 1
  BY DEF Buffer, Extends
<1>2. PICK f : /\ SkipRuns(f, s, n) /\ skip(s) = f[n]
               /\ \A k \in 0 .. n : f[k] \in SkipStates
  BY <1>1, SkipIs
<1>3. PICK g : SkipRuns(g, t, m) /\ skip(t) = g[m]
  BY <1>1, SkipIs
<1>4. /\ f[0] = Got(0, 0) /\ g[0] = Got(0, 0)
      /\ \A k \in 0 .. n : k < n => f[k + 1] = SkipStep(s, k + 1, f[k])
      /\ \A k \in 0 .. m : k < m => g[k + 1] = SkipStep(t, k + 1, g[k])
  BY <1>2, <1>3, SkipRunsStep
<1> DEFINE S == {k \in 0 .. n : (k >= 1 /\ Ended(f[k])) \/ f[k] = g[k]}
<1>5. 0 \in S
  <2>1. 0 \in 0 .. n
    OBVIOUS
  <2> QED
    BY <1>4, <2>1
<1>6. ASSUME NEW k \in 0 .. n, k \in S, k < n PROVE k + 1 \in S
  <2>1. /\ k + 1 \in 0 .. n /\ k + 1 >= 1 /\ k \in 0 .. m /\ k < m
        /\ (k >= 1 => k + 1 > 1) /\ (k >= 1 \/ k = 0)
    BY <1>1, <1>6
  <2>2. f[k + 1] = SkipStep(s, k + 1, f[k]) /\ g[k + 1] = SkipStep(t, k + 1, g[k])
    BY <1>4, <1>6, <2>1
  <2>3. CASE k >= 1 /\ Ended(f[k])
    <3>1. f[k + 1] = f[k]
      BY <2>1, <2>2, <2>3, EndedFields, Zenon DEF SkipStep
    <3> QED
      BY <2>1, <2>3, <3>1
  <2>4. ASSUME f[k] = g[k], NEW e \in Nat, NEW i \in Nat, f[k] = Got(e, i)
        PROVE  k + 1 \in S
    <3>1. CASE k >= 1 /\ e = 0
      <4>1. f[k + 1] = g[k + 1]
        BY <2>1, <2>2, <2>4, <3>1, SkipStepGot
      <4> QED
        BY <2>1, <4>1
    <3>2. CASE ~ (k >= 1 /\ e = 0)
      <4>1. \A u : SkipStep(u, k + 1, Got(e, i)) = SkipRound(u, Got(e, i))
        <5>1. ~ (k + 1 > 1) \/ e # 0
          BY <2>1, <3>2
        <5>2. Got(e, i).v = e
          BY GotFields
        <5> QED
          BY <5>1, <5>2, Zenon DEF SkipStep
      <4>2. /\ f[k + 1] = SkipRound(s, Got(e, i))
            /\ g[k + 1] = SkipRound(t, Got(e, i))
        BY <2>2, <2>4, <4>1
      <4>3. \/ Ended(SkipRound(s, Got(e, i)))
            \/ \E j1, e1 : /\ Passes(s, i, e, j1, e1)
                           /\ SkipRound(s, Got(e, i)) = Got(e1, j1)
        BY RoundCases
      <4>4. ASSUME NEW j1, NEW e1, Passes(s, i, e, j1, e1)
            PROVE  SkipRound(t, Got(e, i)) = SkipRound(s, Got(e, i))
        BY <4>4, RoundExtended
      <4>5. Ended(f[k + 1]) \/ f[k + 1] = g[k + 1]
        BY <4>2, <4>3, <4>4
      <4> QED
        BY <2>1, <4>5
    <3> QED
      BY <3>1, <3>2
  <2>5. f[k] \in SkipStates /\ (Ended(f[k]) \/ \E e, i \in Nat : f[k] = Got(e, i))
    BY <1>2, SkipStatesAre
  <2>6. k = 0 => f[k] = Got(0, 0) /\ f[k] = g[k]
    BY <1>4
  <2>7. (k >= 1 /\ Ended(f[k])) \/ f[k] = g[k]
    BY <1>6
  <2> HIDE DEF S
  <2>8. CASE k = 0
    BY <2>4, <2>6, <2>8
  <2>9. CASE k >= 1
    BY <2>3, <2>4, <2>5, <2>7, <2>9
  <2> QED
    BY <2>1, <2>8, <2>9
<1> HIDE DEF S
<1>7. \A k \in 0 .. n : k \in S
  BY <1>5, <1>6, UpTo
<1>8. g[n] = Got(0, j)
  <2>1. n \in 0 .. n
    OBVIOUS
  <2>2. Ended(f[n]) \/ f[n] = g[n]
    BY <1>7, <2>1 DEF S
  <2>3. f[n] = Got(0, j)
    BY <1>2 DEF Skips
  <2>4. ~ IsErr(Got(0, j))
    BY GotFields
  <2> QED
    BY <2>2, <2>3, <2>4, EndedFields, Zenon
<1> DEFINE T == {k \in 0 .. m : k >= n => g[k] = Got(0, j)}
<1>9. 0 \in T
  <2>1. 0 \in 0 .. m /\ ~ (0 >= n)
    BY <1>1
  <2> QED
    BY <2>1
<1>10. ASSUME NEW k \in 0 .. m, k \in T, k < m PROVE k + 1 \in T
  <2>1. k + 1 \in 0 .. m /\ (k + 1 >= n => k + 1 = n \/ (k >= n /\ k + 1 > 1))
    BY <1>1, <1>10
  <2>2. g[k + 1] = SkipStep(t, k + 1, g[k])
    BY <1>4, <1>10
  <2>3. k + 1 = n => g[k + 1] = Got(0, j)
    BY <1>8
  <2>4. k >= n /\ k + 1 > 1 => g[k + 1] = Got(0, j)
    BY <1>10, <2>2, SkipStepGot
  <2> QED
    BY <2>1, <2>3, <2>4
<1> HIDE DEF T
<1>11. \A k \in 0 .. m : k \in T
  BY <1>9, <1>10, UpTo
<1>12. m \in 0 .. m /\ m >= n
  BY <1>1
<1>13. g[m] = Got(0, j)
  BY <1>11, <1>12 DEF T
<1> QED
  BY <1>3, <1>13 DEF Skips

-----------------------------------------------------------------------------
(***************************************************************************)
(* The tables of a message agree.                                          *)
(***************************************************************************)
\* The messages that others hold.
Held == {"Params", "AttestationBitmap", "ValidatorIndex", "Sequencer", "Attester",
         "Any"}

\* w, c and u are the rows of Marshal, Size and Unmarshal for one field: its
\* tag, of one byte, is the number and wire type that Unmarshal expects.
RowAgrees(w, c, u) ==
    /\ w.field = u.field /\ c.field = u.field
    /\ w.type = u.type /\ c.type = u.type
    /\ c.kind = w.kind /\ c.head = 1
    /\ u.num \in 1 .. 15 /\ w.head = 8 * u.num + u.wireType
    /\ \/ /\ w.kind = "num" /\ u.kind \in {"uint", "int"} /\ u.wireType = 0
          /\ u.bits \in {IntBits, WordBits}
       \/ w.kind = "flag" /\ u.kind = "flag" /\ u.wireType = 0
       \/ w.kind = "raw" /\ u.kind = "raw" /\ u.wireType = 2
       \/ /\ w.kind \in {"sub", "ptr", "rep"} /\ u.kind = w.kind
          /\ u.wireType = 2 /\ u.type \in Held

\* The tables agree row by row, and no field or number occurs twice.
TablesAgree(M, S, U) ==
    \E n \in Nat :
      /\ Len(M) = n /\ Len(S) = n /\ Len(U) = n
      /\ M \in Seq(Range(M)) /\ S \in Seq(Range(S)) /\ U \in Seq(Range(U))
      /\ \A i \in 1 .. n : RowAgrees(M[i], S[i], U[i])
      /\ \A i, j \in 1 .. n : i # j => /\ U[i].field # U[j].field
                                       /\ U[i].num # U[j].num

\* Rows for the field f with number n.
RowsOf(w, c, u, n, f) == RowAgrees(w, c, u) /\ u.num = n /\ u.field = f

LEMMA NumRows ==
    ASSUME NEW n \in 1 .. 15, NEW f, NEW head, head = 8 * n
    PROVE  /\ RowsOf(Num(head, f), Num(1, f), Uint64(n, f), n, f)
           /\ RowsOf(Num(head, f), Num(1, f), Int64(n, f), n, f)
           /\ RowsOf(Num(head, f), Num(1, f), Uint32(n, f), n, f)
           /\ RowsOf(Num(head, f), Num(1, f), Enum(n, f), n, f)
           /\ RowsOf(Flag(head, f), Flag(1, f), Bool(n, f), n, f)
BY DEF RowsOf, RowAgrees, Num, Flag, Field, Uint64, Int64, Uint32, Enum, Bool, Case

LEMMA ByteRows ==
    ASSUME NEW n \in 1 .. 15, NEW f, NEW head, head = 8 * n + 2
    PROVE  RowsOf(Raw(head, f), Raw(1, f), Bytes(n, f), n, f)
BY DEF RowsOf, RowAgrees, Raw, Field, Bytes, Case

LEMMA HeldRows ==
    ASSUME NEW n \in 1 .. 15, NEW f, NEW head, head = 8 * n + 2, NEW t \in Held
    PROVE  /\ RowsOf(Sub(head, f, t), Sub(1, f, t), Embedded(n, f, t), n, f)
           /\ RowsOf(Ptr(head, f, t), Ptr(1, f, t), Pointer(n, f, t), n, f)
           /\ RowsOf(Rep(head, f, t), Rep(1, f, t), Repeated(n, f, t), n, f)
BY DEF RowsOf, RowAgrees, Sub, Ptr, Rep, Field, Embedded, Pointer, Repeated, Case

LEMMA NoRows == TablesAgree(<<>>, <<>>, <<>>)
<1>1. <<>> \in Seq(Range(<<>>)) /\ Len(<<>>) = 0
  OBVIOUS
<1>2. \A i : i \notin 1 .. 0
  OBVIOUS
<1> QED
  BY <1>1, <1>2 DEF TablesAgree

LEMMA Rows1 ==
    ASSUME NEW w1, NEW c1, NEW u1, NEW n1, NEW f1, RowsOf(w1, c1, u1, n1, f1)
    PROVE  TablesAgree(<<w1>>, <<c1>>, <<u1>>)
<1> DEFINE M == <<w1>>
           S == <<c1>>
           U == <<u1>>
<1>1. /\ Len(M) = 1 /\ M \in Seq(Range(M)) /\ Len(S) = 1 /\ S \in Seq(Range(S))
      /\ Len(U) = 1 /\ U \in Seq(Range(U))
  BY DEF Range
<1>2. /\ M[1] = w1 /\ S[1] = c1 /\ U[1] = u1
  OBVIOUS
<1> HIDE DEF M, S, U
<1>3. \A i \in 1 .. 1 : i = 1
  OBVIOUS
<1>4. \A i \in 1 .. 1 : RowAgrees(M[i], S[i], U[i])
  BY <1>2, <1>3 DEF RowsOf
<1>5. \A i, j \in 1 .. 1 : i # j => U[i].field # U[j].field /\ U[i].num # U[j].num
  BY <1>2, <1>3 DEF RowsOf
<1>6. TablesAgree(M, S, U)
  BY <1>1, <1>4, <1>5 DEF TablesAgree
<1> QED
  BY <1>6 DEF M, S, U

LEMMA Rows2 ==
    ASSUME NEW w1, NEW c1, NEW u1, NEW n1, NEW f1, RowsOf(w1, c1, u1, n1, f1),
           NEW w2, NEW c2, NEW u2, NEW n2, NEW f2, RowsOf(w2, c2, u2, n2, f2),
           n1 # n2, f1 # f2
    PROVE  TablesAgree(<<w1, w2>>, <<c1, c2>>, <<u1, u2>>)
<1> DEFINE M == <<w1, w2>>
           S == <<c1, c2>>
           U == <<u1, u2>>
<1>1. /\ Len(M) = 2 /\ M \in Seq(Range(M)) /\ Len(S) = 2 /\ S \in Seq(Range(S))
      /\ Len(U) = 2 /\ U \in Seq(Range(U))
  BY DEF Range
<1>2. /\ M[1] = w1 /\ S[1] = c1 /\ U[1] = u1
      /\ M[2] = w2 /\ S[2] = c2 /\ U[2] = u2
  OBVIOUS
<1> HIDE DEF M, S, U
<1>3. \A i \in 1 .. 2 : i = 1 \/ i = 2
  OBVIOUS
<1>4. \A i \in 1 .. 2 : RowAgrees(M[i], S[i], U[i])
  BY <1>2, <1>3 DEF RowsOf
<1>5. \A i, j \in 1 .. 2 : i # j => U[i].field # U[j].field /\ U[i].num # U[j].num
  BY <1>2, <1>3 DEF RowsOf
<1>6. TablesAgree(M, S, U)
  BY <1>1, <1>4, <1>5 DEF TablesAgree
<1> QED
  BY <1>6 DEF M, S, U

LEMMA Rows3 ==
    ASSUME NEW w1, NEW c1, NEW u1, NEW n1, NEW f1, RowsOf(w1, c1, u1, n1, f1),
           NEW w2, NEW c2, NEW u2, NEW n2, NEW f2, RowsOf(w2, c2, u2, n2, f2),
           NEW w3, NEW c3, NEW u3, NEW n3, NEW f3, RowsOf(w3, c3, u3, n3, f3),
           n1 # n2, f1 # f2,
           n1 # n3, f1 # f3, n2 # n3, f2 # f3
    PROVE  TablesAgree(<<w1, w2, w3>>, <<c1, c2, c3>>, <<u1, u2, u3>>)
<1> DEFINE M == <<w1, w2, w3>>
           S == <<c1, c2, c3>>
           U == <<u1, u2, u3>>
<1>1. /\ Len(M) = 3 /\ M \in Seq(Range(M)) /\ Len(S) = 3 /\ S \in Seq(Range(S))
      /\ Len(U) = 3 /\ U \in Seq(Range(U))
  BY DEF Range
<1>2. /\ M[1] = w1 /\ S[1] = c1 /\ U[1] = u1
      /\ M[2] = w2 /\ S[2] = c2 /\ U[2] = u2
      /\ M[3] = w3 /\ S[3] = c3 /\ U[3] = u3
  OBVIOUS
<1> HIDE DEF M, S, U
<1>3. \A i \in 1 .. 3 : i = 1 \/ i = 2 \/ i = 3
  OBVIOUS
<1>4. \A i \in 1 .. 3 : RowAgrees(M[i], S[i], U[i])
  BY <1>2, <1>3 DEF RowsOf
<1>5. \A i, j \in 1 .. 3 : i # j => U[i].field # U[j].field /\ U[i].num # U[j].num
  BY <1>2, <1>3 DEF RowsOf
<1>6. TablesAgree(M, S, U)
  BY <1>1, <1>4, <1>5 DEF TablesAgree
<1> QED
  BY <1>6 DEF M, S, U

LEMMA Rows4 ==
    ASSUME NEW w1, NEW c1, NEW u1, NEW n1, NEW f1, RowsOf(w1, c1, u1, n1, f1),
           NEW w2, NEW c2, NEW u2, NEW n2, NEW f2, RowsOf(w2, c2, u2, n2, f2),
           NEW w3, NEW c3, NEW u3, NEW n3, NEW f3, RowsOf(w3, c3, u3, n3, f3),
           NEW w4, NEW c4, NEW u4, NEW n4, NEW f4, RowsOf(w4, c4, u4, n4, f4),
           n1 # n2, f1 # f2,
           n1 # n3, f1 # f3, n2 # n3, f2 # f3,
           n1 # n4, f1 # f4, n2 # n4, f2 # f4, n3 # n4, f3 # f4
    PROVE  TablesAgree(<<w1, w2, w3, w4>>, <<c1, c2, c3, c4>>, <<u1, u2, u3, u4>>)
<1> DEFINE M == <<w1, w2, w3, w4>>
           S == <<c1, c2, c3, c4>>
           U == <<u1, u2, u3, u4>>
<1>1. /\ Len(M) = 4 /\ M \in Seq(Range(M)) /\ Len(S) = 4 /\ S \in Seq(Range(S))
      /\ Len(U) = 4 /\ U \in Seq(Range(U))
  BY DEF Range
<1>2. /\ M[1] = w1 /\ S[1] = c1 /\ U[1] = u1
      /\ M[2] = w2 /\ S[2] = c2 /\ U[2] = u2
      /\ M[3] = w3 /\ S[3] = c3 /\ U[3] = u3
      /\ M[4] = w4 /\ S[4] = c4 /\ U[4] = u4
  OBVIOUS
<1> HIDE DEF M, S, U
<1>3. \A i \in 1 .. 4 : i = 1 \/ i = 2 \/ i = 3 \/ i = 4
  OBVIOUS
<1>4. \A i \in 1 .. 4 : RowAgrees(M[i], S[i], U[i])
  BY <1>2, <1>3 DEF RowsOf
<1>5. \A i, j \in 1 .. 4 : i # j => U[i].field # U[j].field /\ U[i].num # U[j].num
  BY <1>2, <1>3 DEF RowsOf
<1>6. TablesAgree(M, S, U)
  BY <1>1, <1>4, <1>5 DEF TablesAgree
<1> QED
  BY <1>6 DEF M, S, U

LEMMA Rows5 ==
    ASSUME NEW w1, NEW c1, NEW u1, NEW n1, NEW f1, RowsOf(w1, c1, u1, n1, f1),
           NEW w2, NEW c2, NEW u2, NEW n2, NEW f2, RowsOf(w2, c2, u2, n2, f2),
           NEW w3, NEW c3, NEW u3, NEW n3, NEW f3, RowsOf(w3, c3, u3, n3, f3),
           NEW w4, NEW c4, NEW u4, NEW n4, NEW f4, RowsOf(w4, c4, u4, n4, f4),
           NEW w5, NEW c5, NEW u5, NEW n5, NEW f5, RowsOf(w5, c5, u5, n5, f5),
           n1 # n2, f1 # f2,
           n1 # n3, f1 # f3, n2 # n3, f2 # f3,
           n1 # n4, f1 # f4, n2 # n4, f2 # f4, n3 # n4, f3 # f4,
           n1 # n5, f1 # f5, n2 # n5, f2 # f5, n3 # n5, f3 # f5, n4 # n5, f4 # f5
    PROVE  TablesAgree(<<w1, w2, w3, w4, w5>>, <<c1, c2, c3, c4, c5>>, <<u1, u2, u3, u4, u5>>)
<1> DEFINE M == <<w1, w2, w3, w4, w5>>
           S == <<c1, c2, c3, c4, c5>>
           U == <<u1, u2, u3, u4, u5>>
<1>1. /\ Len(M) = 5 /\ M \in Seq(Range(M)) /\ Len(S) = 5 /\ S \in Seq(Range(S))
      /\ Len(U) = 5 /\ U \in Seq(Range(U))
  BY DEF Range
<1>2. /\ M[1] = w1 /\ S[1] = c1 /\ U[1] = u1
      /\ M[2] = w2 /\ S[2] = c2 /\ U[2] = u2
      /\ M[3] = w3 /\ S[3] = c3 /\ U[3] = u3
      /\ M[4] = w4 /\ S[4] = c4 /\ U[4] = u4
      /\ M[5] = w5 /\ S[5] = c5 /\ U[5] = u5
  OBVIOUS
<1> HIDE DEF M, S, U
<1>3. \A i \in 1 .. 5 : i = 1 \/ i = 2 \/ i = 3 \/ i = 4 \/ i = 5
  OBVIOUS
<1>4. \A i \in 1 .. 5 : RowAgrees(M[i], S[i], U[i])
  BY <1>2, <1>3 DEF RowsOf
<1>5. \A i, j \in 1 .. 5 : i # j => U[i].field # U[j].field /\ U[i].num # U[j].num
  BY <1>2, <1>3 DEF RowsOf
<1>6. TablesAgree(M, S, U)
  BY <1>1, <1>4, <1>5 DEF TablesAgree
<1> QED
  BY <1>6 DEF M, S, U

LEMMA Rows6 ==
    ASSUME NEW w1, NEW c1, NEW u1, NEW n1, NEW f1, RowsOf(w1, c1, u1, n1, f1),
           NEW w2, NEW c2, NEW u2, NEW n2, NEW f2, RowsOf(w2, c2, u2, n2, f2),
           NEW w3, NEW c3, NEW u3, NEW n3, NEW f3, RowsOf(w3, c3, u3, n3, f3),
           NEW w4, NEW c4, NEW u4, NEW n4, NEW f4, RowsOf(w4, c4, u4, n4, f4),
           NEW w5, NEW c5, NEW u5, NEW n5, NEW f5, RowsOf(w5, c5, u5, n5, f5),
           NEW w6, NEW c6, NEW u6, NEW n6, NEW f6, RowsOf(w6, c6, u6, n6, f6),
           n1 # n2, f1 # f2,
           n1 # n3, f1 # f3, n2 # n3, f2 # f3,
           n1 # n4, f1 # f4, n2 # n4, f2 # f4, n3 # n4, f3 # f4,
           n1 # n5, f1 # f5, n2 # n5, f2 # f5, n3 # n5, f3 # f5, n4 # n5, f4 # f5,
           n1 # n6, f1 # f6, n2 # n6, f2 # f6, n3 # n6, f3 # f6, n4 # n6, f4 # f6, n5 # n6, f5 # f6
    PROVE  TablesAgree(<<w1, w2, w3, w4, w5, w6>>, <<c1, c2, c3, c4, c5, c6>>, <<u1, u2, u3, u4, u5, u6>>)
<1> DEFINE M == <<w1, w2, w3, w4, w5, w6>>
           S == <<c1, c2, c3, c4, c5, c6>>
           U == <<u1, u2, u3, u4, u5, u6>>
<1>1. /\ Len(M) = 6 /\ M \in Seq(Range(M)) /\ Len(S) = 6 /\ S \in Seq(Range(S))
      /\ Len(U) = 6 /\ U \in Seq(Range(U))
  BY DEF Range
<1>2. /\ M[1] = w1 /\ S[1] = c1 /\ U[1] = u1
      /\ M[2] = w2 /\ S[2] = c2 /\ U[2] = u2
      /\ M[3] = w3 /\ S[3] = c3 /\ U[3] = u3
      /\ M[4] = w4 /\ S[4] = c4 /\ U[4] = u4
      /\ M[5] = w5 /\ S[5] = c5 /\ U[5] = u5
      /\ M[6] = w6 /\ S[6] = c6 /\ U[6] = u6
  OBVIOUS
<1> HIDE DEF M, S, U
<1>3. \A i \in 1 .. 6 : i = 1 \/ i = 2 \/ i = 3 \/ i = 4 \/ i = 5 \/ i = 6
  OBVIOUS
<1>4. \A i \in 1 .. 6 : RowAgrees(M[i], S[i], U[i])
  BY <1>2, <1>3 DEF RowsOf
<1>5. \A i, j \in 1 .. 6 : i # j => U[i].field # U[j].field /\ U[i].num # U[j].num
  BY <1>2, <1>3 DEF RowsOf
<1>6. TablesAgree(M, S, U)
  BY <1>1, <1>4, <1>5 DEF TablesAgree
<1> QED
  BY <1>6 DEF M, S, U

LEMMA ParamsTables == TablesAgree(ParamsMarshal, ParamsSize, ParamsUnmarshal)
<1>1. /\ RowsOf(Num(8, "EpochLength"), Num(1, "EpochLength"),
                Uint64(1, "EpochLength"), 1, "EpochLength")
      /\ RowsOf(Raw(18, "QuorumFraction"), Raw(1, "QuorumFraction"),
                Bytes(2, "QuorumFraction"), 2, "QuorumFraction")
      /\ RowsOf(Raw(26, "MinParticipation"), Raw(1, "MinParticipation"),
                Bytes(3, "MinParticipation"), 3, "MinParticipation")
      /\ RowsOf(Num(32, "PruneAfter"), Num(1, "PruneAfter"),
                Uint64(4, "PruneAfter"), 4, "PruneAfter")
      /\ RowsOf(Num(40, "SignMode"), Num(1, "SignMode"),
                Enum(5, "SignMode"), 5, "SignMode")
  BY NumRows, ByteRows
<1> QED
  BY <1>1, Rows5 DEF ParamsMarshal, ParamsSize, ParamsUnmarshal

LEMMA AttestationBitmapTables == TablesAgree(AttestationBitmapMarshal, AttestationBitmapSize, AttestationBitmapUnmarshal)
<1>1. /\ RowsOf(Num(8, "Height"), Num(1, "Height"),
                Int64(1, "Height"), 1, "Height")
      /\ RowsOf(Raw(18, "Bitmap"), Raw(1, "Bitmap"),
                Bytes(2, "Bitmap"), 2, "Bitmap")
      /\ RowsOf(Num(24, "VotedPower"), Num(1, "VotedPower"),
                Uint64(3, "VotedPower"), 3, "VotedPower")
      /\ RowsOf(Num(32, "TotalPower"), Num(1, "TotalPower"),
                Uint64(4, "TotalPower"), 4, "TotalPower")
      /\ RowsOf(Flag(40, "SoftConfirmed"), Flag(1, "SoftConfirmed"),
                Bool(5, "SoftConfirmed"), 5, "SoftConfirmed")
  BY NumRows, ByteRows
<1> QED
  BY <1>1, Rows5 DEF AttestationBitmapMarshal, AttestationBitmapSize,
         AttestationBitmapUnmarshal

LEMMA ValidatorIndexTables == TablesAgree(ValidatorIndexMarshal, ValidatorIndexSize, ValidatorIndexUnmarshal)
<1>1. /\ RowsOf(Raw(10, "Address"), Raw(1, "Address"),
                Bytes(1, "Address"), 1, "Address")
      /\ RowsOf(Num(16, "Index"), Num(1, "Index"),
                Uint32(2, "Index"), 2, "Index")
      /\ RowsOf(Num(24, "Power"), Num(1, "Power"),
                Uint64(3, "Power"), 3, "Power")
  BY NumRows, ByteRows
<1> QED
  BY <1>1, Rows3 DEF ValidatorIndexMarshal, ValidatorIndexSize,
         ValidatorIndexUnmarshal

LEMMA MsgAttestTables == TablesAgree(MsgAttestMarshal, MsgAttestSize, MsgAttestUnmarshal)
<1>1. /\ RowsOf(Raw(10, "Validator"), Raw(1, "Validator"),
                Bytes(1, "Validator"), 1, "Validator")
      /\ RowsOf(Num(16, "Height"), Num(1, "Height"),
                Int64(2, "Height"), 2, "Height")
      /\ RowsOf(Raw(26, "Vote"), Raw(1, "Vote"), Bytes(3, "Vote"), 3, "Vote")
  BY NumRows, ByteRows
<1> QED
  BY <1>1, Rows3 DEF MsgAttestMarshal, MsgAttestSize, MsgAttestUnmarshal

LEMMA MsgJoinAttesterSetTables == TablesAgree(MsgJoinAttesterSetMarshal, MsgJoinAttesterSetSize, MsgJoinAttesterSetUnmarshal)
<1>1. RowsOf(Raw(10, "Validator"), Raw(1, "Validator"),
                Bytes(1, "Validator"), 1, "Validator")
  BY ByteRows
<1> QED
  BY <1>1, Rows1 DEF MsgJoinAttesterSetMarshal, MsgJoinAttesterSetSize,
         MsgJoinAttesterSetUnmarshal

LEMMA MsgLeaveAttesterSetTables == TablesAgree(MsgLeaveAttesterSetMarshal, MsgLeaveAttesterSetSize, MsgLeaveAttesterSetUnmarshal)
<1>1. RowsOf(Raw(10, "Validator"), Raw(1, "Validator"),
                Bytes(1, "Validator"), 1, "Validator")
  BY ByteRows
<1> QED
  BY <1>1, Rows1 DEF MsgLeaveAttesterSetMarshal, MsgLeaveAttesterSetSize,
         MsgLeaveAttesterSetUnmarshal

LEMMA MsgUpdateParamsTables == TablesAgree(MsgUpdateParamsMarshal, MsgUpdateParamsSize, MsgUpdateParamsUnmarshal)
<1>1. /\ RowsOf(Raw(10, "Authority"), Raw(1, "Authority"),
                Bytes(1, "Authority"), 1, "Authority")
      /\ RowsOf(Sub(18, "Params", "Params"), Sub(1, "Params", "Params"),
                Embedded(2, "Params", "Params"), 2, "Params")
  BY ByteRows, HeldRows DEF Held
<1> QED
  BY <1>1, Rows2 DEF MsgUpdateParamsMarshal, MsgUpdateParamsSize,
         MsgUpdateParamsUnmarshal

LEMMA QueryParamsResponseTables == TablesAgree(QueryParamsResponseMarshal, QueryParamsResponseSize, QueryParamsResponseUnmarshal)
<1>1. RowsOf(Sub(10, "Params", "Params"), Sub(1, "Params", "Params"),
                Embedded(1, "Params", "Params"), 1, "Params")
  BY HeldRows DEF Held
<1> QED
  BY <1>1, Rows1 DEF QueryParamsResponseMarshal, QueryParamsResponseSize,
         QueryParamsResponseUnmarshal

LEMMA QueryAttestationBitmapRequestTables == TablesAgree(QueryAttestationBitmapRequestMarshal, QueryAttestationBitmapRequestSize, QueryAttestationBitmapRequestUnmarshal)
<1>1. RowsOf(Num(8, "Height"), Num(1, "Height"),
                Int64(1, "Height"), 1, "Height")
  BY NumRows
<1> QED
  BY <1>1, Rows1 DEF QueryAttestationBitmapRequestMarshal, QueryAttestationBitmapRequestSize,
         QueryAttestationBitmapRequestUnmarshal

LEMMA QueryAttestationBitmapResponseTables == TablesAgree(QueryAttestationBitmapResponseMarshal, QueryAttestationBitmapResponseSize, QueryAttestationBitmapResponseUnmarshal)
<1>1. RowsOf(Ptr(10, "Bitmap", "AttestationBitmap"), Ptr(1, "Bitmap", "AttestationBitmap"),
                Pointer(1, "Bitmap", "AttestationBitmap"), 1, "Bitmap")
  BY HeldRows DEF Held
<1> QED
  BY <1>1, Rows1 DEF QueryAttestationBitmapResponseMarshal, QueryAttestationBitmapResponseSize,
         QueryAttestationBitmapResponseUnmarshal

LEMMA QueryEpochInfoRequestTables == TablesAgree(QueryEpochInfoRequestMarshal, QueryEpochInfoRequestSize, QueryEpochInfoRequestUnmarshal)
<1>1. RowsOf(Num(8, "Epoch"), Num(1, "Epoch"), Uint64(1, "Epoch"), 1, "Epoch")
  BY NumRows
<1> QED
  BY <1>1, Rows1 DEF QueryEpochInfoRequestMarshal, QueryEpochInfoRequestSize,
         QueryEpochInfoRequestUnmarshal

LEMMA QueryEpochInfoResponseTables == TablesAgree(QueryEpochInfoResponseMarshal, QueryEpochInfoResponseSize, QueryEpochInfoResponseUnmarshal)
<1>1. /\ RowsOf(Num(8, "Epoch"), Num(1, "Epoch"), Uint64(1, "Epoch"), 1, "Epoch")
      /\ RowsOf(Num(16, "StartHeight"), Num(1, "StartHeight"),
                Int64(2, "StartHeight"), 2, "StartHeight")
      /\ RowsOf(Num(24, "EndHeight"), Num(1, "EndHeight"),
                Int64(3, "EndHeight"), 3, "EndHeight")
      /\ RowsOf(Raw(34, "ParticipationBitmap"), Raw(1, "ParticipationBitmap"),
                Bytes(4, "ParticipationBitmap"), 4, "ParticipationBitmap")
      /\ RowsOf(Num(40, "ActiveValidators"), Num(1, "ActiveValidators"),
                Uint64(5, "ActiveValidators"), 5, "ActiveValidators")
      /\ RowsOf(Num(48, "ParticipatingValidators"), Num(1, "ParticipatingValidators"),
                Uint64(6, "ParticipatingValidators"), 6, "ParticipatingValidators")
  BY NumRows, ByteRows
<1> QED
  BY <1>1, Rows6, SMTT(40) DEF QueryEpochInfoResponseMarshal, QueryEpochInfoResponseSize,
         QueryEpochInfoResponseUnmarshal

LEMMA QueryValidatorIndexRequestTables == TablesAgree(QueryValidatorIndexRequestMarshal, QueryValidatorIndexRequestSize, QueryValidatorIndexRequestUnmarshal)
<1>1. RowsOf(Raw(10, "Address"), Raw(1, "Address"),
                Bytes(1, "Address"), 1, "Address")
  BY ByteRows
<1> QED
  BY <1>1, Rows1 DEF QueryValidatorIndexRequestMarshal, QueryValidatorIndexRequestSize,
         QueryValidatorIndexRequestUnmarshal

LEMMA QueryValidatorIndexResponseTables == TablesAgree(QueryValidatorIndexResponseMarshal, QueryValidatorIndexResponseSize, QueryValidatorIndexResponseUnmarshal)
<1>1. RowsOf(Ptr(10, "Index", "ValidatorIndex"), Ptr(1, "Index", "ValidatorIndex"),
                Pointer(1, "Index", "ValidatorIndex"), 1, "Index")
  BY HeldRows DEF Held
<1> QED
  BY <1>1, Rows1 DEF QueryValidatorIndexResponseMarshal, QueryValidatorIndexResponseSize,
         QueryValidatorIndexResponseUnmarshal

LEMMA QuerySoftConfirmationStatusRequestTables == TablesAgree(QuerySoftConfirmationStatusRequestMarshal, QuerySoftConfirmationStatusRequestSize, QuerySoftConfirmationStatusRequestUnmarshal)
<1>1. RowsOf(Num(8, "Height"), Num(1, "Height"),
                Int64(1, "Height"), 1, "Height")
  BY NumRows
<1> QED
  BY <1>1, Rows1 DEF QuerySoftConfirmationStatusRequestMarshal, QuerySoftConfirmationStatusRequestSize,
         QuerySoftConfirmationStatusRequestUnmarshal

LEMMA QuerySoftConfirmationStatusResponseTables == TablesAgree(QuerySoftConfirmationStatusResponseMarshal, QuerySoftConfirmationStatusResponseSize, QuerySoftConfirmationStatusResponseUnmarshal)
<1>1. /\ RowsOf(Flag(8, "IsSoftConfirmed"), Flag(1, "IsSoftConfirmed"),
                Bool(1, "IsSoftConfirmed"), 1, "IsSoftConfirmed")
      /\ RowsOf(Num(16, "VotedPower"), Num(1, "VotedPower"),
                Uint64(2, "VotedPower"), 2, "VotedPower")
      /\ RowsOf(Num(24, "TotalPower"), Num(1, "TotalPower"),
                Uint64(3, "TotalPower"), 3, "TotalPower")
      /\ RowsOf(Raw(34, "QuorumFraction"), Raw(1, "QuorumFraction"),
                Bytes(4, "QuorumFraction"), 4, "QuorumFraction")
  BY NumRows, ByteRows
<1> QED
  BY <1>1, Rows4 DEF QuerySoftConfirmationStatusResponseMarshal, QuerySoftConfirmationStatusResponseSize,
         QuerySoftConfirmationStatusResponseUnmarshal

LEMMA GenesisStateTables == TablesAgree(GenesisStateMarshal, GenesisStateSize, GenesisStateUnmarshal)
<1>1. /\ RowsOf(Sub(10, "Params", "Params"), Sub(1, "Params", "Params"),
                Embedded(1, "Params", "Params"), 1, "Params")
      /\ RowsOf(Rep(18, "ValidatorIndices", "ValidatorIndex"), Rep(1, "ValidatorIndices", "ValidatorIndex"),
                Repeated(2, "ValidatorIndices", "ValidatorIndex"), 2, "ValidatorIndices")
      /\ RowsOf(Rep(26, "AttestationBitmaps", "AttestationBitmap"), Rep(1, "AttestationBitmaps", "AttestationBitmap"),
                Repeated(3, "AttestationBitmaps", "AttestationBitmap"), 3, "AttestationBitmaps")
  BY HeldRows DEF Held
<1> QED
  BY <1>1, Rows3 DEF GenesisStateMarshal, GenesisStateSize, GenesisStateUnmarshal

LEMMA RollkitMigrationTables == TablesAgree(RollkitMigrationMarshal, RollkitMigrationSize, RollkitMigrationUnmarshal)
<1>1. /\ RowsOf(Num(16, "BlockHeight"), Num(1, "BlockHeight"),
                Uint64(2, "BlockHeight"), 2, "BlockHeight")
      /\ RowsOf(Sub(26, "Sequencer", "Sequencer"), Sub(1, "Sequencer", "Sequencer"),
                Embedded(3, "Sequencer", "Sequencer"), 3, "Sequencer")
      /\ RowsOf(Rep(34, "Attesters", "Attester"), Rep(1, "Attesters", "Attester"),
                Repeated(4, "Attesters", "Attester"), 4, "Attesters")
  BY NumRows, HeldRows DEF Held
<1> QED
  BY <1>1, Rows3 DEF RollkitMigrationMarshal, RollkitMigrationSize,
         RollkitMigrationUnmarshal

LEMMA SequencerTables == TablesAgree(SequencerMarshal, SequencerSize, SequencerUnmarshal)
<1>1. /\ RowsOf(Raw(10, "Name"), Raw(1, "Name"), Bytes(1, "Name"), 1, "Name")
      /\ RowsOf(Ptr(18, "ConsensusPubkey", "Any"), Ptr(1, "ConsensusPubkey", "Any"),
                Pointer(2, "ConsensusPubkey", "Any"), 2, "ConsensusPubkey")
  BY ByteRows, HeldRows DEF Held
<1> QED
  BY <1>1, Rows2 DEF SequencerMarshal, SequencerSize, SequencerUnmarshal

LEMMA AttesterTables == TablesAgree(AttesterMarshal, AttesterSize, AttesterUnmarshal)
<1>1. /\ RowsOf(Raw(10, "Name"), Raw(1, "Name"), Bytes(1, "Name"), 1, "Name")
      /\ RowsOf(Ptr(18, "ConsensusPubkey", "Any"), Ptr(1, "ConsensusPubkey", "Any"),
                Pointer(2, "ConsensusPubkey", "Any"), 2, "ConsensusPubkey")
  BY ByteRows, HeldRows DEF Held
<1> QED
  BY <1>1, Rows2 DEF AttesterMarshal, AttesterSize, AttesterUnmarshal

LEMMA MsgMigrateToRollkitTables == TablesAgree(MsgMigrateToRollkitMarshal, MsgMigrateToRollkitSize, MsgMigrateToRollkitUnmarshal)
<1>1. /\ RowsOf(Raw(10, "Authority"), Raw(1, "Authority"),
                Bytes(1, "Authority"), 1, "Authority")
      /\ RowsOf(Num(16, "BlockHeight"), Num(1, "BlockHeight"),
                Uint64(2, "BlockHeight"), 2, "BlockHeight")
      /\ RowsOf(Sub(26, "Sequencer", "Sequencer"), Sub(1, "Sequencer", "Sequencer"),
                Embedded(3, "Sequencer", "Sequencer"), 3, "Sequencer")
      /\ RowsOf(Rep(34, "Attesters", "Attester"), Rep(1, "Attesters", "Attester"),
                Repeated(4, "Attesters", "Attester"), 4, "Attesters")
  BY NumRows, ByteRows, HeldRows DEF Held
<1> QED
  BY <1>1, Rows4 DEF MsgMigrateToRollkitMarshal, MsgMigrateToRollkitSize,
         MsgMigrateToRollkitUnmarshal

LEMMA QueryIsMigratingResponseTables == TablesAgree(QueryIsMigratingResponseMarshal, QueryIsMigratingResponseSize, QueryIsMigratingResponseUnmarshal)
<1>1. /\ RowsOf(Flag(8, "IsMigrating"), Flag(1, "IsMigrating"),
                Bool(1, "IsMigrating"), 1, "IsMigrating")
      /\ RowsOf(Num(16, "StartBlockHeight"), Num(1, "StartBlockHeight"),
                Uint64(2, "StartBlockHeight"), 2, "StartBlockHeight")
      /\ RowsOf(Num(24, "EndBlockHeight"), Num(1, "EndBlockHeight"),
                Uint64(3, "EndBlockHeight"), 3, "EndBlockHeight")
  BY NumRows
<1> QED
  BY <1>1, Rows3 DEF QueryIsMigratingResponseMarshal, QueryIsMigratingResponseSize,
         QueryIsMigratingResponseUnmarshal

LEMMA QuerySequencerResponseTables == TablesAgree(QuerySequencerResponseMarshal, QuerySequencerResponseSize, QuerySequencerResponseUnmarshal)
<1>1. RowsOf(Sub(10, "Sequencer", "Sequencer"), Sub(1, "Sequencer", "Sequencer"),
                Embedded(1, "Sequencer", "Sequencer"), 1, "Sequencer")
  BY HeldRows DEF Held
<1> QED
  BY <1>1, Rows1 DEF QuerySequencerResponseMarshal, QuerySequencerResponseSize,
         QuerySequencerResponseUnmarshal

LEMMA QueryAttestersResponseTables == TablesAgree(QueryAttestersResponseMarshal, QueryAttestersResponseSize, QueryAttestersResponseUnmarshal)
<1>1. RowsOf(Rep(10, "Attesters", "Attester"), Rep(1, "Attesters", "Attester"),
                Repeated(1, "Attesters", "Attester"), 1, "Attesters")
  BY HeldRows DEF Held
<1> QED
  BY <1>1, Rows1 DEF QueryAttestersResponseMarshal, QueryAttestersResponseSize,
         QueryAttestersResponseUnmarshal

LEMMA NetworkModuleTables == TablesAgree(NetworkModuleMarshal, NetworkModuleSize, NetworkModuleUnmarshal)
<1>1. RowsOf(Raw(10, "Authority"), Raw(1, "Authority"),
                Bytes(1, "Authority"), 1, "Authority")
  BY ByteRows
<1> QED
  BY <1>1, Rows1 DEF NetworkModuleMarshal, NetworkModuleSize,
         NetworkModuleUnmarshal

LEMMA RollkitMngrModuleTables == TablesAgree(RollkitMngrModuleMarshal, RollkitMngrModuleSize, RollkitMngrModuleUnmarshal)
<1>1. RowsOf(Raw(10, "Authority"), Raw(1, "Authority"),
                Bytes(1, "Authority"), 1, "Authority")
  BY ByteRows
<1> QED
  BY <1>1, Rows1 DEF RollkitMngrModuleMarshal, RollkitMngrModuleSize,
         RollkitMngrModuleUnmarshal

LEMMA AnyTables == TablesAgree(AnyMarshal, AnySize, AnyUnmarshal)
<1>1. /\ RowsOf(Raw(10, "TypeUrl"), Raw(1, "TypeUrl"),
                Bytes(1, "TypeUrl"), 1, "TypeUrl")
      /\ RowsOf(Raw(18, "Value"), Raw(1, "Value"), Bytes(2, "Value"), 2, "Value")
  BY ByteRows
<1> QED
  BY <1>1, Rows2 DEF AnyMarshal, AnySize, AnyUnmarshal

\* The tables of the message named t.
Agree(t) == TablesAgree(Message[t].Marshal, Message[t].Size, Message[t].Unmarshal)

LEMMA OfTables ==
    ASSUME NEW t, NEW m, NEW s, NEW u, Message[t] = Of(m, s, u), TablesAgree(m, s, u)
    PROVE  Agree(t)
BY DEF Agree, Of

LEMMA EmptyTables ==
    ASSUME NEW t, Message[t] = Empty(<<>>)
    PROVE  Agree(t)
BY NoRows DEF Agree, Empty, Of

\* The generated methods of every message agree with each other.
LEMMA AllAgree == \A t \in DOMAIN Message : Agree(t)
<1>1. DOMAIN Message =
       {"Params", "AttestationBitmap", "ValidatorIndex", "MsgAttest",
        "MsgJoinAttesterSet", "MsgLeaveAttesterSet",
        "MsgUpdateParams", "QueryParamsResponse",
        "QueryAttestationBitmapRequest",
        "QueryAttestationBitmapResponse", "QueryEpochInfoRequest",
        "QueryEpochInfoResponse", "QueryValidatorIndexRequest",
        "QueryValidatorIndexResponse",
        "QuerySoftConfirmationStatusRequest",
        "QuerySoftConfirmationStatusResponse", "GenesisState",
        "RollkitMigration", "Sequencer", "Attester",
        "MsgMigrateToRollkit", "QueryIsMigratingResponse",
        "QuerySequencerResponse", "QueryAttestersResponse",
        "NetworkModule", "RollkitMngrModule", "Any",
        "MsgAttestResponse", "MsgJoinAttesterSetResponse",
        "MsgLeaveAttesterSetResponse", "MsgUpdateParamsResponse",
        "QueryParamsRequest", "MsgMigrateToRollkitResponse",
        "QueryIsMigratingRequest", "QuerySequencerRequest",
        "QueryAttestersRequest"}
  BY DEF Message
<1>2. Agree("Params")
  <2>1. Message["Params"] =
          Of(ParamsMarshal, ParamsSize, ParamsUnmarshal)
    BY DEF Message
  <2> QED
    BY <2>1, OfTables, ParamsTables
<1>3. Agree("AttestationBitmap")
  <2>1. Message["AttestationBitmap"] =
          Of(AttestationBitmapMarshal, AttestationBitmapSize, AttestationBitmapUnmarshal)
    BY DEF Message
  <2> QED
    BY <2>1, OfTables, AttestationBitmapTables
<1>4. Agree("ValidatorIndex")
  <2>1. Message["ValidatorIndex"] =
          Of(ValidatorIndexMarshal, ValidatorIndexSize, ValidatorIndexUnmarshal)
    BY DEF Message
  <2> QED
    BY <2>1, OfTables, ValidatorIndexTables
<1>5. Agree("MsgAttest")
  <2>1. Message["MsgAttest"] =
          Of(MsgAttestMarshal, MsgAttestSize, MsgAttestUnmarshal)
    BY DEF Message
  <2> QED
    BY <2>1, OfTables, MsgAttestTables
<1>6. Agree("MsgJoinAttesterSet")
  <2>1. Message["MsgJoinAttesterSet"] =
          Of(MsgJoinAttesterSetMarshal, MsgJoinAttesterSetSize, MsgJoinAttesterSetUnmarshal)
    BY DEF Message
  <2> QED
    BY <2>1, OfTables, MsgJoinAttesterSetTables
<1>7. Agree("MsgLeaveAttesterSet")
  <2>1. Message["MsgLeaveAttesterSet"] =
          Of(MsgLeaveAttesterSetMarshal, MsgLeaveAttesterSetSize, MsgLeaveAttesterSetUnmarshal)
    BY DEF Message
  <2> QED
    BY <2>1, OfTables, MsgLeaveAttesterSetTables
<1>8. Agree("MsgUpdateParams")
  <2>1. Message["MsgUpdateParams"] =
          Of(MsgUpdateParamsMarshal, MsgUpdateParamsSize, MsgUpdateParamsUnmarshal)
    BY DEF Message
  <2> QED
    BY <2>1, OfTables, MsgUpdateParamsTables
<1>9. Agree("QueryParamsResponse")
  <2>1. Message["QueryParamsResponse"] =
          Of(QueryParamsResponseMarshal, QueryParamsResponseSize, QueryParamsResponseUnmarshal)
    BY DEF Message
  <2> QED
    BY <2>1, OfTables, QueryParamsResponseTables
<1>10. Agree("QueryAttestationBitmapRequest")
  <2>1. Message["QueryAttestationBitmapRequest"] =
          Of(QueryAttestationBitmapRequestMarshal, QueryAttestationBitmapRequestSize, QueryAttestationBitmapRequestUnmarshal)
    BY DEF Message
  <2> QED
    BY <2>1, OfTables, QueryAttestationBitmapRequestTables
<1>11. Agree("QueryAttestationBitmapResponse")
  <2>1. Message["QueryAttestationBitmapResponse"] =
          Of(QueryAttestationBitmapResponseMarshal, QueryAttestationBitmapResponseSize, QueryAttestationBitmapResponseUnmarshal)
    BY DEF Message
  <2> QED
    BY <2>1, OfTables, QueryAttestationBitmapResponseTables
<1>12. Agree("QueryEpochInfoRequest")
  <2>1. Message["QueryEpochInfoRequest"] =
          Of(QueryEpochInfoRequestMarshal, QueryEpochInfoRequestSize, QueryEpochInfoRequestUnmarshal)
    BY DEF Message
  <2> QED
    BY <2>1, OfTables, QueryEpochInfoRequestTables
<1>13. Agree("QueryEpochInfoResponse")
  <2>1. Message["QueryEpochInfoResponse"] =
          Of(QueryEpochInfoResponseMarshal, QueryEpochInfoResponseSize, QueryEpochInfoResponseUnmarshal)
    BY DEF Message
  <2> QED
    BY <2>1, OfTables, QueryEpochInfoResponseTables
<1>14. Agree("QueryValidatorIndexRequest")
  <2>1. Message["QueryValidatorIndexRequest"] =
          Of(QueryValidatorIndexRequestMarshal, QueryValidatorIndexRequestSize, QueryValidatorIndexRequestUnmarshal)
    BY DEF Message
  <2> QED
    BY <2>1, OfTables, QueryValidatorIndexRequestTables
<1>15. Agree("QueryValidatorIndexResponse")
  <2>1. Message["QueryValidatorIndexResponse"] =
          Of(QueryValidatorIndexResponseMarshal, QueryValidatorIndexResponseSize, QueryValidatorIndexResponseUnmarshal)
    BY DEF Message
  <2> QED
    BY <2>1, OfTables, QueryValidatorIndexResponseTables
<1>16. Agree("QuerySoftConfirmationStatusRequest")
  <2>1. Message["QuerySoftConfirmationStatusRequest"] =
          Of(QuerySoftConfirmationStatusRequestMarshal, QuerySoftConfirmationStatusRequestSize, QuerySoftConfirmationStatusRequestUnmarshal)
    BY DEF Message
  <2> QED
    BY <2>1, OfTables, QuerySoftConfirmationStatusRequestTables
<1>17. Agree("QuerySoftConfirmationStatusResponse")
  <2>1. Message["QuerySoftConfirmationStatusResponse"] =
          Of(QuerySoftConfirmationStatusResponseMarshal, QuerySoftConfirmationStatusResponseSize, QuerySoftConfirmationStatusResponseUnmarshal)
    BY DEF Message
  <2> QED
    BY <2>1, OfTables, QuerySoftConfirmationStatusResponseTables
<1>18. Agree("GenesisState")
  <2>1. Message["GenesisState"] =
          Of(GenesisStateMarshal, GenesisStateSize, GenesisStateUnmarshal)
    BY DEF Message
  <2> QED
    BY <2>1, OfTables, GenesisStateTables
<1>19. Agree("RollkitMigration")
  <2>1. Message["RollkitMigration"] =
          Of(RollkitMigrationMarshal, RollkitMigrationSize, RollkitMigrationUnmarshal)
    BY DEF Message
  <2> QED
    BY <2>1, OfTables, RollkitMigrationTables
<1>20. Agree("Sequencer")
  <2>1. Message["Sequencer"] =
          Of(SequencerMarshal, SequencerSize, SequencerUnmarshal)
    BY DEF Message
  <2> QED
    BY <2>1, OfTables, SequencerTables
<1>21. Agree("Attester")
  <2>1. Message["Attester"] =
          Of(AttesterMarshal, AttesterSize, AttesterUnmarshal)
    BY DEF Message
  <2> QED
    BY <2>1, OfTables, AttesterTables
<1>22. Agree("MsgMigrateToRollkit")
  <2>1. Message["MsgMigrateToRollkit"] =
          Of(MsgMigrateToRollkitMarshal, MsgMigrateToRollkitSize, MsgMigrateToRollkitUnmarshal)
    BY DEF Message
  <2> QED
    BY <2>1, OfTables, MsgMigrateToRollkitTables
<1>23. Agree("QueryIsMigratingResponse")
  <2>1. Message["QueryIsMigratingResponse"] =
          Of(QueryIsMigratingResponseMarshal, QueryIsMigratingResponseSize, QueryIsMigratingResponseUnmarshal)
    BY DEF Message
  <2> QED
    BY <2>1, OfTables, QueryIsMigratingResponseTables
<1>24. Agree("QuerySequencerResponse")
  <2>1. Message["QuerySequencerResponse"] =
          Of(QuerySequencerResponseMarshal, QuerySequencerResponseSize, QuerySequencerResponseUnmarshal)
    BY DEF Message
  <2> QED
    BY <2>1, OfTables, QuerySequencerResponseTables
<1>25. Agree("QueryAttestersResponse")
  <2>1. Message["QueryAttestersResponse"] =
          Of(QueryAttestersResponseMarshal, QueryAttestersResponseSize, QueryAttestersResponseUnmarshal)
    BY DEF Message
  <2> QED
    BY <2>1, OfTables, QueryAttestersResponseTables
<1>26. Agree("NetworkModule")
  <2>1. Message["NetworkModule"] =
          Of(NetworkModuleMarshal, NetworkModuleSize, NetworkModuleUnmarshal)
    BY DEF Message
  <2> QED
    BY <2>1, OfTables, NetworkModuleTables
<1>27. Agree("RollkitMngrModule")
  <2>1. Message["RollkitMngrModule"] =
          Of(RollkitMngrModuleMarshal, RollkitMngrModuleSize, RollkitMngrModuleUnmarshal)
    BY DEF Message
  <2> QED
    BY <2>1, OfTables, RollkitMngrModuleTables
<1>28. Agree("Any")
  <2>1. Message["Any"] =
          Of(AnyMarshal, AnySize, AnyUnmarshal)
    BY DEF Message
  <2> QED
    BY <2>1, OfTables, AnyTables
<1>29. Agree("MsgAttestResponse")
  <2>1. Message["MsgAttestResponse"] = Empty(<<>>)
    BY DEF Message, MsgAttestResponse
  <2> QED
    BY <2>1, EmptyTables
<1>30. Agree("MsgJoinAttesterSetResponse")
  <2>1. Message["MsgJoinAttesterSetResponse"] = Empty(<<>>)
    BY DEF Message, MsgJoinAttesterSetResponse
  <2> QED
    BY <2>1, EmptyTables
<1>31. Agree("MsgLeaveAttesterSetResponse")
  <2>1. Message["MsgLeaveAttesterSetResponse"] = Empty(<<>>)
    BY DEF Message, MsgLeaveAttesterSetResponse
  <2> QED
    BY <2>1, EmptyTables
<1>32. Agree("MsgUpdateParamsResponse")
  <2>1. Message["MsgUpdateParamsResponse"] = Empty(<<>>)
    BY DEF Message, MsgUpdateParamsResponse
  <2> QED
    BY <2>1, EmptyTables
<1>33. Agree("QueryParamsRequest")
  <2>1. Message["QueryParamsRequest"] = Empty(<<>>)
    BY DEF Message, QueryParamsRequest
  <2> QED
    BY <2>1, EmptyTables
<1>34. Agree("MsgMigrateToRollkitResponse")
  <2>1. Message["MsgMigrateToRollkitResponse"] = Empty(<<>>)
    BY DEF Message, MsgMigrateToRollkitResponse
  <2> QED
    BY <2>1, EmptyTables
<1>35. Agree("QueryIsMigratingRequest")
  <2>1. Message["QueryIsMigratingRequest"] = Empty(<<>>)
    BY DEF Message, QueryIsMigratingRequest
  <2> QED
    BY <2>1, EmptyTables
<1>36. Agree("QuerySequencerRequest")
  <2>1. Message["QuerySequencerRequest"] = Empty(<<>>)
    BY DEF Message, QuerySequencerRequest
  <2> QED
    BY <2>1, EmptyTables
<1>37. Agree("QueryAttestersRequest")
  <2>1. Message["QueryAttestersRequest"] = Empty(<<>>)
    BY DEF Message, QueryAttestersRequest
  <2> QED
    BY <2>1, EmptyTables
<1> QED
  BY <1>1, <1>2, <1>3, <1>4, <1>5, <1>6, <1>7, <1>8, <1>9, <1>10, <1>11,
     <1>12, <1>13, <1>14, <1>15, <1>16, <1>17, <1>18, <1>19, <1>20,
     <1>21, <1>22, <1>23, <1>24, <1>25, <1>26, <1>27, <1>28, <1>29,
     <1>30, <1>31, <1>32, <1>33, <1>34, <1>35, <1>36, <1>37

\* How deep messages are nested.
Embeds(row) == row.kind \in {"sub", "ptr", "rep"}
Rows(t) == Range(Message[t].Unmarshal)
Flat(t) == \A row \in Rows(t) : ~ Embeds(row)
Shallow(t) == \A row \in Rows(t) : Embeds(row) => row.type \in Held /\ Flat(row.type)

LEMMA FlatMessages ==
    Flat("Params") /\ Flat("AttestationBitmap") /\ Flat("ValidatorIndex") /\ Flat("Any")
<1>1. \A n, f : /\ ~ Embeds(Uint64(n, f)) /\ ~ Embeds(Int64(n, f))
                /\ ~ Embeds(Uint32(n, f)) /\ ~ Embeds(Enum(n, f))
                /\ ~ Embeds(Bool(n, f)) /\ ~ Embeds(Bytes(n, f))
  BY SMTT(40) DEF Embeds, Uint64, Int64, Uint32, Enum, Bool, Bytes, Case
<1>2. /\ Rows("Params") = Range(ParamsUnmarshal)
      /\ Rows("AttestationBitmap") = Range(AttestationBitmapUnmarshal)
      /\ Rows("ValidatorIndex") = Range(ValidatorIndexUnmarshal)
      /\ Rows("Any") = Range(AnyUnmarshal)
  BY DEF Rows, Message, Of
<1>3. Flat("Params")
  BY <1>1, <1>2 DEF Flat, Range, ParamsUnmarshal
<1>4. Flat("AttestationBitmap")
  BY <1>1, <1>2 DEF Flat, Range, AttestationBitmapUnmarshal
<1>5. Flat("ValidatorIndex")
  BY <1>1, <1>2 DEF Flat, Range, ValidatorIndexUnmarshal
<1>6. Flat("Any")
  BY <1>1, <1>2 DEF Flat, Range, AnyUnmarshal
<1> QED
  BY <1>3, <1>4, <1>5, <1>6

LEMMA ShallowMessages == \A t \in Held : Shallow(t)
<1>1. \A t : Flat(t) => Shallow(t)
  BY DEF Flat, Shallow
<1>2. /\ Rows("Sequencer") = Range(SequencerUnmarshal)
      /\ Rows("Attester") = Range(AttesterUnmarshal)
  BY DEF Rows, Message, Of
<1>3. /\ \A n, f : ~ Embeds(Bytes(n, f))
      /\ \A n, f, t : Pointer(n, f, t).type = t
  BY DEF Embeds, Bytes, Pointer, Case
<1>4. Shallow("Sequencer")
  BY <1>2, <1>3, FlatMessages DEF Shallow, Range, SequencerUnmarshal, Held
<1>5. Shallow("Attester")
  BY <1>2, <1>3, FlatMessages DEF Shallow, Range, AttesterUnmarshal, Held
<1> QED
  BY <1>1, <1>4, <1>5, FlatMessages DEF Held

LEMMA Levels ==
    /\ Held \subseteq DOMAIN Message
    /\ \A t \in DOMAIN Message : \A row \in Rows(t) :
         Embeds(row) => row.type \in Held /\ Shallow(row.type)
<1>1. Held \subseteq DOMAIN Message
  BY DEF Held, Message
<1>2. ASSUME NEW t \in DOMAIN Message, NEW row \in Rows(t), Embeds(row)
      PROVE  row.type \in Held
  <2>1. Agree(t)
    BY AllAgree
  <2>2. PICK n \in Nat : /\ Len(Message[t].Unmarshal) = n
                         /\ Message[t].Unmarshal \in Seq(Rows(t))
                         /\ \A i \in 1 .. n : RowAgrees(Message[t].Marshal[i],
                              Message[t].Size[i], Message[t].Unmarshal[i])
    BY <2>1 DEF Agree, TablesAgree, Rows
  <2>3. PICK i \in 1 .. n : row = Message[t].Unmarshal[i]
    BY <2>2 DEF Rows, Range
  <2>4. RowAgrees(Message[t].Marshal[i], Message[t].Size[i], row)
    BY <2>2, <2>3
  <2> QED
    BY <1>2, <2>4 DEF RowAgrees, Embeds
<1> QED
  BY <1>1, <1>2, ShallowMessages

-----------------------------------------------------------------------------
(***************************************************************************)
(* Unmarshal: the frames.                                                  *)
(***************************************************************************)
\* A call is inside its buffer; once a tag has been read, behind it.
FrameOk(fr) ==
    /\ fr = [type |-> fr.type, dAtA |-> fr.dAtA, iNdEx |-> fr.iNdEx,
             preIndex |-> fr.preIndex, wire |-> fr.wire, m |-> fr.m, row |-> fr.row]
    /\ fr.type \in DOMAIN Message
    /\ Buffer(fr.dAtA)
    /\ fr.iNdEx \in Nat /\ fr.iNdEx <= Len(fr.dAtA)
    /\ fr.wire # NoTag => /\ fr.preIndex \in Nat
                          /\ Reads(fr.dAtA, fr.preIndex, fr.wire, fr.iNdEx)

\* A callee's buffer ends where its caller goes on.
Nested(caller, fr) ==
    /\ fr.dAtA = SubSeq(caller.dAtA, caller.iNdEx - Len(fr.dAtA) + 1, caller.iNdEx)
    /\ caller.wire = NoTag

FramesOk(fs) ==
    /\ fs \in Seq(Range(fs))
    /\ \A i \in 1 .. Len(fs) : FrameOk(fs[i])
    /\ \A i \in 1 .. Len(fs) : i > 1 => Nested(fs[i - 1], fs[i])

IndInv == input \in Inputs /\ FramesOk(frames)

LEMMA SeqOwn ==
    ASSUME NEW S, NEW s \in Seq(S)
    PROVE  s \in Seq(Range(s))
<1>1. s = [i \in 1 .. Len(s) |-> s[i]] /\ Len(s) \in Nat
  OBVIOUS
<1>2. \A i \in 1 .. Len(s) : s[i] \in Range(s)
  BY DEF Range
<1> QED
  BY <1>1, <1>2

LEMMA TopIs ==
    ASSUME FramesOk(frames), frames # <<>>
    PROVE  /\ Len(frames) \in Nat /\ Len(frames) >= 1
           /\ Top = frames[Len(frames)] /\ FrameOk(Top)
<1>1. frames \in Seq(Range(frames)) /\ Len(frames) \in Nat /\ Len(frames) >= 1
  BY DEF FramesOk
<1>2. Top = frames[Len(frames)]
  BY DEF Top, Last
<1> QED
  BY <1>1, <1>2 DEF FramesOk

\* The innermost call has moved on.
LEMMA ReplaceLast ==
    ASSUME NEW fs, FramesOk(fs), fs # <<>>, NEW fr, FrameOk(fr),
           fr.dAtA = fs[Len(fs)].dAtA
    PROVE  FramesOk([fs EXCEPT ![Len(fs)] = fr])
<1> DEFINE gs == [fs EXCEPT ![Len(fs)] = fr]
<1>1. PICK n \in Nat : n = Len(fs) /\ n >= 1 /\ fs \in Seq(Range(fs))
  BY DEF FramesOk
<1>2. /\ DOMAIN gs = 1 .. n /\ gs[n] = fr
      /\ \A i \in 1 .. n : i # n => gs[i] = fs[i]
  BY <1>1
<1>3. gs \in Seq(Range(gs)) /\ Len(gs) = n
  <2>1. PICK S : S = Range(fs) \cup {fr}
    OBVIOUS
  <2>2. fs \in Seq(S) /\ fr \in S
    BY <1>1, <2>1
  <2>3. gs \in Seq(S) /\ Len(gs) = n
    BY <1>1, <2>2
  <2> HIDE DEF gs
  <2> QED
    BY <2>3, SeqOwn
<1> HIDE DEF gs
<1>4. \A i \in 1 .. n : FrameOk(gs[i])
  BY <1>1, <1>2 DEF FramesOk
<1>5. ASSUME NEW i \in 1 .. n, i > 1 PROVE Nested(gs[i - 1], gs[i])
  <2>1. i - 1 \in 1 .. n /\ i - 1 # n
    BY <1>5
  <2>2. Nested(fs[i - 1], fs[i]) /\ gs[i - 1] = fs[i - 1] /\ gs[i].dAtA = fs[i].dAtA
    BY <1>1, <1>2, <1>5, <2>1 DEF FramesOk
  <2> QED
    BY <2>2 DEF Nested
<1>6. FramesOk(gs)
  BY <1>3, <1>4, <1>5 DEF FramesOk
<1> QED
  BY <1>6 DEF gs

\* A call is made.
LEMMA PushFrame ==
    ASSUME NEW fs, FramesOk(fs), fs # <<>>, NEW fr, FrameOk(fr),
           Nested(fs[Len(fs)], fr)
    PROVE  FramesOk(Append(fs, fr))
<1> DEFINE gs == Append(fs, fr)
<1>1. PICK n \in Nat : n = Len(fs) /\ n >= 1 /\ fs \in Seq(Range(fs))
  BY DEF FramesOk
<1>2. /\ Len(gs) = n + 1 /\ DOMAIN gs = 1 .. n + 1 /\ gs[n + 1] = fr
      /\ \A i \in 1 .. n : gs[i] = fs[i]
  BY <1>1
<1>3. gs \in Seq(Range(gs))
  <2>1. PICK S : S = Range(fs) \cup {fr}
    OBVIOUS
  <2>2. fs \in Seq(S) /\ fr \in S
    BY <1>1, <2>1
  <2>3. gs \in Seq(S)
    BY <2>2
  <2> HIDE DEF gs
  <2> QED
    BY <2>3, SeqOwn
<1> HIDE DEF gs
<1>4. \A i \in 1 .. n + 1 : FrameOk(gs[i])
  <2> SUFFICES ASSUME NEW i \in 1 .. n + 1 PROVE FrameOk(gs[i])
    OBVIOUS
  <2>1. i \in 1 .. n \/ i = n + 1
    OBVIOUS
  <2> QED
    BY <1>1, <1>2, <2>1 DEF FramesOk
<1>5. ASSUME NEW i \in 1 .. n + 1, i > 1 PROVE Nested(gs[i - 1], gs[i])
  <2>1. i - 1 \in 1 .. n /\ (i = n + 1 => i - 1 = n) /\ (i \in 1 .. n \/ i = n + 1)
    BY <1>1, <1>5
  <2> QED
    BY <1>1, <1>2, <1>5, <2>1 DEF FramesOk
<1>6. FramesOk(gs)
  BY <1>2, <1>3, <1>4, <1>5 DEF FramesOk
<1> QED
  BY <1>6 DEF gs

\* The innermost call has returned.
LEMMA PopFrame ==
    ASSUME NEW fs, FramesOk(fs), Len(fs) > 1
    PROVE  LET n == Len(fs) - 1
           IN  /\ FramesOk(SubSeq(fs, 1, n)) /\ SubSeq(fs, 1, n) # <<>>
               /\ Len(SubSeq(fs, 1, n)) = n
               /\ \A i \in 1 .. n : SubSeq(fs, 1, n)[i] = fs[i]
<1> DEFINE gs == SubSeq(fs, 1, Len(fs) - 1)
<1>1. PICK n \in Nat : n = Len(fs) - 1 /\ n >= 1 /\ n <= Len(fs) /\ fs \in Seq(Range(fs))
  BY DEF FramesOk
<1>2. Len(gs) = n /\ \A i \in 1 .. n : gs[i] = fs[i]
  BY <1>1
<1>3. gs \in Seq(Range(gs))
  <2>1. gs = [i \in 1 .. n |-> gs[i]] /\ DOMAIN gs = 1 .. n
    BY <1>1, <1>2
  <2>2. \A i \in 1 .. n : gs[i] \in Range(gs)
    BY <2>1 DEF Range
  <2> HIDE DEF gs
  <2> QED
    BY <2>1, <2>2
<1> HIDE DEF gs
<1>4. gs # <<>>
  BY <1>1, <1>2
<1>5. \A i \in 1 .. n : i \in 1 .. Len(fs) /\ (i > 1 => i - 1 \in 1 .. n)
  BY <1>1
<1>6. \A i \in 1 .. n : FrameOk(gs[i])
  BY <1>2, <1>5 DEF FramesOk
<1>7. \A i \in 1 .. n : i > 1 => Nested(gs[i - 1], gs[i])
  BY <1>2, <1>5 DEF FramesOk
<1>8. FramesOk(gs)
  BY <1>2, <1>3, <1>6, <1>7 DEF FramesOk
<1> QED
  BY <1>1, <1>2, <1>4, <1>8 DEF gs

\* A sequence or message with one entry changed.
Put(s, n, x) == [s EXCEPT ![n] = x]

\* The steps, as far as buffers and indices are concerned: every call returns
\* an error, the innermost one goes ahead in its buffer, calls, or returns.
Quits == frames # <<>> /\ frames' = <<>>

Moves == \E fr : /\ frames # <<>> /\ FrameOk(fr)
                 /\ fr.dAtA = Top.dAtA /\ Top.iNdEx < fr.iNdEx
                 /\ frames' = Put(frames, Len(frames), fr)

Calls == \E fr, callee :
           /\ frames # <<>> /\ FrameOk(fr) /\ FrameOk(callee)
           /\ fr.dAtA = Top.dAtA /\ callee.iNdEx = 0
           /\ Nested(fr, callee) /\ Top.iNdEx + Len(callee.dAtA) < fr.iNdEx
           /\ frames' = Append(Put(frames, Len(frames), fr), callee)

Pops == \E fr, n : /\ n = Len(frames) - 1 /\ n >= 1 /\ FrameOk(fr)
                   /\ fr.dAtA = frames[n].dAtA /\ fr.iNdEx = frames[n].iNdEx
                   /\ Top.iNdEx = Len(Top.dAtA)
                   /\ frames' = Put(SubSeq(frames, 1, n), n, fr)

\* The innermost call with its index, tag and message changed.
Moved(fr, i, w, p, m) ==
    [type |-> fr.type, dAtA |-> fr.dAtA, iNdEx |-> i, preIndex |-> p, wire |-> w,
     m |-> m, row |-> fr.row]

LEMMA MovedOk ==
    ASSUME NEW fr, FrameOk(fr), NEW i \in Nat, i <= Len(fr.dAtA), NEW w, NEW p, NEW m,
           w # NoTag => p \in Nat /\ Reads(fr.dAtA, p, w, i)
    PROVE  /\ FrameOk(Moved(fr, i, w, p, m))
           /\ Moved(fr, i, w, p, m).type = fr.type
           /\ Moved(fr, i, w, p, m).dAtA = fr.dAtA
           /\ Moved(fr, i, w, p, m).iNdEx = i
           /\ Moved(fr, i, w, p, m).wire = w
           /\ Moved(fr, i, w, p, m).preIndex = p
           /\ Moved(fr, i, w, p, m).m = m
           /\ Moved(fr, i, w, p, m).row = fr.row
BY DEF FrameOk, Moved

Names == {"type", "dAtA", "iNdEx", "preIndex", "wire", "m", "row"}

LEMMA FrameFields ==
    ASSUME NEW g, g = [k \in Names |-> g[k]]
    PROVE  g = [type |-> g.type, dAtA |-> g.dAtA, iNdEx |-> g.iNdEx,
                preIndex |-> g.preIndex, wire |-> g.wire, m |-> g.m, row |-> g.row]
BY DEF Names

LEMMA MovedExcept ==
    ASSUME NEW fr, FrameOk(fr)
    PROVE  /\ \A i, w, p : [fr EXCEPT !.iNdEx = i, !.wire = w, !.preIndex = p]
                             = Moved(fr, i, w, p, fr.m)
           /\ \A i : [fr EXCEPT !.iNdEx = i, !.wire = NoTag]
                       = Moved(fr, i, NoTag, fr.preIndex, fr.m)
<1>1. fr = [type |-> fr.type, dAtA |-> fr.dAtA, iNdEx |-> fr.iNdEx,
            preIndex |-> fr.preIndex, wire |-> fr.wire, m |-> fr.m, row |-> fr.row]
  BY DEF FrameOk
<1>2. ASSUME NEW i, NEW w, NEW p
      PROVE  [fr EXCEPT !.iNdEx = i, !.wire = w, !.preIndex = p] = Moved(fr, i, w, p, fr.m)
  <2>1. PICK g : g = [fr EXCEPT !.iNdEx = i, !.wire = w, !.preIndex = p]
    OBVIOUS
  <2>2. g = [k \in Names |-> g[k]]
    BY <1>1, <2>1 DEF Names
  <2>3. /\ g.type = fr.type /\ g.dAtA = fr.dAtA /\ g.row = fr.row
        /\ g.iNdEx = i /\ g.wire = w /\ g.preIndex = p /\ g.m = fr.m
    BY <1>1, <2>1
  <2> QED
    BY <2>1, <2>2, <2>3, FrameFields DEF Moved
<1>4. ASSUME NEW i
      PROVE  [fr EXCEPT !.iNdEx = i, !.wire = NoTag] = Moved(fr, i, NoTag, fr.preIndex, fr.m)
  <2>1. PICK g : g = [fr EXCEPT !.iNdEx = i, !.wire = NoTag]
    OBVIOUS
  <2>2. g = [k \in Names |-> g[k]]
    BY <1>1, <2>1 DEF Names
  <2>3. /\ g.type = fr.type /\ g.dAtA = fr.dAtA /\ g.row = fr.row
        /\ g.iNdEx = i /\ g.wire = NoTag /\ g.preIndex = fr.preIndex /\ g.m = fr.m
    BY <1>1, <2>1
  <2> QED
    BY <2>1, <2>2, <2>3, FrameFields DEF Moved
<1> QED
  BY <1>2, <1>4, Zenon

LEMMA MovedAhead ==
    ASSUME NEW fr, FrameOk(fr), NEW i, NEW m
    PROVE  [fr EXCEPT !.iNdEx = i, !.wire = NoTag, !.m = m]
             = Moved(fr, i, NoTag, fr.preIndex, m)
<1>0. fr = [type |-> fr.type, dAtA |-> fr.dAtA, iNdEx |-> fr.iNdEx,
            preIndex |-> fr.preIndex, wire |-> fr.wire, m |-> fr.m, row |-> fr.row]
  BY DEF FrameOk
<1>1. PICK g : g = [fr EXCEPT !.iNdEx = i, !.wire = NoTag, !.m = m]
  OBVIOUS
<1>2. g = [k \in Names |-> g[k]]
  BY <1>0, <1>1 DEF Names
<1>3. /\ g.type = fr.type /\ g.dAtA = fr.dAtA /\ g.row = fr.row
      /\ g.iNdEx = i /\ g.wire = NoTag /\ g.preIndex = fr.preIndex /\ g.m = m
  BY <1>0, <1>1
<1> QED
  BY <1>1, <1>2, <1>3, FrameFields DEF Moved

LEMMA ResumeMoves ==
    ASSUME FramesOk(frames), frames # <<>>, NEW i \in Nat, Top.iNdEx < i,
           i <= Len(Top.dAtA), NEW w, NEW p, NEW m,
           w # NoTag => p \in Nat /\ Reads(Top.dAtA, p, w, i),
           Resume(Moved(Top, i, w, p, m))
    PROVE  Moves
<1>1. FrameOk(Top)
  BY TopIs
<1>2. /\ FrameOk(Moved(Top, i, w, p, m)) /\ Moved(Top, i, w, p, m).dAtA = Top.dAtA
      /\ Moved(Top, i, w, p, m).iNdEx = i
  BY <1>1, MovedOk
<1> QED
  BY <1>2 DEF Moves, Resume, Put

LEMMA FailQuits == ASSUME NEW e, Fail(e), frames # <<>> PROVE Quits /\ input' = input
  BY DEF Fail, Quits

\* Every call returns an error.
Rejects == \E e : e # "" /\ Fail(e)

LEMMA ReadTagCases ==
    ASSUME ReadTag
    PROVE  LET tag == ReadVarint(Top.dAtA, Top.iNdEx)
           IN  /\ frames # <<>> /\ Top.wire = NoTag /\ Top.iNdEx < Len(Top.dAtA)
               /\ \/ /\ \/ IsErr(tag) \/ tag.v % 8 = 4
                        \/ ToInt(tag.v \div 8, IntBits) <= 0
                     /\ Rejects
                  \/ /\ ~ IsErr(tag) /\ tag.v % 8 # 4
                     /\ ~ (ToInt(tag.v \div 8, IntBits) <= 0)
                     /\ Resume([Top EXCEPT !.iNdEx = tag.next, !.wire = tag.v,
                                           !.preIndex = Top.iNdEx])
<1> DEFINE tag == ReadVarint(Top.dAtA, Top.iNdEx)
           Res == Resume([Top EXCEPT !.iNdEx = tag.next, !.wire = tag.v,
                                     !.preIndex = Top.iNdEx])
           A == IsErr(tag)
           B == ~ IsErr(tag) /\ tag.v % 8 = 4
           C == ~ IsErr(tag) /\ tag.v % 8 # 4 /\ ToInt(tag.v \div 8, IntBits) <= 0
<1>1. /\ frames # <<>> /\ Top.wire = NoTag /\ Top.iNdEx < Len(Top.dAtA)
      /\ CASE A -> Fail(tag.err) [] B -> Fail("endGroup") [] C -> Fail("tag")
           [] OTHER -> Res
  BY DEF ReadTag, AtLoop
<1>2. A \/ B \/ C \/ (~ A /\ tag.v % 8 # 4 /\ ~ (ToInt(tag.v \div 8, IntBits) <= 0))
  OBVIOUS
<1>3. ~ (A /\ B) /\ ~ (A /\ C) /\ ~ (B /\ C)
  OBVIOUS
<1> HIDE DEF A, B, C, Res, tag
<1>4. \/ (A /\ Fail(tag.err)) \/ (B /\ Fail("endGroup")) \/ (C /\ Fail("tag"))
      \/ ~ A /\ ~ B /\ ~ C /\ Res
  <2> DEFINE FA == Fail(tag.err)
             FB == Fail("endGroup")
             FC == Fail("tag")
  <2>1. (CASE A -> FA [] B -> FB [] C -> FC [] OTHER -> Res)
    BY <1>1
  <2> HIDE DEF FA, FB, FC
  <2>2. (A /\ FA) \/ (B /\ FB) \/ (C /\ FC) \/ (~ A /\ ~ B /\ ~ C /\ Res)
    BY <1>3, <2>1
  <2> QED
    BY <2>2 DEF FA, FB, FC
<1>5. \/ (A \/ B \/ C) /\ Rejects
      \/ ~ A /\ ~ B /\ ~ C /\ Res
  <2>1. A => tag.err # ""
    BY Zenon DEF A, IsErr
  <2>2. "endGroup" # "" /\ "tag" # ""
    OBVIOUS
  <2> QED
    BY <1>4, <2>1, <2>2, Zenon DEF Rejects
<1>6. \/ (IsErr(tag) \/ tag.v % 8 = 4 \/ ToInt(tag.v \div 8, IntBits) <= 0) /\ Rejects
      \/ /\ ~ IsErr(tag) /\ tag.v % 8 # 4 /\ ~ (ToInt(tag.v \div 8, IntBits) <= 0) /\ Res
  BY <1>2, <1>5 DEF A, B, C
<1> QED
  BY <1>1, <1>6 DEF Res, tag

LEMMA ReadTagSteps ==
    ASSUME FramesOk(frames), ReadTag
    PROVE  /\ Quits \/ Moves
           /\ input' = input
<1>1. frames # <<>> /\ Top.wire = NoTag /\ Top.iNdEx < Len(Top.dAtA)
  BY ReadTagCases
<1>2. CASE Rejects
  BY <1>1, <1>2, FailQuits, Zenon DEF Rejects
<1>3. CASE /\ ~ IsErr(ReadVarint(Top.dAtA, Top.iNdEx))
           /\ Resume([Top EXCEPT !.iNdEx = ReadVarint(Top.dAtA, Top.iNdEx).next,
                                 !.wire = ReadVarint(Top.dAtA, Top.iNdEx).v,
                                 !.preIndex = Top.iNdEx])
  <2>1. FrameOk(Top)
    BY <1>1, TopIs
  <2>2. Top.dAtA \in Seq(Byte) /\ Top.iNdEx \in Nat
    BY <2>1 DEF FrameOk, Buffer
  <2>3. PICK v, next : Reads(Top.dAtA, Top.iNdEx, v, next)
    BY <1>3, <2>2, ReadsOrFails
  <2>4. /\ ReadVarint(Top.dAtA, Top.iNdEx).v = v
        /\ ReadVarint(Top.dAtA, Top.iNdEx).next = next
    BY <2>3, ReadsFields
  <2>5. Resume(Moved(Top, next, v, Top.iNdEx, Top.m))
    <3>1. [Top EXCEPT !.iNdEx = next, !.wire = v, !.preIndex = Top.iNdEx]
            = Moved(Top, next, v, Top.iNdEx, Top.m)
      BY <2>1, MovedExcept, Zenon
    <3>2. Resume([Top EXCEPT !.iNdEx = next, !.wire = v, !.preIndex = Top.iNdEx])
      BY <1>3, <2>4, Zenon
    <3> QED
      BY <3>1, <3>2, Zenon
  <2>6. next \in Nat /\ Top.iNdEx < next /\ next <= Len(Top.dAtA)
    <3>1. next \in Top.iNdEx + 1 .. Len(Top.dAtA)
      BY <2>2, <2>3, ReadsBounds
    <3> QED
      BY <2>2, <3>1
  <2>7. Moves
    BY <1>1, <2>2, <2>3, <2>5, <2>6, ResumeMoves
  <2> QED
    BY <2>5, <2>7 DEF Resume
<1> QED
  BY <1>2, <1>3, ReadTagCases

LEMMA AtSwitchIs ==
    ASSUME FramesOk(frames), AtSwitch
    PROVE  /\ frames # <<>> /\ FrameOk(Top) /\ Buffer(Top.dAtA)
           /\ Top.type \in DOMAIN Message
           /\ Top.preIndex \in Nat /\ Top.iNdEx \in Nat
           /\ Top.preIndex < Top.iNdEx /\ Top.iNdEx <= Len(Top.dAtA)
           /\ Top.dAtA \in Seq(Byte) /\ Len(Top.dAtA) \in Nat
           /\ Reads(Top.dAtA, Top.preIndex, Top.wire, Top.iNdEx)
<1>1. frames # <<>> /\ FrameOk(Top) /\ Top.wire # NoTag
  BY TopIs DEF AtSwitch
<1>2. /\ Buffer(Top.dAtA) /\ Top.preIndex \in Nat /\ Top.type \in DOMAIN Message
      /\ Reads(Top.dAtA, Top.preIndex, Top.wire, Top.iNdEx)
  BY <1>1 DEF FrameOk
<1>3. Top.dAtA \in Seq(Byte) /\ Len(Top.dAtA) \in Nat
  BY <1>2 DEF Buffer
<1>4. Top.iNdEx \in Top.preIndex + 1 .. Len(Top.dAtA)
  BY <1>2, <1>3, ReadsBounds
<1> QED
  BY <1>1, <1>2, <1>3, <1>4

\* The part of a buffer from p on.
From(s, p) == SubSeq(s, p + 1, Len(s))

LEMMA FromIs ==
    ASSUME NEW s, Buffer(s), NEW p \in Nat, p <= Len(s)
    PROVE  /\ Buffer(From(s, p)) /\ Len(From(s, p)) = Len(s) - p
           /\ \A k \in 1 .. Len(s) - p : From(s, p)[k] = s[p + k]
<1>1. s \in Seq(Byte) /\ Len(s) \in Nat /\ Len(s) < Two[WordBits - 1]
  BY DEF Buffer
<1>2. From(s, p) \in Seq(Byte) /\ Len(From(s, p)) = Len(s) - p
  BY <1>1 DEF From
<1>3. \A k \in 1 .. Len(s) - p : From(s, p)[k] = s[p + k]
  BY <1>1 DEF From
<1>4. Two[WordBits - 1] \in Nat
  BY TwoNat, WidthsAssumption
<1> QED
  BY <1>1, <1>2, <1>3, <1>4 DEF Buffer

LEMMA ReadsFrom ==
    ASSUME NEW s, Buffer(s), NEW p \in Nat, NEW v, NEW next, Reads(s, p, v, next)
    PROVE  Reads(From(s, p), 0, v, next - p)
<1>1. s \in Seq(Byte) /\ Len(s) \in Nat
  BY DEF Buffer
<1>2. next \in p + 1 .. Len(s)
  BY <1>1, ReadsBounds
<1>3. PICK n \in Nat : next = p + n /\ next - p = n /\ p + n <= Len(s) /\ p <= Len(s)
                       /\ n <= Len(s) - p
  BY <1>1, <1>2
<1>4. /\ From(s, p) \in Seq(Byte) /\ Len(From(s, p)) = Len(s) - p
      /\ \A k \in 1 .. Len(s) - p : From(s, p)[k] = s[p + k]
  BY <1>3, FromIs DEF Buffer
<1>5. SameBytes(s, p, From(s, p), 0, n)
  <2> SUFFICES ASSUME NEW k \in 1 .. n PROVE From(s, p)[0 + k] = s[p + k]
    BY DEF SameBytes
  <2>1. k \in 1 .. Len(s) - p /\ 0 + k = k
    BY <1>1, <1>3
  <2> QED
    BY <1>4, <2>1
<1>6. 0 + n <= Len(From(s, p)) /\ Reads(s, p, v, p + n)
  BY <1>3, <1>4
<1>7. Reads(From(s, p), 0, v, 0 + n)
  BY <1>1, <1>4, <1>5, <1>6, ReadsSame
<1> QED
  BY <1>3, <1>7

LEMMA SkipFieldCases ==
    ASSUME SkipField
    PROVE  LET s == skip(From(Top.dAtA, Top.preIndex))
               next == Index(Top.preIndex + s.next)
           IN  /\ AtSwitch /\ Cases = {}
               /\ \/ (IsErr(s) \/ next < 0 \/ next > Len(Top.dAtA)) /\ Rejects
                  \/ /\ ~ IsErr(s) /\ ~ (next < 0) /\ ~ (next > Len(Top.dAtA))
                     /\ Advance(next, Top.m)
<1> DEFINE s == skip(From(Top.dAtA, Top.preIndex))
           next == Index(Top.preIndex + s.next)
           A == IsErr(s)
           B == ~ IsErr(s) /\ next < 0
           C == ~ IsErr(s) /\ next > Len(Top.dAtA)
<1>1. /\ AtSwitch /\ Cases = {}
      /\ CASE A -> Fail(s.err) [] B -> Fail("length") [] C -> Fail("EOF")
           [] OTHER -> Advance(next, Top.m)
  BY DEF SkipField, From
<1> HIDE DEF s, next
<1>2. \/ (A \/ B \/ C) /\ Rejects
      \/ ~ A /\ ~ B /\ ~ C /\ Advance(next, Top.m)
  <2>1. A => s.err # ""
    BY Zenon DEF IsErr
  <2>2. "length" # "" /\ "EOF" # ""
    OBVIOUS
  <2> HIDE DEF A, B, C
  <2>3. \/ (A /\ Fail(s.err)) \/ (B /\ Fail("length")) \/ (C /\ Fail("EOF"))
        \/ ~ A /\ ~ B /\ ~ C /\ Advance(next, Top.m)
    <3> DEFINE FA == Fail(s.err)
               FB == Fail("length")
               FC == Fail("EOF")
               FD == Advance(next, Top.m)
    <3>1. (CASE A -> FA [] B -> FB [] C -> FC [] OTHER -> FD)
      BY <1>1
    <3> HIDE DEF FA, FB, FC, FD
    <3>2. (A /\ FA) \/ (B /\ FB) \/ (C /\ FC) \/ (~ A /\ ~ B /\ ~ C /\ FD)
      BY <3>1
    <3> QED
      BY <3>2 DEF FA, FB, FC, FD
  <2> QED
    BY <2>1, <2>2, <2>3, Zenon DEF Rejects
<1> QED
  BY <1>1, <1>2 DEF s, next

LEMMA AdvanceMoves ==
    ASSUME FramesOk(frames), frames # <<>>, NEW i \in Nat, Top.iNdEx < i,
           i <= Len(Top.dAtA), NEW m, Advance(i, m)
    PROVE  Moves /\ input' = input /\ Resume(Moved(Top, i, NoTag, Top.preIndex, m))
<1>1. FrameOk(Top)
  BY TopIs
<1>2. Resume(Moved(Top, i, NoTag, Top.preIndex, m))
  <2>3. [Top EXCEPT !.iNdEx = i, !.wire = NoTag, !.m = m]
          = Moved(Top, i, NoTag, Top.preIndex, m)
    BY <1>1, MovedAhead, Zenon
  <2> QED
    BY <2>3, Zenon DEF Advance
<1>3. Moves
  BY <1>2, ResumeMoves
<1> QED
  BY <1>2, <1>3 DEF Resume

LEMMA SkipFieldSteps ==
    ASSUME FramesOk(frames), SkipField
    PROVE  /\ Quits \/ Moves
           /\ input' = input
<1>1. AtSwitch
  BY SkipFieldCases
<1>2. /\ frames # <<>> /\ FrameOk(Top) /\ Buffer(Top.dAtA)
      /\ Top.preIndex \in Nat /\ Top.iNdEx \in Nat
      /\ Top.preIndex < Top.iNdEx /\ Top.iNdEx <= Len(Top.dAtA)
      /\ Len(Top.dAtA) \in Nat
      /\ Reads(Top.dAtA, Top.preIndex, Top.wire, Top.iNdEx)
  BY <1>1, AtSwitchIs
<1> DEFINE u == From(Top.dAtA, Top.preIndex)
           next == Index(Top.preIndex + skip(u).next)
<1>3. CASE Rejects
  BY <1>2, <1>3, FailQuits, Zenon DEF Rejects
<1>4. CASE ~ IsErr(skip(u)) /\ ~ (next < 0) /\ ~ (next > Len(Top.dAtA))
           /\ Advance(next, Top.m)
  <2>1. Buffer(u) /\ Reads(u, 0, Top.wire, Top.iNdEx - Top.preIndex)
    <3>1. Top.preIndex <= Len(Top.dAtA)
      BY <1>2
    <3>2. Buffer(From(Top.dAtA, Top.preIndex))
      BY <1>2, <3>1, FromIs
    <3>3. Reads(From(Top.dAtA, Top.preIndex), 0, Top.wire, Top.iNdEx - Top.preIndex)
      BY <1>2, ReadsFrom
    <3> QED
      BY <3>2, <3>3
  <2> HIDE DEF u
  <2>2. PICK j \in Nat : /\ Skips(u, j) /\ j < Two[WordBits - 1]
                         /\ \A t, m : Reads(u, 0, t, m) => m \in Nat /\ m < j
    BY <1>4, <2>1, EndedFields, SkipCases
  <2>3. skip(u).next = j
    BY <2>2, GotFields DEF Skips
  <2>4. Top.preIndex < Two[WordBits - 1]
    <3>1. Two[WordBits - 1] \in Nat
      BY TwoNat, WidthsAssumption
    <3> QED
      BY <1>2, <3>1 DEF Buffer
  <2>5. next = Top.preIndex + j
    BY <1>2, <1>4, <2>2, <2>3, <2>4, IndexAhead
  <2>6. Top.iNdEx - Top.preIndex < j
    BY <2>1, <2>2
  <2> HIDE DEF next
  <2>7. next \in Nat /\ Top.iNdEx < next /\ next <= Len(Top.dAtA)
    BY <1>2, <1>4, <2>2, <2>5, <2>6
  <2> QED
    BY <1>2, <1>4, <2>7, AdvanceMoves
<1> QED
  BY <1>3, <1>4, SkipFieldCases

LEMMA CasesAre ==
    ASSUME NEW row \in Cases
    PROVE  AtSwitch /\ row \in Rows(Top.type) /\ row.num = FieldNum
BY DEF Cases, Rows

LEMMA WrongWireTypeSteps ==
    ASSUME FramesOk(frames), WrongWireType
    PROVE  Quits /\ input' = input
<1>1. AtSwitch
  BY CasesAre DEF WrongWireType
<1> QED
  BY <1>1, FailQuits DEF WrongWireType, AtSwitch

LEMMA DecodeNumberSteps ==
    ASSUME FramesOk(frames), NEW row \in Cases, DecodeNumber(row)
    PROVE  /\ Quits \/ Moves
           /\ input' = input
<1> DEFINE r == ReadVarint(Top.dAtA, Top.iNdEx)
           m == [Top.m EXCEPT ![row.field] = Number(row, r.v)]
<1>1. IF IsErr(r) THEN Fail(r.err) ELSE Advance(r.next, m)
  BY DEF DecodeNumber
<1>2. frames # <<>> /\ Top.iNdEx \in Nat /\ Top.dAtA \in Seq(Byte)
      /\ Len(Top.dAtA) \in Nat
  BY CasesAre, AtSwitchIs
<1> HIDE DEF m
<1>3. CASE IsErr(r)
  BY <1>1, <1>2, <1>3, FailQuits
<1>4. ASSUME NEW v, NEW next, Reads(Top.dAtA, Top.iNdEx, v, next)
      PROVE  Moves /\ input' = input
  <2>1. ~ IsErr(r) /\ r.next = next
    BY <1>4, ReadsFields
  <2>2. next \in Nat /\ Top.iNdEx < next /\ next <= Len(Top.dAtA)
    <3>1. next \in Top.iNdEx + 1 .. Len(Top.dAtA)
      BY <1>2, <1>4, ReadsBounds
    <3> QED
      BY <1>2, <3>1
  <2>3. Advance(next, m)
    BY <1>1, <2>1, Zenon
  <2> QED
    BY <1>2, <2>2, <2>3, AdvanceMoves
<1> QED
  BY <1>2, <1>3, <1>4, ReadsOrFails

LEMMA DecodeBytesSteps ==
    ASSUME FramesOk(frames), NEW row \in Cases, DecodeBytes(row)
    PROVE  /\ Quits \/ Moves
           /\ input' = input
<1> DEFINE r == ReadDelimited(Top.dAtA, Top.iNdEx)
           m == [Top.m EXCEPT ![row.field] = SubSeq(Top.dAtA, r.v + 1, r.next)]
<1>1. IF IsErr(r) THEN Fail(r.err) ELSE Advance(r.next, m)
  BY DEF DecodeBytes
<1>2. frames # <<>> /\ Top.iNdEx \in Nat /\ Buffer(Top.dAtA)
      /\ Len(Top.dAtA) \in Nat
  BY CasesAre, AtSwitchIs
<1> HIDE DEF m
<1>3. CASE IsErr(r)
  BY <1>1, <1>2, <1>3, FailQuits
<1>4. ASSUME NEW b, NEW e, Delimits(Top.dAtA, Top.iNdEx, b, e), b \in Nat, e \in Nat,
             Top.iNdEx < b, b <= e, e <= Len(Top.dAtA)
      PROVE  Moves /\ input' = input
  <2>1. ~ IsErr(r) /\ r.next = e
    BY <1>4, DelimitsFields
  <2>2. Advance(e, m)
    BY <1>1, <2>1, Zenon
  <2>3. Top.iNdEx < e
    BY <1>2, <1>4
  <2> QED
    BY <1>2, <1>4, <2>2, <2>3, AdvanceMoves
<1> QED
  BY <1>2, <1>3, <1>4, DelimitsBounds

\* A call is made for the bytes from b to e.
LEMMA CallIs ==
    ASSUME FramesOk(frames), frames # <<>>, NEW row, row.type \in DOMAIN Message,
           NEW r, NEW b \in Nat, NEW e \in Nat, r.v = b, r.next = e, b <= e,
           e <= Len(Top.dAtA), Top.iNdEx < b, NEW m, Call(row, r, m)
    PROVE  LET fr == Moved(Top, e, NoTag, Top.preIndex, Top.m)
               callee == Frame(row.type, SubSeq(Top.dAtA, b + 1, e), m, row)
           IN  /\ FrameOk(fr) /\ FrameOk(callee) /\ Nested(fr, callee)
               /\ fr.dAtA = Top.dAtA /\ callee.iNdEx = 0 /\ fr.iNdEx = e
               /\ callee.dAtA = SubSeq(Top.dAtA, b + 1, e)
               /\ Len(callee.dAtA) = e - b
               /\ frames' = Append(Put(frames, Len(frames), fr), callee)
<1> DEFINE fr == Moved(Top, e, NoTag, Top.preIndex, Top.m)
           s == SubSeq(Top.dAtA, b + 1, e)
           callee == Frame(row.type, s, m, row)
<1>1. FrameOk(Top) /\ Buffer(Top.dAtA) /\ Top.dAtA \in Seq(Byte)
      /\ Len(Top.dAtA) \in Nat /\ Len(Top.dAtA) < Two[WordBits - 1]
  BY TopIs DEF FrameOk, Buffer
<1>2. /\ FrameOk(fr) /\ fr.dAtA = Top.dAtA /\ fr.iNdEx = e /\ fr.wire = NoTag
  BY <1>1, MovedOk
<1>3. [Top EXCEPT !.iNdEx = e, !.wire = NoTag] = fr
  BY <1>1, MovedExcept, Zenon
<1>4. frames' = Append(Put(frames, Len(frames), fr), callee)
  BY <1>3, Zenon DEF Call, Put
<1>5. s \in Seq(Byte) /\ Len(s) = e - b
  BY <1>1
<1>6. Buffer(s)
  <2>1. Two[WordBits - 1] \in Nat
    BY TwoNat, WidthsAssumption
  <2> HIDE DEF s
  <2> QED
    BY <1>1, <1>5, <2>1 DEF Buffer
<1>s. s = SubSeq(Top.dAtA, b + 1, e)
  OBVIOUS
<1> HIDE DEF s
<1>7. /\ callee.type = row.type /\ callee.dAtA = s /\ callee.iNdEx = 0
      /\ callee.wire = NoTag
  BY DEF Frame
<1>8. FrameOk(callee)
  <2>1. callee = [type |-> callee.type, dAtA |-> callee.dAtA, iNdEx |-> callee.iNdEx,
                  preIndex |-> callee.preIndex, wire |-> callee.wire, m |-> callee.m,
                  row |-> callee.row]
    BY DEF Frame
  <2> HIDE DEF callee
  <2>2. 0 \in Nat /\ 0 <= Len(s)
    BY <1>5
  <2> QED
    BY <1>6, <1>7, <2>1, <2>2 DEF FrameOk
<1> HIDE DEF fr, callee
<1>9. Nested(fr, callee)
  <2>1. e - Len(s) + 1 = b + 1
    BY <1>5
  <2> QED
    BY <1>2, <1>7, <1>s, <2>1 DEF Nested
<1> QED
  BY <1>2, <1>4, <1>5, <1>7, <1>8, <1>9, <1>s, Zenon DEF fr, callee

LEMMA EnterMessageSteps ==
    ASSUME FramesOk(frames), NEW row \in Cases, EnterMessage(row)
    PROVE  /\ Quits \/ Calls
           /\ input' = input
<1> DEFINE r == ReadDelimited(Top.dAtA, Top.iNdEx)
           m == Filled(row, Top.m[row.field])
<1>1. Embeds(row) /\ IF IsErr(r) THEN Fail(r.err) ELSE Call(row, r, m)
  BY DEF EnterMessage, Embeds
<1>2. frames # <<>> /\ Top.iNdEx \in Nat /\ Buffer(Top.dAtA)
      /\ Len(Top.dAtA) \in Nat /\ row.type \in DOMAIN Message
  <2>1. row \in Rows(Top.type) /\ Top.type \in DOMAIN Message
    BY CasesAre, AtSwitchIs
  <2>2. row.type \in Held
    BY <1>1, <2>1, Levels
  <2>3. row.type \in DOMAIN Message
    BY <2>2, Levels
  <2> QED
    BY <2>3, CasesAre, AtSwitchIs
<1> HIDE DEF m
<1>3. CASE IsErr(r)
  BY <1>1, <1>2, <1>3, FailQuits
<1>4. ASSUME NEW b, NEW e, Delimits(Top.dAtA, Top.iNdEx, b, e), b \in Nat, e \in Nat,
             Top.iNdEx < b, b <= e, e <= Len(Top.dAtA)
      PROVE  Calls /\ input' = input
  <2>1. ~ IsErr(r) /\ r.v = b /\ r.next = e
    BY <1>4, DelimitsFields
  <2>2. Call(row, r, m)
    BY <1>1, <2>1, Zenon
  <2>3. PICK s, x : s = r /\ x = m
    OBVIOUS
  <2> HIDE DEF r
  <2>4. Call(row, s, x) /\ s.v = b /\ s.next = e
    BY <2>1, <2>2, <2>3, Zenon
  <2> DEFINE fr == Moved(Top, e, NoTag, Top.preIndex, Top.m)
             callee == Frame(row.type, SubSeq(Top.dAtA, b + 1, e), x, row)
  <2>5. /\ FrameOk(fr) /\ FrameOk(callee) /\ Nested(fr, callee)
        /\ fr.dAtA = Top.dAtA /\ callee.iNdEx = 0 /\ fr.iNdEx = e
        /\ Len(callee.dAtA) = e - b
        /\ frames' = Append(Put(frames, Len(frames), fr), callee)
    BY <1>2, <1>4, <2>4, CallIs, SMTT(40)
  <2> HIDE DEF fr, callee
  <2>6. Top.iNdEx + Len(callee.dAtA) < fr.iNdEx
    BY <1>2, <1>4, <2>5
  <2> QED
    BY <1>2, <2>4, <2>5, <2>6 DEF Calls, Call
<1> QED
  BY <1>2, <1>3, <1>4, DelimitsBounds

\* The caller's message with one field changed.
LEMMA MovedField ==
    ASSUME NEW fr, FrameOk(fr), NEW f, NEW x
    PROVE  [fr EXCEPT !.m[f] = x]
             = Moved(fr, fr.iNdEx, fr.wire, fr.preIndex, Put(fr.m, f, x))
<1>0. fr = [type |-> fr.type, dAtA |-> fr.dAtA, iNdEx |-> fr.iNdEx,
            preIndex |-> fr.preIndex, wire |-> fr.wire, m |-> fr.m, row |-> fr.row]
  BY DEF FrameOk
<1>1. PICK g : g = [fr EXCEPT !.m[f] = x]
  OBVIOUS
<1>2. g = [k \in Names |-> g[k]]
  BY <1>0, <1>1 DEF Names
<1>3. /\ g.type = fr.type /\ g.dAtA = fr.dAtA /\ g.row = fr.row
      /\ g.iNdEx = fr.iNdEx /\ g.wire = fr.wire /\ g.preIndex = fr.preIndex
      /\ g.m = Put(fr.m, f, x)
  BY <1>0, <1>1 DEF Put
<1> QED
  BY <1>1, <1>2, <1>3, FrameFields, ZenonT(60) DEF Moved

LEMMA PopIs ==
    ASSUME NEW fs, FramesOk(fs), NEW n \in Nat, n >= 1, Len(fs) = n + 1, NEW fr
    PROVE  Append(SubSeq(fs, 1, Len(fs) - 2), fr) = Put(SubSeq(fs, 1, n), n, fr)
<1>1. fs \in Seq(Range(fs))
  BY DEF FramesOk
<1>2. PICK S : fs \in Seq(S) /\ fr \in S
  <2>1. fs \in Seq(Range(fs) \cup {fr}) /\ fr \in Range(fs) \cup {fr}
    BY <1>1
  <2> QED
    BY <2>1
<1>3. Len(fs) - 2 = n - 1 /\ n - 1 \in Nat /\ n - 1 <= Len(fs)
  OBVIOUS
<1> DEFINE a == SubSeq(fs, 1, n - 1)
           b == SubSeq(fs, 1, n)
<1>4. a \in Seq(S)
  BY <1>2, <1>3
<1>5. Len(a) = n - 1 /\ \A i \in 1 .. n - 1 : a[i] = fs[i]
  BY <1>2, <1>3
<1>6. b \in Seq(S)
  BY <1>2
<1>7. Len(b) = n /\ \A i \in 1 .. n : b[i] = fs[i]
  BY <1>2
<1> HIDE DEF a, b
<1>8. Append(a, fr) = Put(b, n, fr)
  <2>1. /\ Append(a, fr) \in Seq(S) /\ Len(Append(a, fr)) = n
        /\ [b EXCEPT ![n] = fr] \in Seq(S) /\ Len([b EXCEPT ![n] = fr]) = n
    BY <1>2, <1>4, <1>5, <1>6, <1>7
  <2>2. ASSUME NEW i \in 1 .. n PROVE Append(a, fr)[i] = [b EXCEPT ![n] = fr][i]
    <3>1. CASE i = n
      BY <1>4, <1>5, <1>6, <1>7, <3>1
    <3>2. CASE i # n
      <4>1. i \in 1 .. n - 1
        BY <3>2, SMTT(40)
      <4> QED
        BY <1>4, <1>5, <1>6, <1>7, <3>2, <4>1
    <3> QED
      BY <3>1, <3>2
  <2> QED
    BY <2>1, <2>2, SeqEqual DEF Put
<1> QED
  BY <1>3, <1>8 DEF a, b

LEMMA ReturnToCallerIs ==
    ASSUME FramesOk(frames), ReturnToCaller
    PROVE  \E n \in Nat :
             /\ n >= 1 /\ Len(frames) = n + 1 /\ Top.iNdEx = Len(Top.dAtA)
             /\ Top.wire = NoTag /\ FrameOk(frames[n]) /\ input' = input
             /\ LET caller == frames[n]
                    x == Stored(Top.row, caller.m[Top.row.field], Top.m)
                IN  frames' = Put(SubSeq(frames, 1, n), n,
                                  Moved(caller, caller.iNdEx, caller.wire, caller.preIndex,
                                        Put(caller.m, Top.row.field, x)))
<1>1. frames \in Seq(Range(frames)) /\ Len(frames) \in Nat
  BY DEF FramesOk
<1>2. PICK n \in Nat : n >= 1 /\ Len(frames) = n + 1 /\ Len(frames) - 1 = n
  BY <1>1, SMTT(40) DEF ReturnToCaller
<1>3. FrameOk(frames[n])
  BY <1>2 DEF FramesOk
<1>4. Top.iNdEx = Len(Top.dAtA) /\ Top.wire = NoTag
  <2>1. FrameOk(Top) /\ Top.iNdEx >= Len(Top.dAtA)
    BY TopIs DEF ReturnToCaller, AtLoop
  <2> QED
    BY <2>1 DEF ReturnToCaller, AtLoop, FrameOk, Buffer
<1> DEFINE caller == frames[n]
           f == Top.row.field
           x == Stored(Top.row, caller.m[f], Top.m)
           fr == Moved(caller, caller.iNdEx, caller.wire, caller.preIndex,
                       Put(caller.m, f, x))
<1>5. [caller EXCEPT !.m[f] = x] = fr
  BY <1>3, MovedField
<1>6. frames' = Append(SubSeq(frames, 1, Len(frames) - 2), [caller EXCEPT !.m[f] = x])
      /\ input' = input
  BY <1>2 DEF ReturnToCaller
<1>7. frames' = Put(SubSeq(frames, 1, n), n, fr)
  <2> HIDE DEF fr
  <2>1. frames' = Append(SubSeq(frames, 1, Len(frames) - 2), fr)
    BY <1>5, <1>6, Zenon
  <2>2. Append(SubSeq(frames, 1, Len(frames) - 2), fr)
          = Put(SubSeq(frames, 1, n), n, fr)
    BY <1>2, PopIs
  <2> QED
    BY <2>1, <2>2
<1> QED
  BY <1>2, <1>3, <1>4, <1>6, <1>7, Zenon

LEMMA ReturnToCallerSteps ==
    ASSUME FramesOk(frames), ReturnToCaller
    PROVE  Pops /\ input' = input
<1>1. PICK n \in Nat :
             /\ n >= 1 /\ Len(frames) = n + 1 /\ Top.iNdEx = Len(Top.dAtA)
             /\ Top.wire = NoTag /\ FrameOk(frames[n]) /\ input' = input
             /\ LET caller == frames[n]
                    x == Stored(Top.row, caller.m[Top.row.field], Top.m)
                IN  frames' = Put(SubSeq(frames, 1, n), n,
                                  Moved(caller, caller.iNdEx, caller.wire, caller.preIndex,
                                        Put(caller.m, Top.row.field, x)))
  BY ReturnToCallerIs
<1> DEFINE caller == frames[n]
           x == Stored(Top.row, caller.m[Top.row.field], Top.m)
           fr == Moved(caller, caller.iNdEx, caller.wire, caller.preIndex,
                       Put(caller.m, Top.row.field, x))
<1>2. FrameOk(fr) /\ fr.dAtA = caller.dAtA /\ fr.iNdEx = caller.iNdEx
  <2>1. /\ caller.iNdEx \in Nat /\ caller.iNdEx <= Len(caller.dAtA)
        /\ caller.wire # NoTag => /\ caller.preIndex \in Nat
                                  /\ Reads(caller.dAtA, caller.preIndex, caller.wire,
                                           caller.iNdEx)
    BY <1>1 DEF FrameOk
  <2> QED
    BY <1>1, <2>1, MovedOk
<1>3. frames' = Put(SubSeq(frames, 1, n), n, fr) /\ n = Len(frames) - 1
  BY <1>1
<1> HIDE DEF fr
<1> QED
  BY <1>1, <1>2, <1>3 DEF Pops

LEMMA ReturnSteps ==
    ASSUME FramesOk(frames), Return
    PROVE  Quits /\ input' = input
<1>1. frames # <<>>
  BY DEF Return, AtLoop
<1> QED
  BY <1>1 DEF Return, Quits

\* Every step is of one of these forms.
LEMMA StepForms ==
    ASSUME FramesOk(frames), [Next]_vars
    PROVE  /\ Quits \/ Moves \/ Calls \/ Pops \/ UNCHANGED vars
           /\ input' = input
<1>1. CASE ReadTag
  BY <1>1, ReadTagSteps
<1>2. CASE SkipField
  BY <1>2, SkipFieldSteps
<1>3. CASE WrongWireType
  BY <1>3, WrongWireTypeSteps
<1>4. ASSUME NEW row \in Cases, DecodeNumber(row)
      PROVE  (Quits \/ Moves) /\ input' = input
  BY <1>4, DecodeNumberSteps
<1>5. ASSUME NEW row \in Cases, DecodeBytes(row)
      PROVE  (Quits \/ Moves) /\ input' = input
  BY <1>5, DecodeBytesSteps
<1>6. ASSUME NEW row \in Cases, EnterMessage(row)
      PROVE  (Quits \/ Calls) /\ input' = input
  BY <1>6, EnterMessageSteps
<1>7. CASE ReturnToCaller
  BY <1>7, ReturnToCallerSteps
<1>8. CASE Return
  BY <1>8, ReturnSteps
<1>9. CASE Returned \/ UNCHANGED vars
  BY <1>9 DEF Returned, vars
<1> QED
  BY <1>1, <1>2, <1>3, <1>4, <1>5, <1>6, <1>7, <1>8, <1>9 DEF Next

LEMMA QuitsKeeps == ASSUME Quits PROVE FramesOk(frames')
<1>1. FramesOk(<<>>)
  <2>1. <<>> \in Seq(Range(<<>>)) /\ Len(<<>>) = 0
    OBVIOUS
  <2>2. \A i : i \notin 1 .. 0
    OBVIOUS
  <2> QED
    BY <2>1, <2>2 DEF FramesOk
<1> QED
  BY <1>1 DEF Quits

LEMMA MovesKeeps == ASSUME FramesOk(frames), Moves PROVE FramesOk(frames')
<1>1. PICK fr : /\ frames # <<>> /\ FrameOk(fr)
                /\ fr.dAtA = Top.dAtA /\ Top.iNdEx < fr.iNdEx
                /\ frames' = Put(frames, Len(frames), fr)
  BY DEF Moves
<1>2. fr.dAtA = frames[Len(frames)].dAtA
  BY <1>1, TopIs
<1> QED
  BY <1>1, <1>2, ReplaceLast DEF Put

LEMMA CallsKeeps == ASSUME FramesOk(frames), Calls PROVE FramesOk(frames')
<1>1. PICK fr, callee :
           /\ frames # <<>> /\ FrameOk(fr) /\ FrameOk(callee)
           /\ fr.dAtA = Top.dAtA /\ Nested(fr, callee)
           /\ frames' = Append(Put(frames, Len(frames), fr), callee)
  BY DEF Calls
<1>2. fr.dAtA = frames[Len(frames)].dAtA
  BY <1>1, TopIs
<1>3. PICK gs : gs = Put(frames, Len(frames), fr)
  OBVIOUS
<1>4. FramesOk(gs)
  BY <1>1, <1>2, <1>3, ReplaceLast DEF Put
<1>5. Len(gs) = Len(frames) /\ gs[Len(gs)] = fr /\ gs # <<>>
  <2>1. PICK n \in Nat : n = Len(frames) /\ n >= 1 /\ frames \in Seq(Range(frames))
    BY <1>1 DEF FramesOk
  <2>2. DOMAIN gs = 1 .. n /\ gs[n] = fr
    BY <1>3, <2>1 DEF Put
  <2>3. gs \in Seq(Range(gs))
    BY <1>4 DEF FramesOk
  <2> QED
    BY <2>1, <2>2, <2>3
<1> QED
  BY <1>1, <1>3, <1>4, <1>5, PushFrame

LEMMA PopsKeeps == ASSUME FramesOk(frames), Pops PROVE FramesOk(frames')
<1>1. PICK fr, n : /\ n = Len(frames) - 1 /\ n >= 1 /\ FrameOk(fr)
                   /\ fr.dAtA = frames[n].dAtA
                   /\ frames' = Put(SubSeq(frames, 1, n), n, fr)
  BY DEF Pops
<1>2. Len(frames) \in Nat /\ n \in Nat /\ Len(frames) > 1 /\ n \in 1 .. n
  BY <1>1 DEF FramesOk
<1>3. PICK gs : gs = SubSeq(frames, 1, n)
  OBVIOUS
<1>4. FramesOk(gs) /\ gs # <<>> /\ Len(gs) = n /\ gs[n] = frames[n]
  BY <1>1, <1>2, <1>3, PopFrame
<1>5. FramesOk(Put(gs, Len(gs), fr))
  BY <1>1, <1>4, ReplaceLast DEF Put
<1> QED
  BY <1>1, <1>3, <1>4, <1>5

LEMMA InitFrames == ASSUME Init PROVE IndInv
<1>1. /\ input \in Inputs
      /\ frames = <<Frame(input.type, input.dAtA, Zero(input.type), <<>>)>>
  BY Zenon DEF Init
<1>2. input.type \in DOMAIN Message /\ Buffer(input.dAtA) /\ Len(input.dAtA) \in Nat
  BY <1>1, InputsAssumption DEF Buffer
<1>3. PICK t, s, z : t = input.type /\ s = input.dAtA /\ z = Zero(input.type)
  OBVIOUS
<1>4. PICK fr : fr = Frame(t, s, z, <<>>)
  OBVIOUS
<1>5. FrameOk(fr)
  BY <1>2, <1>3, <1>4 DEF FrameOk, Frame
<1>6. frames = <<fr>>
  BY <1>1, <1>3, <1>4
<1>7. FramesOk(<<fr>>)
  <2>1. <<fr>> \in Seq(Range(<<fr>>)) /\ Len(<<fr>>) = 1 /\ <<fr>>[1] = fr
    BY DEF Range
  <2>2. \A i \in 1 .. 1 : i = 1 /\ ~ (i > 1)
    OBVIOUS
  <2> QED
    BY <1>5, <2>1, <2>2 DEF FramesOk
<1> QED
  BY <1>1, <1>6, <1>7 DEF IndInv

LEMMA NextFrames == IndInv /\ [Next]_vars => IndInv'
<1> SUFFICES ASSUME IndInv, [Next]_vars PROVE IndInv'
  OBVIOUS
<1>1. FramesOk(frames)
  BY DEF IndInv
<1>2. input' \in Inputs
  BY <1>1, StepForms DEF IndInv
<1>3. FramesOk(frames')
  <2>1. UNCHANGED vars => FramesOk(frames')
    BY <1>1 DEF vars
  <2> QED
    BY <1>1, <2>1, StepForms, QuitsKeeps, MovesKeeps, CallsKeeps, PopsKeeps
<1> QED
  BY <1>2, <1>3 DEF IndInv, FramesOk

LEMMA Framed == Spec => []IndInv
<1>1. Init => IndInv
  BY InitFrames
<1> QED
  BY <1>1, NextFrames, PTL DEF Spec

\* No call of Unmarshal reads or slices outside its buffer, whatever its bytes
\* and however wide a word: lengths that are negative or make the index wrap
\* are rejected, and a callee's buffer ends where its caller goes on.
THEOREM IndicesInBounds == Spec => []IndexInBounds
<1>1. IndInv => IndexInBounds
  <2> SUFFICES ASSUME IndInv, NEW i \in DOMAIN frames
               PROVE  /\ 0 <= frames[i].iNdEx /\ frames[i].iNdEx <= Len(frames[i].dAtA)
                      /\ i > 1 => frames[i].dAtA =
                           SubSeq(frames[i - 1].dAtA,
                                  frames[i - 1].iNdEx - Len(frames[i].dAtA) + 1,
                                  frames[i - 1].iNdEx)
    BY DEF IndexInBounds
  <2>1. i \in 1 .. Len(frames)
    BY DEF IndInv, FramesOk
  <2>2. FrameOk(frames[i]) /\ (i > 1 => Nested(frames[i - 1], frames[i]))
    BY <2>1 DEF IndInv, FramesOk
  <2> QED
    BY <2>2 DEF FrameOk, Nested
<1> QED
  BY <1>1, Framed, PTL

-----------------------------------------------------------------------------
(***************************************************************************)
(* Sums, and the work left.                                                *)
(***************************************************************************)
Sums(f, s) == f = [n \in 0 .. Len(s) |-> IF n = 0 THEN 0 ELSE f[n - 1] + s[n]]

LEMMA SumsStep ==
    ASSUME NEW s \in Seq(Nat), NEW f, Sums(f, s)
    PROVE  /\ f[0] = 0
           /\ \A k \in 0 .. Len(s) : k < Len(s) => f[k + 1] = f[k] + s[k + 1]
           /\ \A k \in 0 .. Len(s) : f[k] \in Nat
<1>0. Len(s) \in Nat
  OBVIOUS
<1>1. \A n \in 0 .. Len(s) : f[n] = IF n = 0 THEN 0 ELSE f[n - 1] + s[n]
  BY DEF Sums
<1>2. f[0] = 0
  BY <1>0, <1>1
<1>3. ASSUME NEW k \in 0 .. Len(s), k < Len(s) PROVE f[k + 1] = f[k] + s[k + 1]
  <2>1. k + 1 \in 0 .. Len(s) /\ k + 1 # 0 /\ (k + 1) - 1 = k
    BY <1>0, <1>3
  <2> QED
    BY <1>1, <2>1
<1> DEFINE S == {k \in 0 .. Len(s) : f[k] \in Nat}
<1>4. 0 \in S
  BY <1>0, <1>2
<1>5. ASSUME NEW k \in 0 .. Len(s), k \in S, k < Len(s) PROVE k + 1 \in S
  <2>1. k + 1 \in 0 .. Len(s) /\ k + 1 \in 1 .. Len(s)
    BY <1>0, <1>5
  <2>2. s[k + 1] \in Nat
    BY <2>1
  <2> QED
    BY <1>3, <1>5, <2>1, <2>2
<1> HIDE DEF S
<1>6. \A k \in 0 .. Len(s) : k \in S
  BY <1>0, <1>4, <1>5, UpTo
<1> QED
  BY <1>2, <1>3, <1>6 DEF S

LEMMA TotalIs ==
    ASSUME NEW s \in Seq(Nat)
    PROVE  \E f : Sums(f, s) /\ Total(s) = f[Len(s)]
<1> DEFINE n == Len(s)
           Step(g) == [k \in 0 .. n |-> IF k = 0 THEN 0 ELSE g[k - 1] + s[k]]
           f == CHOOSE g : g = Step(g)
           step == [p \in (0 .. n) \X Nat |-> p[2] + s[p[1]]]
<1>0. n \in Nat
  OBVIOUS
<1>1. Total(s) = f[n]
  BY DEF Total
<1>2. \A g : Sums(g, s) <=> g = Step(g)
  BY DEF Sums
<1>3. \E g : Sums(g, s)
  <2>1. ASSUME NEW k \in 1 .. n, NEW x \in Nat
        PROVE  step[<<k, x>>] = x + s[k] /\ step[<<k, x>>] \in Nat
    <3>1. k \in 0 .. n /\ s[k] \in Nat
      BY <1>0
    <3> QED
      BY <3>1, SMTT(40)
  <2> HIDE DEF step, n
  <2>2. PICK g : Runs(g, n, 0, step) /\ \A k \in 0 .. n : g[k] \in Nat
    BY <1>0, <2>1, RunIn
  <2>3. \A k \in 0 .. n : g[k] = IF k = 0 THEN 0 ELSE step[<<k, g[k - 1]>>]
    BY <2>2 DEF Runs
  <2>4. ASSUME NEW k \in 0 .. n, k # 0 PROVE g[k] = g[k - 1] + s[k]
    <3>1. k - 1 \in 0 .. n /\ k \in 1 .. n
      BY <1>0, <2>4
    <3> QED
      BY <2>1, <2>2, <2>3, <2>4, <3>1
  <2>5. g = [k \in 0 .. n |-> g[k]]
    BY <2>2 DEF Runs
  <2>6. g = Step(g)
    BY <2>3, <2>4, <2>5
  <2> QED
    BY <1>2, <2>6
<1> HIDE DEF Step
<1>4. Sums(f, s)
  BY <1>2, <1>3
<1> HIDE DEF f
<1> QED
  BY <1>1, <1>4

LEMMA TotalNat == ASSUME NEW s \in Seq(Nat) PROVE Total(s) \in Nat
<1>1. PICK f : Sums(f, s) /\ Total(s) = f[Len(s)]
  BY TotalIs
<1>2. Len(s) \in 0 .. Len(s)
  OBVIOUS
<1> QED
  BY <1>1, <1>2, SumsStep

LEMMA TotalEmpty == Total(<<>>) = 0
<1>1. <<>> \in Seq(Nat) /\ Len(<<>>) = 0
  OBVIOUS
<1>2. PICK f : Sums(f, <<>>) /\ Total(<<>>) = f[Len(<<>>)]
  BY <1>1, TotalIs
<1> QED
  BY <1>1, <1>2, SumsStep

\* One number more.
LEMMA TotalLast ==
    ASSUME NEW s \in Seq(Nat), NEW t \in Seq(Nat), Len(s) = Len(t) + 1,
           \A i \in 1 .. Len(t) : s[i] = t[i]
    PROVE  Total(s) = Total(t) + s[Len(t) + 1]
<1>1. PICK n \in Nat : n = Len(t) /\ Len(s) = n + 1
  OBVIOUS
<1>2. PICK f : Sums(f, s) /\ Total(s) = f[n + 1]
  BY <1>1, TotalIs
<1>3. PICK g : Sums(g, t) /\ Total(t) = g[n]
  BY <1>1, TotalIs
<1>4. /\ f[0] = 0 /\ \A k \in 0 .. n + 1 : k < n + 1 => f[k + 1] = f[k] + s[k + 1]
      /\ g[0] = 0 /\ \A k \in 0 .. n : k < n => g[k + 1] = g[k] + t[k + 1]
  BY <1>1, <1>2, <1>3, SumsStep, ZenonT(60)
<1> DEFINE S == {k \in 0 .. n : f[k] = g[k]}
<1>5. 0 \in S
  BY <1>4
<1>6. ASSUME NEW k \in 0 .. n, k \in S, k < n PROVE k + 1 \in S
  <2>1. k + 1 \in 0 .. n /\ k + 1 \in 1 .. n /\ k \in 0 .. n + 1 /\ k < n + 1
    BY <1>6
  <2>2. s[k + 1] = t[k + 1]
    BY <1>1, <2>1
  <2> QED
    BY <1>4, <1>6, <2>1, <2>2
<1> HIDE DEF S
<1>7. \A k \in 0 .. n : k \in S
  BY <1>5, <1>6, UpTo
<1>8. n \in 0 .. n /\ n \in 0 .. n + 1 /\ n < n + 1
  OBVIOUS
<1>9. f[n] = g[n] /\ f[n + 1] = f[n] + s[n + 1]
  BY <1>4, <1>7, <1>8 DEF S
<1> QED
  BY <1>1, <1>2, <1>3, <1>9

\* The bytes left to each call, and the work left.
Lefts(fs) == [i \in DOMAIN fs |-> Len(fs[i].dAtA) - fs[i].iNdEx]
Work(fs) == 2 * Total(Lefts(fs)) + Len(fs)

LEMMA LeftsAre ==
    ASSUME NEW fs, FramesOk(fs)
    PROVE  /\ Lefts(fs) \in Seq(Nat) /\ Len(Lefts(fs)) = Len(fs) /\ Len(fs) \in Nat
           /\ \A i \in 1 .. Len(fs) : Lefts(fs)[i] = Len(fs[i].dAtA) - fs[i].iNdEx
<1>1. DOMAIN fs = 1 .. Len(fs) /\ Len(fs) \in Nat
  BY DEF FramesOk
<1>2. ASSUME NEW i \in 1 .. Len(fs) PROVE Len(fs[i].dAtA) - fs[i].iNdEx \in Nat
  <2>1. FrameOk(fs[i])
    BY DEF FramesOk
  <2>2. Len(fs[i].dAtA) \in Nat /\ fs[i].iNdEx \in Nat /\ fs[i].iNdEx <= Len(fs[i].dAtA)
    BY <2>1 DEF FrameOk, Buffer
  <2> QED
    BY <2>2
<1>3. Lefts(fs) = [i \in 1 .. Len(fs) |-> Len(fs[i].dAtA) - fs[i].iNdEx]
  BY <1>1 DEF Lefts
<1> QED
  BY <1>1, <1>2, <1>3

\* The work of a call on top of others.
LEMMA WorkOnTop ==
    ASSUME NEW fs, FramesOk(fs), NEW gs, FramesOk(gs), Len(gs) = Len(fs) + 1,
           \A i \in 1 .. Len(fs) : /\ Len(gs[i].dAtA) = Len(fs[i].dAtA)
                                   /\ gs[i].iNdEx = fs[i].iNdEx
    PROVE  /\ Total(Lefts(fs)) \in Nat
           /\ Work(gs) = Work(fs) + 1
                + 2 * (Len(gs[Len(gs)].dAtA) - gs[Len(gs)].iNdEx)
<1>1. PICK n \in Nat : n = Len(fs) /\ Len(gs) = n + 1
  BY LeftsAre
<1>2. PICK s \in Seq(Nat) : /\ s = Lefts(fs) /\ Len(s) = n
                            /\ \A i \in 1 .. n : s[i] = Len(fs[i].dAtA) - fs[i].iNdEx
  BY <1>1, LeftsAre
<1>3. PICK t \in Seq(Nat) : /\ t = Lefts(gs) /\ Len(t) = n + 1
                            /\ \A i \in 1 .. n + 1 : t[i] = Len(gs[i].dAtA) - gs[i].iNdEx
  BY <1>1, LeftsAre
<1>4. \A i \in 1 .. n : i \in 1 .. n + 1 /\ t[i] = s[i]
  BY <1>1, <1>2, <1>3
<1>5. Total(t) = Total(s) + t[n + 1] /\ Total(s) \in Nat
  BY <1>2, <1>3, <1>4, TotalLast, TotalNat
<1>6. n + 1 \in 1 .. n + 1 /\ t[n + 1] \in Nat
  BY <1>3
<1>7. t[n + 1] = Len(gs[n + 1].dAtA) - gs[n + 1].iNdEx
  BY <1>3, <1>6
<1>8. PICK a \in Nat, b \in Nat : a = Total(s) /\ b = t[n + 1] /\ Total(t) = a + b
  BY <1>5, <1>6
<1>9. Work(fs) = 2 * a + n /\ Work(gs) = 2 * (a + b) + (n + 1)
  BY <1>1, <1>2, <1>3, <1>8, Zenon DEF Work
<1>10. Work(gs) = Work(fs) + 1 + 2 * b
  BY <1>9
<1> QED
  BY <1>1, <1>2, <1>7, <1>8, <1>10

\* The work when only the innermost call changes.
LEMMA WorkBelow ==
    ASSUME NEW fs, FramesOk(fs), fs # <<>>
    PROVE  \E b \in Nat : \A gs :
             (/\ FramesOk(gs) /\ Len(gs) = Len(fs)
              /\ \A i \in 1 .. Len(fs) : i # Len(fs) => gs[i] = fs[i])
             => Total(Lefts(gs)) = b + (Len(gs[Len(fs)].dAtA) - gs[Len(fs)].iNdEx)
<1>1. PICK n \in Nat : Len(fs) = n + 1
  <2>1. Len(fs) \in Nat /\ Len(fs) >= 1
    BY DEF FramesOk
  <2> QED
    BY <2>1
<1>2. PICK s \in Seq(Nat) : /\ s = Lefts(fs) /\ Len(s) = n + 1
                            /\ \A i \in 1 .. n + 1 : s[i] = Len(fs[i].dAtA) - fs[i].iNdEx
  BY <1>1, LeftsAre
<1>3. PICK u \in Seq(Nat) : Len(u) = n /\ \A i \in 1 .. n : u[i] = s[i]
  <2>1. [i \in 1 .. n |-> s[i]] \in Seq(Nat) /\ Len([i \in 1 .. n |-> s[i]]) = n
    BY <1>2
  <2> QED
    BY <2>1
<1>4. Total(u) \in Nat
  BY <1>3, TotalNat
<1> SUFFICES ASSUME NEW gs, FramesOk(gs), Len(gs) = n + 1,
                    \A i \in 1 .. n + 1 : i # n + 1 => gs[i] = fs[i]
             PROVE  Total(Lefts(gs)) = Total(u) + (Len(gs[n + 1].dAtA) - gs[n + 1].iNdEx)
  BY <1>1, <1>4
<1>5. PICK t \in Seq(Nat) : /\ t = Lefts(gs) /\ Len(t) = n + 1
                            /\ \A i \in 1 .. n + 1 : t[i] = Len(gs[i].dAtA) - gs[i].iNdEx
  BY LeftsAre
<1>6. ASSUME NEW i \in 1 .. n PROVE t[i] = u[i]
  <2>1. i \in 1 .. n + 1 /\ i # n + 1
    OBVIOUS
  <2> QED
    BY <1>2, <1>3, <1>5, <2>1, ZenonT(60)
<1>7. Total(t) = Total(u) + t[n + 1]
  BY <1>3, <1>5, <1>6, TotalLast
<1>8. n + 1 \in 1 .. n + 1
  OBVIOUS
<1> QED
  BY <1>5, <1>7, <1>8

LEMMA PutLast ==
    ASSUME NEW fs, FramesOk(fs), fs # <<>>, NEW fr
    PROVE  /\ Len(Put(fs, Len(fs), fr)) = Len(fs) /\ Put(fs, Len(fs), fr)[Len(fs)] = fr
           /\ \A i \in 1 .. Len(fs) : i # Len(fs) => Put(fs, Len(fs), fr)[i] = fs[i]
           /\ Put(fs, Len(fs), fr) # <<>>
<1>1. PICK n \in Nat : n = Len(fs) /\ n >= 1 /\ fs \in Seq(Range(fs))
  BY DEF FramesOk
<1>2. PICK gs : gs = Put(fs, n, fr)
  OBVIOUS
<1>3. PICK S : fs \in Seq(S) /\ fr \in S
  <2>1. fs \in Seq(Range(fs) \cup {fr}) /\ fr \in Range(fs) \cup {fr}
    BY <1>1
  <2> QED
    BY <2>1
<1>4. gs \in Seq(S) /\ Len(gs) = n /\ gs[n] = fr /\ \A i \in 1 .. n : i # n => gs[i] = fs[i]
  BY <1>1, <1>2, <1>3 DEF Put
<1>5. gs # <<>>
  BY <1>1, <1>4
<1> QED
  BY <1>1, <1>2, <1>4, <1>5

LEMMA WorkIs ==
    ASSUME NEW fs, FramesOk(fs), NEW b \in Nat, NEW c \in Int,
           Total(Lefts(fs)) = b + c
    PROVE  Work(fs) = 2 * b + 2 * c + Len(fs)
<1>1. Len(fs) \in Nat
  BY LeftsAre
<1> QED
  BY <1>1 DEF Work

LEMMA OkBounds ==
    ASSUME NEW fr, FrameOk(fr)
    PROVE  fr.iNdEx \in Nat /\ Len(fr.dAtA) \in Nat /\ fr.iNdEx <= Len(fr.dAtA)
BY DEF FrameOk, Buffer

LEMMA LessLeft ==
    ASSUME NEW b \in Nat, NEW k \in Nat, NEW i \in Nat, NEW j \in Nat, NEW n \in Nat,
           NEW c \in Nat, i + c < j
    PROVE  /\ 2 * b + 2 * (k - j) + n < 2 * b + 2 * (k - i) + n
           /\ 2 * b + 2 * (k - j) + n + 1 + 2 * c < 2 * b + 2 * (k - i) + n
OBVIOUS

LEMMA MovesLess == ASSUME FramesOk(frames), Moves PROVE Work(frames') < Work(frames)
<1>1. PICK fr : /\ frames # <<>> /\ FrameOk(fr)
                /\ fr.dAtA = Top.dAtA /\ Top.iNdEx < fr.iNdEx
                /\ frames' = Put(frames, Len(frames), fr)
  BY DEF Moves
<1>2. Len(frames) \in Nat /\ Top = frames[Len(frames)] /\ FrameOk(Top)
  BY <1>1, TopIs
<1>3. PICK fs, gs, n : fs = frames /\ gs = Put(frames, Len(frames), fr) /\ n = Len(frames)
  OBVIOUS
<1>4. FramesOk(gs) /\ FramesOk(fs) /\ fs # <<>> /\ n = Len(fs)
  BY <1>1, <1>3, MovesKeeps
<1>5. /\ Len(gs) = n /\ gs[n] = fr /\ \A i \in 1 .. n : i # n => gs[i] = fs[i]
  BY <1>3, <1>4, PutLast
<1>6. PICK b \in Nat : \A hs :
             (/\ FramesOk(hs) /\ Len(hs) = n
              /\ \A i \in 1 .. n : i # n => hs[i] = fs[i])
             => Total(Lefts(hs)) = b + (Len(hs[n].dAtA) - hs[n].iNdEx)
  BY <1>4, WorkBelow
<1>7. PICK k \in Nat, i \in Nat, j \in Nat :
        /\ k = Len(Top.dAtA) /\ i = Top.iNdEx /\ j = fr.iNdEx /\ i < j
        /\ Len(fr.dAtA) = k
  BY <1>1, <1>2, OkBounds
<1>8. Total(Lefts(fs)) = b + (k - i) /\ Total(Lefts(gs)) = b + (k - j)
  BY <1>2, <1>3, <1>4, <1>5, <1>6, <1>7
<1>10. n \in Nat /\ k - i \in Int /\ k - j \in Int
  BY <1>2, <1>3
<1>9. Work(fs) = 2 * b + 2 * (k - i) + n /\ Work(gs) = 2 * b + 2 * (k - j) + n
  <2>1. PICK p \in Int, q \in Int : p = k - i /\ q = k - j
    BY <1>10
  <2>2. Work(fs) = 2 * b + 2 * p + Len(fs) /\ Work(gs) = 2 * b + 2 * q + Len(gs)
    BY <1>4, <1>8, <2>1, WorkIs
  <2> QED
    BY <1>4, <1>5, <2>1, <2>2
<1>11. Work(gs) < Work(fs)
  <2>1. 2 * b + 2 * (k - j) + n < 2 * b + 2 * (k - i) + n
    <3>1. 0 \in Nat /\ i + 0 < j
      BY <1>7
    <3> QED
      BY <1>10, <3>1, LessLeft
  <2> QED
    BY <1>9, <2>1
<1> QED
  BY <1>1, <1>3, <1>11

LEMMA CallsLess == ASSUME FramesOk(frames), Calls PROVE Work(frames') < Work(frames)
<1>1. PICK fr, callee :
           /\ frames # <<>> /\ FrameOk(fr) /\ FrameOk(callee)
           /\ fr.dAtA = Top.dAtA /\ callee.iNdEx = 0
           /\ Nested(fr, callee) /\ Top.iNdEx + Len(callee.dAtA) < fr.iNdEx
           /\ frames' = Append(Put(frames, Len(frames), fr), callee)
  BY DEF Calls
<1>2. Len(frames) \in Nat /\ Top = frames[Len(frames)] /\ FrameOk(Top)
  BY <1>1, TopIs
<1>3. PICK fs, gs, hs, n : /\ fs = frames /\ gs = Put(frames, Len(frames), fr)
                           /\ hs = Append(gs, callee) /\ n = Len(frames)
  OBVIOUS
<1>4. FramesOk(hs) /\ FramesOk(gs) /\ FramesOk(fs) /\ fs # <<>> /\ n = Len(fs)
  <2>1. FramesOk(gs)
    BY <1>1, <1>2, <1>3, ReplaceLast DEF Put
  <2> QED
    BY <1>1, <1>3, <2>1, CallsKeeps
<1>5. /\ Len(gs) = n /\ gs[n] = fr /\ \A i \in 1 .. n : i # n => gs[i] = fs[i]
  BY <1>3, <1>4, PutLast
<1>6. PICK b \in Nat : \A xs :
             (/\ FramesOk(xs) /\ Len(xs) = n
              /\ \A i \in 1 .. n : i # n => xs[i] = fs[i])
             => Total(Lefts(xs)) = b + (Len(xs[n].dAtA) - xs[n].iNdEx)
  BY <1>4, WorkBelow
<1>7. PICK k \in Nat, i \in Nat, j \in Nat, c \in Nat :
        /\ k = Len(Top.dAtA) /\ i = Top.iNdEx /\ j = fr.iNdEx /\ c = Len(callee.dAtA)
        /\ i + c < j /\ Len(fr.dAtA) = k
  BY <1>1, <1>2, OkBounds
<1>8. Total(Lefts(fs)) = b + (k - i) /\ Total(Lefts(gs)) = b + (k - j)
  BY <1>2, <1>3, <1>4, <1>5, <1>6, <1>7
<1>10. n \in Nat /\ k - i \in Int /\ k - j \in Int
  BY <1>2, <1>3
<1>9. Work(fs) = 2 * b + 2 * (k - i) + n /\ Work(gs) = 2 * b + 2 * (k - j) + n
  <2>1. PICK p \in Int, q \in Int : p = k - i /\ q = k - j
    BY <1>10
  <2>2. Work(fs) = 2 * b + 2 * p + Len(fs) /\ Work(gs) = 2 * b + 2 * q + Len(gs)
    BY <1>4, <1>8, <2>1, WorkIs
  <2> QED
    BY <1>4, <1>5, <2>1, <2>2
<1>11. Len(hs) = n + 1 /\ hs[n + 1] = callee /\ \A l \in 1 .. n : hs[l] = gs[l]
  <2>1. gs \in Seq(Range(gs))
    BY <1>4 DEF FramesOk
  <2> QED
    BY <1>3, <1>5, <1>10, <2>1
<1>12. Work(hs) = Work(gs) + 1 + 2 * (Len(callee.dAtA) - callee.iNdEx)
  BY <1>4, <1>5, <1>11, WorkOnTop, SMTT(40)
<1>13. Work(hs) = Work(gs) + 1 + 2 * c
  BY <1>1, <1>7, <1>12
<1>14. Work(hs) < Work(fs)
  <2>1. 2 * b + 2 * (k - j) + n + 1 + 2 * c < 2 * b + 2 * (k - i) + n
    BY <1>7, <1>10, LessLeft
  <2> QED
    BY <1>9, <1>13, <2>1
<1> QED
  BY <1>1, <1>3, <1>14

LEMMA PopsLess == ASSUME FramesOk(frames), Pops PROVE Work(frames') < Work(frames)
<1>1. PICK fr, n : /\ n = Len(frames) - 1 /\ n >= 1 /\ FrameOk(fr)
                   /\ fr.dAtA = frames[n].dAtA /\ fr.iNdEx = frames[n].iNdEx
                   /\ Top.iNdEx = Len(Top.dAtA)
                   /\ frames' = Put(SubSeq(frames, 1, n), n, fr)
  BY DEF Pops
<1>2. Len(frames) \in Nat /\ n \in Nat /\ Len(frames) > 1 /\ Len(frames) = n + 1
      /\ frames # <<>>
  BY <1>1 DEF FramesOk
<1>3. PICK fs, gs, hs : /\ fs = frames /\ gs = SubSeq(frames, 1, n) /\ hs = Put(gs, n, fr)
  OBVIOUS
<1>4. FramesOk(gs) /\ gs # <<>> /\ Len(gs) = n /\ \A i \in 1 .. n : gs[i] = fs[i]
  BY <1>1, <1>2, <1>3, PopFrame
<1>5. FramesOk(hs) /\ FramesOk(fs) /\ Len(fs) = n + 1
  BY <1>1, <1>2, <1>3, PopsKeeps
<1>6. Len(hs) = n /\ hs[n] = fr /\ \A i \in 1 .. n : i # n => hs[i] = gs[i]
  <2>1. hs = Put(gs, Len(gs), fr)
    BY <1>3, <1>4
  <2>2. /\ Len(Put(gs, Len(gs), fr)) = Len(gs) /\ Put(gs, Len(gs), fr)[Len(gs)] = fr
        /\ \A i \in 1 .. Len(gs) : i # Len(gs) => Put(gs, Len(gs), fr)[i] = gs[i]
    BY <1>4, PutLast
  <2> QED
    BY <1>4, <2>1, <2>2
<1>7. \A i \in 1 .. n : Len(fs[i].dAtA) = Len(hs[i].dAtA) /\ fs[i].iNdEx = hs[i].iNdEx
  BY <1>1, <1>3, <1>4, <1>6
<1>8. /\ Total(Lefts(hs)) \in Nat
      /\ Work(fs) = Work(hs) + 1 + 2 * (Len(fs[Len(fs)].dAtA) - fs[Len(fs)].iNdEx)
  BY <1>5, <1>6, <1>7, WorkOnTop
<1>9. fs[Len(fs)] = Top /\ Len(Top.dAtA) \in Nat
  BY <1>2, <1>3, TopIs, OkBounds
<1>10. Work(fs) = Work(hs) + 1
  <2>1. Len(Top.dAtA) - Top.iNdEx = 0
    BY <1>1, <1>9
  <2>2. Work(hs) \in Nat
    BY <1>2, <1>6, <1>8 DEF Work
  <2> QED
    BY <1>8, <1>9, <2>1, <2>2
<1>11. Work(hs) \in Nat
  BY <1>2, <1>6, <1>8 DEF Work
<1> QED
  BY <1>1, <1>3, <1>10, <1>11

LEMMA QuitsLess == ASSUME FramesOk(frames), Quits PROVE Work(frames') < Work(frames)
<1>1. frames # <<>> /\ frames' = <<>>
  BY DEF Quits
<1>2. Work(<<>>) = 0
  <2>1. Lefts(<<>>) = <<>> /\ Len(<<>>) = 0
    BY DEF Lefts
  <2> QED
    BY <2>1, TotalEmpty DEF Work
<1>3. Total(Lefts(frames)) \in Nat
  BY LeftsAre, TotalNat
<1>4. Len(frames) \in Nat /\ Len(frames) >= 1
  BY <1>1, TopIs
<1>5. Work(frames) > 0
  BY <1>3, <1>4 DEF Work
<1> QED
  BY <1>1, <1>2, <1>5

\* Every call of Unmarshal ends, whatever its bytes are: a step other than
\* stuttering leaves fewer bytes to read, or as many and a call less that has
\* to return; no field is skipped, no length accepted, that takes no byte.
THEOREM WorkRunsOut == Spec => AlwaysProgresses
<1>1. IndInv /\ [Next]_vars => [WorkLeft' < WorkLeft]_vars
  <2> SUFFICES ASSUME FramesOk(frames), [Next]_vars PROVE WorkLeft' < WorkLeft \/ UNCHANGED vars
    BY DEF IndInv
  <2>1. WorkLeft = Work(frames) /\ WorkLeft' = Work(frames')
    BY DEF WorkLeft, BytesLeft, Work, Lefts
  <2> QED
    BY <2>1, StepForms, MovesLess, CallsLess, PopsLess, QuitsLess
<1> QED
  BY <1>1, Framed, PTL DEF Spec, AlwaysProgresses

-----------------------------------------------------------------------------
(***************************************************************************)
(* Writing a varint, and reading it again.                                 *)
(***************************************************************************)
\* math_bits.Len64: the least n with x below 2^n.
LEMMA BitLenIs ==
    ASSUME NEW x \in 0 .. Two[WordBits] - 1
    PROVE  \E n \in 0 .. WordBits : /\ BitLen(x) = n /\ x < Two[n]
                                    /\ \A k \in 0 .. WordBits : x < Two[k] => n <= k
<1> DEFINE S == {n \in 0 .. WordBits : x < Two[n]}
<1>1. WordBits \in S
  <2>1. WordBits \in 0 .. WordBits /\ Two[WordBits] \in Nat
    BY TwoNat, WidthsAssumption
  <2> QED
    BY <2>1
<1>2. S \subseteq Nat /\ S # {}
  BY <1>1, WidthsAssumption
<1>3. BitLen(x) = CHOOSE m \in S : \A k \in S : m <= k
  BY DEF BitLen, Min
<1>4. \E m \in S : \A k \in S : m <= k
  BY <1>2, Least
<1> HIDE DEF S
<1>5. BitLen(x) \in S /\ \A k \in S : BitLen(x) <= k
  BY <1>3, <1>4
<1> QED
  BY <1>5 DEF S

LEMMA TwoOfSeven == Two[7] = 128 /\ Two[0] = 1 /\ 7 < WordBits /\ 7 < IntBits
<1>1. 8 < WordBits /\ WordBits \in Nat
  BY WidthsAssumption
<1>2. Two[0] = 1 /\ \A n \in 0 .. WordBits : n # 0 => Two[n] = 2 * Two[n - 1]
  BY <1>1, TwoUnfolds
<1>3. \A n \in {1, 2, 3, 4, 5, 6, 7} : n \in 0 .. WordBits /\ n # 0
  BY <1>1
<1>4. Two[1] = 2
  BY <1>2, <1>3
<1>5. Two[2] = 4
  BY <1>2, <1>3, <1>4
<1>6. Two[3] = 8
  BY <1>2, <1>3, <1>5
<1>7. Two[4] = 16
  BY <1>2, <1>3, <1>6
<1>8. Two[5] = 32
  BY <1>2, <1>3, <1>7
<1>9. Two[6] = 64
  BY <1>2, <1>3, <1>8
<1>10. Two[7] = 128
  BY <1>2, <1>3, <1>9
<1> QED
  BY <1>2, <1>10, WidthsAssumption

\* A quotient is below c when the number is below the product.
LEMMA Quotient ==
    ASSUME NEW v \in Nat, NEW d \in Nat, NEW c \in Nat, d > 0
    PROVE  /\ v < d * c => v \div d < c
           /\ v >= d * c => v \div d >= c
<1>1. PICK q \in Nat, r \in 0 .. d - 1 : q = v \div d /\ v = d * q + r
  BY Division
<1>2. ASSUME q >= c PROVE v >= d * c
  <2>1. PICK e \in Nat : q = c + e
    BY <1>2
  <2>2. d * q = d * c + d * e /\ d * e \in Nat /\ d * c \in Nat
    BY <2>1
  <2> QED
    BY <1>1, <2>2
<1>3. ASSUME q < c PROVE v < d * c
  <2>1. PICK e \in Nat : c = q + 1 + e
    BY <1>3
  <2>2. d * c = d * q + d + d * e /\ d * e \in Nat /\ d * q \in Nat
    BY <2>1
  <2> QED
    BY <1>1, <2>2
<1>4. d * c \in Nat
  OBVIOUS
<1> QED
  BY <1>1, <1>2, <1>3, <1>4

\* What is left of v after k rounds of the loop.
Left(v, k) == v \div Two[7 * k]

Rounds(v) == {k \in 0 .. (WordBits \div 7) : Left(v, k) < 128}

\* The loop ends after as many rounds as sov counts bytes, but one.
LEMMA RoundsAre ==
    ASSUME NEW v \in 0 .. Two[WordBits] - 1
    PROVE  /\ sov(v) \in Nat /\ sov(v) >= 1 /\ 7 * (sov(v) - 1) < WordBits
           /\ sov(v) - 1 \in Rounds(v) /\ \A k \in Rounds(v) : sov(v) - 1 <= k
<1>1. PICK x \in 0 .. Two[WordBits] - 1 : /\ x = (IF v = 0 THEN 1 ELSE v) /\ x >= 1
                                          /\ v <= x
  <2>1. Two[WordBits] \in Nat /\ Two[WordBits] >= Two[7]
    BY TwoGrows, TwoNat, TwoOfSeven, WidthsAssumption
  <2>2. 1 \in 0 .. Two[WordBits] - 1
    BY <2>1, TwoOfSeven
  <2> QED
    BY <2>1, <2>2
<1>2. PICK n \in 0 .. WordBits : /\ BitLen(x) = n /\ x < Two[n]
                                 /\ \A k \in 0 .. WordBits : x < Two[k] => n <= k
  BY BitLenIs
<1>3. n >= 1
  BY <1>1, <1>2, TwoOfSeven
<1>4. sov(v) = (n + 6) \div 7
  BY <1>1, <1>2 DEF sov
<1>w. WordBits \in Nat
  BY WidthsAssumption
<1>5. PICK c \in Nat : /\ c = sov(v) /\ c >= 1 /\ n <= 7 * c /\ 7 * (c - 1) < n
                       /\ 7 * (c - 1) < WordBits /\ c - 1 \in Nat
  BY <1>3, <1>4, <1>w
<1>6. c - 1 \in Rounds(v)
  <2>1. 7 * (c - 1) \in 0 .. WordBits /\ n - 7 * (c - 1) \in 0 .. 7
        /\ 7 * (c - 1) + (n - 7 * (c - 1)) = n
    BY <1>5, <1>w
  <2>2. PICK d \in Nat, e \in Nat : /\ d = Two[7 * (c - 1)] /\ e = Two[n - 7 * (c - 1)]
                                    /\ d > 0
    <3>1. n - 7 * (c - 1) \in 0 .. WordBits
      BY <1>w, <2>1, TwoOfSeven
    <3> QED
      BY <2>1, <3>1, TwoNat
  <2>3. Two[n] = d * e
    BY <1>w, <2>1, <2>2, TwoSums
  <2>4. e <= 128
    BY <2>1, <2>2, TwoGrows, TwoOfSeven, <1>w
  <2>5. v < d * e /\ v \in Nat
    <3>1. Two[n] \in Nat
      BY TwoNat
    <3> QED
      BY <1>1, <1>2, <2>3, <3>1
  <2>6. v \div d < e /\ v \div d \in Nat
    BY <2>2, <2>5, Quotient, Division
  <2>7. c - 1 \in 0 .. (WordBits \div 7)
    BY <1>5, <1>w
  <2> QED
    BY <2>2, <2>4, <2>6, <2>7 DEF Rounds, Left
<1>7. ASSUME NEW k \in Rounds(v), ~ (c - 1 <= k) PROVE FALSE
  <2>1. k \in Nat /\ 7 * k + 7 < n /\ 7 * k + 7 \in 0 .. WordBits /\ 7 * k \in 0 .. WordBits
        /\ Left(v, k) < 128
    <3>1. k \in 0 .. (WordBits \div 7) /\ Left(v, k) < 128
      BY DEF Rounds
    <3>2. k \in Nat /\ k + 1 <= c - 1
      BY <1>5, <1>7, <1>w, <3>1
    <3> QED
      BY <1>5, <1>w, <3>1, <3>2
  <2>2. ~ (x < Two[7 * k + 7])
    BY <1>2, <2>1
  <2>3. PICK d \in Nat : d = Two[7 * k] /\ d > 0 /\ Two[7 * k + 7] = d * 128
    <3>1. Two[7 * k + 7] = Two[7 * k] * Two[7]
      BY <1>w, <2>1, TwoSums
    <3> QED
      BY <2>1, <3>1, TwoNat, TwoOfSeven
  <2>4. v \in Nat /\ v >= d * 128
    <3>1. Two[7 * k + 7] \in Nat
      BY <2>1, TwoNat
    <3>2. x >= Two[7 * k + 7] /\ d * 128 >= 128
      BY <2>2, <2>3, <3>1
    <3> QED
      BY <1>1, <2>3, <3>2
  <2>5. v \div d >= 128 /\ v \div d \in Nat
    BY <2>3, <2>4, Quotient, Division
  <2> QED
    BY <2>1, <2>3, <2>5 DEF Left
<1> QED
  BY <1>5, <1>6, <1>7

\* What the loop writes.
LEMMA EncodeIs ==
    ASSUME NEW v \in 0 .. Two[WordBits] - 1
    PROVE  \E n \in Nat :
             /\ n = sov(v) /\ n >= 1 /\ n <= WordBits /\ 7 * (n - 1) < WordBits
             /\ encodeVarint(v) \in Seq(Byte) /\ Len(encodeVarint(v)) = n
             /\ \A k \in 1 .. n : k < n => encodeVarint(v)[k] = (Left(v, k - 1) % 128) + 128
             /\ encodeVarint(v)[n] = Left(v, n - 1) /\ Left(v, n - 1) < 128
             /\ \A k \in 1 .. n : Left(v, k - 1) \in Nat
<1>w. WordBits \in Nat
  BY WidthsAssumption
<1>1. PICK r \in Nat : /\ sov(v) = r + 1 /\ 7 * r < WordBits
                       /\ r \in Rounds(v) /\ \A k \in Rounds(v) : r <= k
  <2>1. /\ sov(v) \in Nat /\ sov(v) >= 1 /\ 7 * (sov(v) - 1) < WordBits
        /\ sov(v) - 1 \in Rounds(v) /\ \A k \in Rounds(v) : sov(v) - 1 <= k
    BY RoundsAre
  <2>2. sov(v) - 1 \in Nat /\ sov(v) = (sov(v) - 1) + 1
    BY <2>1
  <2> QED
    BY <2>1, <2>2
<1>2. Min(Rounds(v)) = r
  <2>1. Min(Rounds(v)) \in Rounds(v) /\ \A k \in Rounds(v) : Min(Rounds(v)) <= k
    BY <1>1 DEF Min
  <2>2. Min(Rounds(v)) \in Nat
    <3>1. Rounds(v) \subseteq Nat
      BY <1>w DEF Rounds
    <3> QED
      BY <2>1, <3>1
  <2> QED
    BY <1>1, <2>1, <2>2
<1>3. encodeVarint(v) = [k \in 1 .. r + 1 |->
           IF k <= r THEN (Left(v, k - 1) % 128) + 128 ELSE Left(v, r)]
  BY <1>2, Zenon DEF encodeVarint, Left, Rounds
<1>4. \A k \in 1 .. r + 1 : Left(v, k - 1) \in Nat
  <2> SUFFICES ASSUME NEW k \in 1 .. r + 1 PROVE v \div Two[7 * (k - 1)] \in Nat
    BY DEF Left
  <2>1. 7 * (k - 1) \in 0 .. WordBits /\ v \in Nat
    BY <1>1, <1>w
  <2>2. PICK d \in Nat : d = Two[7 * (k - 1)] /\ d > 0
    BY <2>1, TwoNat
  <2> QED
    BY <2>1, <2>2, Division
<1>5. Left(v, r) < 128 /\ Left(v, r) \in Nat
  <2>1. r + 1 \in 1 .. r + 1 /\ (r + 1) - 1 = r
    OBVIOUS
  <2> QED
    BY <1>1, <1>4, <2>1 DEF Rounds
<1>6. ASSUME NEW k \in 1 .. r + 1
      PROVE  (IF k <= r THEN (Left(v, k - 1) % 128) + 128 ELSE Left(v, r)) \in Byte
  <2>1. Left(v, k - 1) % 128 \in 0 .. 127
    BY <1>4
  <2> QED
    BY <1>5, <2>1 DEF Byte
<1>7. encodeVarint(v) \in Seq(Byte) /\ Len(encodeVarint(v)) = r + 1
  BY <1>3, <1>6
<1>8. \A k \in 1 .. r + 1 :
         encodeVarint(v)[k] = IF k <= r THEN (Left(v, k - 1) % 128) + 128 ELSE Left(v, r)
  BY <1>3
<1>9. PICK n \in Nat : n = r + 1 /\ n - 1 = r /\ n \in 1 .. n
  OBVIOUS
<1>10. n >= 1 /\ n <= WordBits /\ 7 * (n - 1) < WordBits /\ ~ (n <= r)
  BY <1>1, <1>9, <1>w
<1>11. \A k \in 1 .. n : k < n => k <= r
  BY <1>9
<1>12. encodeVarint(v)[n] = Left(v, n - 1)
  BY <1>8, <1>9, <1>10
<1>13. \A k \in 1 .. n : k < n => encodeVarint(v)[k] = (Left(v, k - 1) % 128) + 128
  BY <1>8, <1>9, <1>11
<1> QED
  BY <1>1, <1>4, <1>5, <1>7, <1>9, <1>10, <1>12, <1>13

\* Seven more bits are gone.
LEMMA LeftNext ==
    ASSUME NEW v \in Nat, NEW k \in Nat, 7 * (k + 1) <= WordBits
    PROVE  Left(v, k) = 128 * Left(v, k + 1) + (Left(v, k) % 128)
<1>w. WordBits \in Nat
  BY WidthsAssumption
<1>1. 7 * (k + 1) = 7 * k + 7 /\ 7 * k \in 0 .. WordBits /\ 7 * k + 7 <= WordBits
      /\ 7 * k \in Nat
  BY <1>w
<1>2. PICK d \in Nat : d = Two[7 * k] /\ d > 0 /\ Two[7 * (k + 1)] = d * 128
  <2>1. Two[7 * k + 7] = Two[7 * k] * Two[7]
    BY <1>1, <1>w, TwoSums
  <2> QED
    BY <1>1, <2>1, TwoNat, TwoOfSeven
<1>3. PICK q \in Nat, r \in 0 .. d - 1 : q = v \div d /\ v = d * q + r
  <2>1. v \in Int /\ d \in Nat /\ d > 0
    BY <1>2
  <2>2. v \div d \in Nat /\ v % d \in 0 .. d - 1 /\ v = d * (v \div d) + (v % d)
    BY <2>1, Division, SMTT(40)
  <2> QED
    BY <2>2
<1>4. PICK p \in Nat, t \in 0 .. 127 : q = 128 * p + t /\ t = q % 128
  BY <1>3, Division
<1>5. v = (d * 128) * p + (d * t + r)
  <2>1. d * q = (d * 128) * p + d * t
    BY <1>4
  <2>2. (d * 128) * p \in Nat /\ d * t \in Nat
    BY <1>4
  <2> QED
    BY <1>3, <2>1, <2>2
<1>6. d * t + r \in 0 .. d * 128 - 1
  <2>1. PICK u \in Nat : 127 = t + u
    BY <1>4
  <2>2. d * 127 = d * t + d * u /\ d * u \in Nat /\ d * t \in Nat /\ d * 128 = d * 127 + d
    BY <2>1
  <2> QED
    BY <1>3, <2>2
<1>7. v \div (d * 128) = p
  <2>1. PICK e \in Nat : e = d * 128 /\ e > 0
    BY <1>2
  <2>2. PICK x \in 0 .. e - 1 : x = d * t + r
    BY <1>6, <2>1
  <2>3. v = e * p + x
    BY <1>5, <2>1, <2>2
  <2> QED
    BY <2>1, <2>3, DivisionUnique
<1> QED
  BY <1>2, <1>3, <1>4, <1>7 DEF Left

\* A varint is read as it was written.
LEMMA EncodeReads ==
    ASSUME NEW v \in 0 .. Two[WordBits] - 1
    PROVE  Reads(encodeVarint(v), 0, v, sov(v))
<1>w. WordBits \in Nat /\ Two[WordBits] \in Nat
  BY TwoNat, WidthsAssumption
<1>1. PICK n \in Nat, s \in Seq(Byte) :
             /\ n = sov(v) /\ n >= 1 /\ n <= WordBits /\ 7 * (n - 1) < WordBits
             /\ s = encodeVarint(v) /\ Len(s) = n
             /\ \A k \in 1 .. n : k < n => s[k] = (Left(v, k - 1) % 128) + 128
             /\ s[n] = Left(v, n - 1) /\ Left(v, n - 1) < 128
             /\ \A k \in 1 .. n : Left(v, k - 1) \in Nat
  BY EncodeIs, ZenonT(60)
<1>2. \A k \in 1 .. n : k < n => ~ (s[k] < 128)
  <2> SUFFICES ASSUME NEW k \in 1 .. n, k < n PROVE ~ (s[k] < 128)
    OBVIOUS
  <2>1. PICK a \in Nat : a = Left(v, k - 1)
    BY <1>1
  <2>2. s[k] = (a % 128) + 128
    BY <1>1, <2>1
  <2>3. a % 128 \in 0 .. 127
    OBVIOUS
  <2> QED
    BY <2>2, <2>3
<1>3. n \in Ends(s, 0) /\ \A k \in Ends(s, 0) : n <= k
  <2>1. n \in Ends(s, 0)
    BY <1>1 DEF Ends
  <2>2. ASSUME NEW k \in Ends(s, 0), ~ (n <= k) PROVE FALSE
    <3>1. k \in 1 .. n /\ k < n /\ s[k] < 128
      BY <1>1, <1>w, <2>2 DEF Ends
    <3> QED
      BY <1>2, <3>1
  <2> QED
    BY <2>1, <2>2
<1>4. PICK l, f : Stops(s, 0, l) /\ Accumulates(f, s, 0, l) /\ Reads(s, 0, f[l], 0 + l)
  BY <1>3, ReadVarintStops
<1>5. l = n /\ Readable(s, 0, n)
  <2>1. Readable(s, 0, l) /\ l \in Nat
    BY <1>4, StopsReadable
  <2>2. l <= n /\ n <= l
    BY <1>3, <1>4 DEF Stops
  <2>3. l = n
    BY <2>1, <2>2
  <2> QED
    BY <2>1, <2>3
<1>6. /\ f[0] = 0
      /\ \A k \in 1 .. n :
                f[k] = (f[k - 1] + (s[0 + k] % 128) * Two[7 * (k - 1)]) % Two[WordBits]
  BY <1>4, <1>5, AccumulatesStep
\* What has been read and what is left make up v.
<1> DEFINE S == {k \in 0 .. n - 1 : f[k] \in Nat /\ f[k] + Left(v, k) * Two[7 * k] = v}
<1>7. 0 \in S
  <2>1. Left(v, 0) = v
    <3>1. 7 * 0 = 0 /\ v \in Nat
      BY <1>w
    <3>2. v \div 1 = v
      BY <3>1
    <3> QED
      BY <3>1, <3>2, TwoOfSeven DEF Left
  <2>2. 0 \in 0 .. n - 1 /\ 7 * 0 = 0
    BY <1>1
  <2>3. f[0] \in Nat /\ f[0] + Left(v, 0) * Two[7 * 0] = v
    BY <1>6, <1>w, <2>1, <2>2, TwoOfSeven
  <2> QED
    BY <2>2, <2>3
<1>8. ASSUME NEW k \in 0 .. n - 1, k \in S, k < n - 1 PROVE k + 1 \in S
  <2>1. /\ k + 1 \in 1 .. n /\ k + 1 < n /\ (k + 1) - 1 = k /\ 0 + (k + 1) = k + 1
        /\ 7 * (k + 1) <= WordBits /\ 7 * k \in 0 .. WordBits /\ k + 1 \in 0 .. n - 1
        /\ 7 * (k + 1) \in 0 .. WordBits
    BY <1>1, <1>8, <1>w, SMTT(40)
  <2>2. PICK a \in Nat, b \in Nat, d \in Nat :
          /\ a = Left(v, k) /\ b = Left(v, k + 1) /\ d = Two[7 * k]
    <3>1. Left(v, k) \in Nat
      BY <1>1, <2>1
    <3>2. k + 2 \in 1 .. n /\ (k + 2) - 1 = k + 1
      BY <1>1, <2>1
    <3>3. Left(v, k + 1) \in Nat
      BY <1>1, <3>2
    <3> QED
      BY <2>1, <3>1, <3>3, TwoNat
  <2>3. PICK t \in 0 .. 127 : a = 128 * b + t /\ t = a % 128
    <3>1. Left(v, k) = 128 * Left(v, k + 1) + (Left(v, k) % 128)
      BY <1>w, <2>1, LeftNext
    <3>2. a = 128 * b + (a % 128)
      BY <2>2, <3>1
    <3>3. a % 128 \in 0 .. 127
      OBVIOUS
    <3> QED
      BY <3>2, <3>3
  <2>4. s[k + 1] = t + 128
    BY <1>1, <2>1, <2>2, <2>3, ZenonT(60)
  <2>5. s[k + 1] % 128 = t
    BY <2>3, <2>4
  <2>6. f[k + 1] = (f[k] + t * d) % Two[WordBits]
    <3>1. f[k + 1] = (f[(k + 1) - 1] + (s[0 + (k + 1)] % 128) * Two[7 * ((k + 1) - 1)])
                       % Two[WordBits]
      BY <1>6, <2>1
    <3> QED
      BY <2>1, <2>2, <2>5, <3>1
  <2>7. Two[7 * (k + 1)] = d * 128
    <3>1. 7 * (k + 1) = 7 * k + 7 /\ 7 * k \in Nat
      BY <2>1
    <3>2. Two[7 * k + 7] = Two[7 * k] * Two[7]
      BY <1>w, <2>1, <3>1, TwoSums
    <3> QED
      BY <2>2, <3>1, <3>2, TwoOfSeven
  <2>8. f[k] \in Nat /\ f[k] + a * d = v
    BY <1>8, <2>2
  <2>9. a * d = b * (d * 128) + t * d /\ t * d \in Nat /\ b * (d * 128) \in Nat
    BY <2>3
  <2>10. PICK x \in Nat, y \in Nat, z \in Nat :
           /\ x = f[k] /\ y = t * d /\ z = b * (d * 128) /\ x + (z + y) = v
    BY <2>8, <2>9
  <2>a. x + (z + y) = v
    BY <2>10
  <2>11. x + y \in 0 .. Two[WordBits] - 1
    BY <1>w, <2>a
  <2>13. f[k + 1] = x + y
    BY <1>w, <2>6, <2>10, <2>11, Small
  <2>12. f[k + 1] \in Nat /\ f[k + 1] + b * (d * 128) = v
    BY <2>10, <2>13, SMTT(40)
  <2> QED
    BY <2>1, <2>2, <2>7, <2>12
<1> HIDE DEF S
<1>9. n - 1 \in S
  <2>1. n - 1 \in Nat /\ n - 1 \in 0 .. n - 1
    BY <1>1
  <2>2. \A k \in 0 .. n - 1 : k \in S
    BY <1>7, <1>8, <2>1, UpTo
  <2> QED
    BY <2>1, <2>2
<1>10. f[n] = v
  <2>1. f[n - 1] \in Nat /\ f[n - 1] + Left(v, n - 1) * Two[7 * (n - 1)] = v
    BY <1>9 DEF S
  <2>2. n \in 1 .. n /\ 0 + n = n
    BY <1>1
  <2>3. f[n] = (f[n - 1] + (s[0 + n] % 128) * Two[7 * (n - 1)]) % Two[WordBits]
    BY <1>6, <2>2
  <2>4. s[0 + n] % 128 = Left(v, n - 1)
    <3>1. PICK a \in Nat : a = Left(v, n - 1) /\ a < 128 /\ s[0 + n] = a
      BY <1>1, <2>2
    <3> QED
      BY <3>1
  <2>5. f[n] = v % Two[WordBits]
    BY <2>1, <2>3, <2>4
  <2> QED
    BY <1>w, <2>5, Small
<1> QED
  BY <1>1, <1>4, <1>5, <1>10

-----------------------------------------------------------------------------
(***************************************************************************)
(* Putting sequences together.                                             *)
(***************************************************************************)
\* F[k] puts the first k sequences of ss together.
Joints(F, S, ss) ==
    /\ F[0] = <<>> /\ \A k \in 0 .. Len(ss) : F[k] \in Seq(S)
    /\ \A k \in 0 .. Len(ss) : k < Len(ss) => F[k + 1] = F[k] \o ss[k + 1]

LEMMA JointsExist ==
    ASSUME NEW S, NEW ss \in Seq(Seq(S))
    PROVE  \E F : Joints(F, S, ss)
<1>0. PICK n \in Nat : n = Len(ss)
  OBVIOUS
<1> DEFINE step == [p \in (0 .. n) \X Seq(S) |-> p[2] \o ss[p[1]]]
<1>1. ASSUME NEW k \in 1 .. n, NEW x \in Seq(S)
      PROVE  step[<<k, x>>] = x \o ss[k] /\ step[<<k, x>>] \in Seq(S)
  <2>1. k \in 0 .. n /\ ss[k] \in Seq(S)
    BY <1>0
  <2>2. step[<<k, x>>] = x \o ss[k]
    BY <2>1
  <2>3. x \o ss[k] \in Seq(S)
    BY <2>1
  <2> QED
    BY <2>2, <2>3
<1> HIDE DEF step
<1>2. <<>> \in Seq(S)
  OBVIOUS
<1>3. PICK F : Runs(F, n, <<>>, step) /\ \A k \in 0 .. n : F[k] \in Seq(S)
  BY <1>1, <1>2, RunIn
<1>4. \A k \in 0 .. n : F[k] = IF k = 0 THEN <<>> ELSE step[<<k, F[k - 1]>>]
  BY <1>3 DEF Runs
<1>5. F[0] = <<>>
  <2>1. 0 \in 0 .. n
    OBVIOUS
  <2> QED
    BY <1>4, <2>1
<1>6. ASSUME NEW k \in 0 .. n, k < n PROVE F[k + 1] = F[k] \o ss[k + 1]
  <2>1. k + 1 \in 0 .. n /\ k + 1 \in 1 .. n /\ k + 1 # 0 /\ (k + 1) - 1 = k
    BY <1>6
  <2>2. F[k + 1] = step[<<k + 1, F[k]>>]
    BY <1>4, <2>1
  <2> QED
    BY <1>1, <1>3, <2>1, <2>2
<1> QED
  BY <1>0, <1>3, <1>5, <1>6 DEF Joints

LEMMA FlattenEmpty == FlattenSeq(<<>>) = <<>>
BY DEF FlattenSeq

\* FlattenSeq is defined by recursion; this is what it computes.
LEMMA FlattenIs ==
    ASSUME NEW S, NEW ss \in Seq(Seq(S)), NEW F, Joints(F, S, ss)
    PROVE  FlattenSeq(ss) = F[Len(ss)]
<1>0. PICK n \in Nat : n = Len(ss)
  OBVIOUS
<1>1. CASE n = 0
  <2>1. ss = <<>>
    BY <1>0, <1>1, EmptySeq
  <2> QED
    BY <1>0, <1>1, <2>1, FlattenEmpty DEF Joints
<1>2. CASE n >= 1
  <2> DEFINE Join(x, y) == x \o y
             Step(g) == [i \in 1 .. Len(ss) |->
                           IF i = 1 THEN ss[i] ELSE Join(g[i - 1], ss[i])]
             G == CHOOSE g : g = Step(g)
             H == [i \in 1 .. n |-> F[i]]
  <2>1. FlattenSeq(ss) = G[n]
    BY <1>0, <1>2 DEF FlattenSeq
  <2>2. \A i \in 1 .. n : H[i] = IF i = 1 THEN ss[i] ELSE Join(H[i - 1], ss[i])
    <3> SUFFICES ASSUME NEW i \in 1 .. n
                 PROVE  H[i] = IF i = 1 THEN ss[i] ELSE Join(H[i - 1], ss[i])
      OBVIOUS
    <3>1. /\ i - 1 \in 0 .. n /\ i - 1 < n /\ (i - 1) + 1 = i
          /\ i # 1 => i - 1 \in 1 .. n
      OBVIOUS
    <3>2. F[i] = F[i - 1] \o ss[i]
      <4>1. F[(i - 1) + 1] = F[i - 1] \o ss[(i - 1) + 1]
        BY <1>0, <3>1 DEF Joints
      <4> QED
        BY <3>1, <4>1
    <3>3. i = 1 => F[1] = ss[1]
      <4>1. F[0] = <<>> /\ ss[1] \in Seq(S)
        BY <1>0, <1>2 DEF Joints
      <4>2. <<>> \o ss[1] = ss[1]
        BY <4>1
      <4>3. i = 1 => i - 1 = 0
        OBVIOUS
      <4> QED
        BY <3>2, <4>1, <4>2, <4>3
    <3>4. H[i] = F[i]
      OBVIOUS
    <3>5. i # 1 => H[i - 1] = F[i - 1]
      BY <3>1
    <3> HIDE DEF H
    <3> QED
      BY <3>2, <3>3, <3>4, <3>5
  <2>3. H = [i \in 1 .. n |-> H[i]]
    OBVIOUS
  <2> HIDE DEF H, Join
  <2>4. H = Step(H)
    BY <1>0, <2>2, <2>3
  <2>5. G = Step(G)
    BY <2>4
  <2> HIDE DEF G
  <2>6. \A i \in 1 .. n : G[i] = IF i = 1 THEN ss[i] ELSE Join(G[i - 1], ss[i])
    <3>1. \A i \in 1 .. n : Step(G)[i] = IF i = 1 THEN ss[i] ELSE Join(G[i - 1], ss[i])
      BY <1>0
    <3> HIDE DEF Step
    <3> QED
      BY <2>5, <3>1
  <2> HIDE DEF Step
  <2> DEFINE T == {k \in 0 .. n : k = 0 \/ G[k] = H[k]}
  <2>7. 0 \in T
    OBVIOUS
  <2>8. ASSUME NEW k \in 0 .. n, k \in T, k < n PROVE k + 1 \in T
    <3>1. k + 1 \in 1 .. n /\ (k + 1) - 1 = k /\ (k + 1 = 1 <=> k = 0) /\ k + 1 \in 0 .. n
      BY <2>8
    <3>2. /\ G[k + 1] = IF k + 1 = 1 THEN ss[k + 1] ELSE Join(G[(k + 1) - 1], ss[k + 1])
          /\ H[k + 1] = IF k + 1 = 1 THEN ss[k + 1] ELSE Join(H[(k + 1) - 1], ss[k + 1])
      BY <2>2, <2>6, <3>1
    <3> QED
      BY <2>8, <3>1, <3>2
  <2> HIDE DEF T
  <2>9. n \in T
    <3>1. \A k \in 0 .. n : k \in T
      BY <2>7, <2>8, UpTo
    <3> QED
      BY <3>1
  <2>10. G[n] = H[n]
    BY <1>2, <2>9 DEF T
  <2>11. H[n] = F[n]
    BY <1>2 DEF H
  <2> QED
    BY <1>0, <2>1, <2>10, <2>11
<1> QED
  BY <1>1, <1>2

LEMMA FlattenTyped ==
    ASSUME NEW S, NEW ss \in Seq(Seq(S))
    PROVE  FlattenSeq(ss) \in Seq(S)
<1>1. PICK F : Joints(F, S, ss)
  BY JointsExist
<1>2. Len(ss) \in 0 .. Len(ss)
  OBVIOUS
<1> QED
  BY <1>1, <1>2, FlattenIs DEF Joints

\* As long as its parts together, and no part is longer.
LEMMA FlattenLen ==
    ASSUME NEW S, NEW ss \in Seq(Seq(S)), NEW ls \in Seq(Nat), Len(ls) = Len(ss),
           \A k \in 1 .. Len(ss) : ls[k] = Len(ss[k])
    PROVE  Len(FlattenSeq(ss)) = Total(ls)
<1>0. PICK n \in Nat : n = Len(ss)
  OBVIOUS
<1>1. PICK F : Joints(F, S, ss)
  BY JointsExist
<1>2. PICK f : Sums(f, ls) /\ Total(ls) = f[n]
  BY <1>0, TotalIs
<1>3. /\ f[0] = 0 /\ \A k \in 0 .. n : k < n => f[k + 1] = f[k] + ls[k + 1]
      /\ F[0] = <<>> /\ \A k \in 0 .. n : k < n => F[k + 1] = F[k] \o ss[k + 1]
      /\ \A k \in 0 .. n : F[k] \in Seq(S)
  <2>1. f[0] = 0 /\ \A k \in 0 .. n : k < n => f[k + 1] = f[k] + ls[k + 1]
    BY <1>0, <1>2, SumsStep
  <2> QED
    BY <1>0, <1>1, <2>1 DEF Joints
<1> DEFINE T == {k \in 0 .. n : Len(F[k]) = f[k]}
<1>4. 0 \in T
  <2>1. 0 \in 0 .. n /\ Len(<<>>) = 0
    OBVIOUS
  <2> QED
    BY <1>3, <2>1
<1>5. ASSUME NEW k \in 0 .. n, k \in T, k < n PROVE k + 1 \in T
  <2>1. k + 1 \in 1 .. n /\ k + 1 \in 0 .. n
    BY <1>5
  <2>2. PICK a \in Seq(S), b \in Seq(S) : a = F[k] /\ b = ss[k + 1] /\ F[k + 1] = a \o b
    <3>1. F[k] \in Seq(S) /\ F[k + 1] = F[k] \o ss[k + 1]
      BY <1>3, <1>5
    <3>2. ss[k + 1] \in Seq(S)
      BY <1>0, <2>1
    <3> QED
      BY <3>1, <3>2, Zenon
  <2>3. Len(a \o b) = Len(a) + Len(b)
    OBVIOUS
  <2>4. ls[k + 1] = Len(b) /\ f[k] = Len(a)
    BY <1>0, <1>5, <2>1, <2>2
  <2>5. Len(F[k + 1]) = f[k + 1]
    BY <1>3, <1>5, <2>2, <2>3, <2>4
  <2> QED
    BY <2>1, <2>5
<1> HIDE DEF T
<1>6. n \in T
  <2>1. \A k \in 0 .. n : k \in T
    BY <1>4, <1>5, UpTo
  <2> QED
    BY <2>1
<1> QED
  BY <1>0, <1>1, <1>2, <1>6, FlattenIs DEF T

-----------------------------------------------------------------------------
(***************************************************************************)
(* The methods call themselves: the three levels they are defined by are   *)
(* enough.                                                                 *)
(***************************************************************************)
\* What Marshal writes for a field.
Encode(row, v) ==
    Written(row, v, [j \in DOMAIN Parts(row, v) |-> Marshal(row.type, Parts(row, v)[j])])

\* The rows of a Marshal or Size table that hold messages.
LEMMA WriteRows ==
    ASSUME NEW t \in DOMAIN Message, NEW i
    PROVE  /\ i \in DOMAIN Message[t].Marshal =>
                LET w == Message[t].Marshal[i] IN
                Embeds(w) => /\ ~ Flat(t) /\ w.type \in Held /\ Shallow(w.type)
                             /\ Shallow(t) => Flat(w.type)
           /\ i \in DOMAIN Message[t].Size =>
                LET c == Message[t].Size[i] IN
                Embeds(c) => /\ ~ Flat(t) /\ c.type \in Held /\ Shallow(c.type)
                             /\ Shallow(t) => Flat(c.type)
<1> DEFINE M == Message[t].Marshal
           S == Message[t].Size
           U == Message[t].Unmarshal
<1>1. PICK n \in Nat :
        /\ Len(M) = n /\ Len(S) = n /\ Len(U) = n
        /\ M \in Seq(Range(M)) /\ S \in Seq(Range(S)) /\ U \in Seq(Range(U))
        /\ \A k \in 1 .. n : RowAgrees(M[k], S[k], U[k])
  BY AllAgree DEF Agree, TablesAgree
<1>2. DOMAIN M = 1 .. n /\ DOMAIN S = 1 .. n /\ \A k \in 1 .. n : U[k] \in Rows(t)
  BY <1>1 DEF Rows, Range
<1> HIDE DEF M, S, U
<1>3. ASSUME NEW k \in 1 .. n
      PROVE  /\ M[k].type = U[k].type /\ S[k].type = U[k].type
             /\ (Embeds(M[k]) => Embeds(U[k])) /\ (Embeds(S[k]) => Embeds(U[k]))
  BY <1>1 DEF RowAgrees, Embeds
<1>4. ASSUME NEW k \in 1 .. n, Embeds(U[k])
      PROVE  /\ ~ Flat(t) /\ U[k].type \in Held /\ Shallow(U[k].type)
             /\ Shallow(t) => Flat(U[k].type)
  BY <1>2, <1>4, Levels DEF Flat, Shallow
<1>5. ASSUME NEW k \in 1 .. n, Embeds(M[k])
      PROVE  /\ ~ Flat(t) /\ M[k].type \in Held /\ Shallow(M[k].type)
             /\ Shallow(t) => Flat(M[k].type)
  BY <1>3, <1>4, <1>5
<1>6. ASSUME NEW k \in 1 .. n, Embeds(S[k])
      PROVE  /\ ~ Flat(t) /\ S[k].type \in Held /\ Shallow(S[k].type)
             /\ Shallow(t) => Flat(S[k].type)
  <2>1. S[k].kind = M[k].kind
    BY <1>1 DEF RowAgrees
  <2>2. Embeds(M[k])
    BY <1>6, <2>1 DEF Embeds
  <2> QED
    BY <1>3, <1>4, <2>2
<1> QED
  BY <1>2, <1>5, <1>6 DEF M, S

LEMMA NoParts == \A row, v : ~ Embeds(row) => DOMAIN Parts(row, v) = {}
BY DEF Parts, Embeds

LEMMA MarshalFlat ==
    ASSUME NEW t \in DOMAIN Message, Flat(t), NEW m
    PROVE  Marshal0(t, m) = Marshal(t, m) /\ Marshal1(t, m) = Marshal(t, m)
<1> DEFINE table == Message[t].Marshal
           P(i) == Parts(table[i], m[table[i].field])
           R0(i) == Written(table[i], m[table[i].field], [j \in DOMAIN P(i) |-> <<>>])
           R1(i) == Written(table[i], m[table[i].field],
                            [j \in DOMAIN P(i) |-> Marshal0(table[i].type, P(i)[j])])
           R2(i) == Written(table[i], m[table[i].field],
                            [j \in DOMAIN P(i) |-> Marshal1(table[i].type, P(i)[j])])
<1>1. /\ Marshal0(t, m) = FlattenSeq([i \in DOMAIN table |-> R0(i)])
      /\ Marshal1(t, m) = FlattenSeq([i \in DOMAIN table |-> R1(i)])
      /\ Marshal(t, m) = FlattenSeq([i \in DOMAIN table |-> R2(i)])
  BY DEF Marshal0, Marshal1, Marshal, MarshalBy
<1>2. ASSUME NEW i \in DOMAIN table PROVE R0(i) = R1(i) /\ R1(i) = R2(i)
  <2>1. ~ Embeds(table[i])
    BY WriteRows
  <2>2. DOMAIN P(i) = {}
    BY <2>1, NoParts
  <2> QED
    BY <2>2
<1> HIDE DEF R0, R1, R2
<1>3. /\ [i \in DOMAIN table |-> R0(i)] = [i \in DOMAIN table |-> R1(i)]
      /\ [i \in DOMAIN table |-> R1(i)] = [i \in DOMAIN table |-> R2(i)]
  BY <1>2
<1> QED
  BY <1>1, <1>3

LEMMA MarshalShallow ==
    ASSUME NEW t \in DOMAIN Message, Shallow(t), NEW m
    PROVE  Marshal1(t, m) = Marshal(t, m)
<1> DEFINE table == Message[t].Marshal
           P(i) == Parts(table[i], m[table[i].field])
           R1(i) == Written(table[i], m[table[i].field],
                            [j \in DOMAIN P(i) |-> Marshal0(table[i].type, P(i)[j])])
           R2(i) == Written(table[i], m[table[i].field],
                            [j \in DOMAIN P(i) |-> Marshal1(table[i].type, P(i)[j])])
<1>1. /\ Marshal1(t, m) = FlattenSeq([i \in DOMAIN table |-> R1(i)])
      /\ Marshal(t, m) = FlattenSeq([i \in DOMAIN table |-> R2(i)])
  BY DEF Marshal0, Marshal1, Marshal, MarshalBy
<1>2. ASSUME NEW i \in DOMAIN table PROVE R1(i) = R2(i)
  <2>1. CASE ~ Embeds(table[i])
    <3>1. DOMAIN P(i) = {}
      BY <2>1, NoParts
    <3> QED
      BY <3>1
  <2>2. CASE Embeds(table[i])
    <3>1. Flat(table[i].type) /\ table[i].type \in DOMAIN Message
      BY <2>2, WriteRows, Levels
    <3>2. \A v : Marshal0(table[i].type, v) = Marshal1(table[i].type, v)
      BY <3>1, MarshalFlat
    <3>3. [j \in DOMAIN P(i) |-> Marshal0(table[i].type, P(i)[j])]
            = [j \in DOMAIN P(i) |-> Marshal1(table[i].type, P(i)[j])]
      <4> HIDE DEF P, table
      <4> QED
        BY <3>2
    <3> QED
      BY <3>3, Zenon
  <2> QED
    BY <2>1, <2>2
<1> HIDE DEF R1, R2
<1>3. [i \in DOMAIN table |-> R1(i)] = [i \in DOMAIN table |-> R2(i)]
  BY <1>2
<1> QED
  BY <1>1, <1>3

\* Marshal calls Marshal for what a message holds.
LEMMA MarshalIs ==
    ASSUME NEW t \in DOMAIN Message, NEW m
    PROVE  Marshal(t, m) = FlattenSeq([i \in DOMAIN Message[t].Marshal |->
             Encode(Message[t].Marshal[i], m[Message[t].Marshal[i].field])])
<1> DEFINE table == Message[t].Marshal
           P(i) == Parts(table[i], m[table[i].field])
           R(i) == Written(table[i], m[table[i].field],
                           [j \in DOMAIN P(i) |-> Marshal1(table[i].type, P(i)[j])])
           E(i) == Encode(table[i], m[table[i].field])
<1>1. Marshal(t, m) = FlattenSeq([i \in DOMAIN table |-> R(i)])
  BY DEF Marshal, MarshalBy
<1>2. ASSUME NEW i \in DOMAIN table PROVE R(i) = E(i)
  <2>1. [j \in DOMAIN P(i) |-> Marshal1(table[i].type, P(i)[j])]
          = [j \in DOMAIN P(i) |-> Marshal(table[i].type, P(i)[j])]
    <3>1. CASE ~ Embeds(table[i])
      <4>1. DOMAIN P(i) = {}
        BY <3>1, NoParts
      <4> QED
        BY <4>1
    <3>2. CASE Embeds(table[i])
      <4>1. Shallow(table[i].type) /\ table[i].type \in DOMAIN Message
        BY <3>2, WriteRows, Levels
      <4>2. \A v : Marshal1(table[i].type, v) = Marshal(table[i].type, v)
        BY <4>1, MarshalShallow
      <4> HIDE DEF P, table
      <4> QED
        BY <4>2
    <3> QED
      BY <3>1, <3>2
  <2> QED
    BY <2>1, Zenon DEF Encode
<1> HIDE DEF R, E
<1>3. [i \in DOMAIN table |-> R(i)] = [i \in DOMAIN table |-> E(i)]
  BY <1>2
<1> QED
  BY <1>1, <1>3 DEF E

\* What Size counts for a field.
Count(row, v) ==
    Counted(row, v, [j \in DOMAIN Parts(row, v) |-> Size(row.type, Parts(row, v)[j])])

LEMMA SizeFlat ==
    ASSUME NEW t \in DOMAIN Message, Flat(t), NEW m
    PROVE  Size0(t, m) = Size(t, m) /\ Size1(t, m) = Size(t, m)
<1> DEFINE table == Message[t].Size
           P(i) == Parts(table[i], m[table[i].field])
           R0(i) == Counted(table[i], m[table[i].field], [j \in DOMAIN P(i) |-> 0])
           R1(i) == Counted(table[i], m[table[i].field],
                            [j \in DOMAIN P(i) |-> Size0(table[i].type, P(i)[j])])
           R2(i) == Counted(table[i], m[table[i].field],
                            [j \in DOMAIN P(i) |-> Size1(table[i].type, P(i)[j])])
<1>1. /\ Size0(t, m) = Total([i \in DOMAIN table |-> R0(i)])
      /\ Size1(t, m) = Total([i \in DOMAIN table |-> R1(i)])
      /\ Size(t, m) = Total([i \in DOMAIN table |-> R2(i)])
  BY DEF Size0, Size1, Size, SizeBy
<1>2. ASSUME NEW i \in DOMAIN table PROVE R0(i) = R1(i) /\ R1(i) = R2(i)
  <2>1. ~ Embeds(table[i])
    BY WriteRows
  <2>2. DOMAIN P(i) = {}
    BY <2>1, NoParts
  <2> QED
    BY <2>2
<1> HIDE DEF R0, R1, R2
<1>3. /\ [i \in DOMAIN table |-> R0(i)] = [i \in DOMAIN table |-> R1(i)]
      /\ [i \in DOMAIN table |-> R1(i)] = [i \in DOMAIN table |-> R2(i)]
  BY <1>2
<1> QED
  BY <1>1, <1>3

LEMMA SizeShallow ==
    ASSUME NEW t \in DOMAIN Message, Shallow(t), NEW m
    PROVE  Size1(t, m) = Size(t, m)
<1> DEFINE table == Message[t].Size
           P(i) == Parts(table[i], m[table[i].field])
           R1(i) == Counted(table[i], m[table[i].field],
                            [j \in DOMAIN P(i) |-> Size0(table[i].type, P(i)[j])])
           R2(i) == Counted(table[i], m[table[i].field],
                            [j \in DOMAIN P(i) |-> Size1(table[i].type, P(i)[j])])
<1>1. /\ Size1(t, m) = Total([i \in DOMAIN table |-> R1(i)])
      /\ Size(t, m) = Total([i \in DOMAIN table |-> R2(i)])
  BY DEF Size0, Size1, Size, SizeBy
<1>2. ASSUME NEW i \in DOMAIN table PROVE R1(i) = R2(i)
  <2>1. CASE ~ Embeds(table[i])
    <3>1. DOMAIN P(i) = {}
      BY <2>1, NoParts
    <3> QED
      BY <3>1
  <2>2. CASE Embeds(table[i])
    <3>1. Flat(table[i].type) /\ table[i].type \in DOMAIN Message
      BY <2>2, WriteRows, Levels
    <3>2. \A v : Size0(table[i].type, v) = Size1(table[i].type, v)
      BY <3>1, SizeFlat
    <3>3. [j \in DOMAIN P(i) |-> Size0(table[i].type, P(i)[j])]
            = [j \in DOMAIN P(i) |-> Size1(table[i].type, P(i)[j])]
      <4> HIDE DEF P, table
      <4> QED
        BY <3>2
    <3> QED
      BY <3>3, Zenon
  <2> QED
    BY <2>1, <2>2
<1> HIDE DEF R1, R2
<1>3. [i \in DOMAIN table |-> R1(i)] = [i \in DOMAIN table |-> R2(i)]
  BY <1>2
<1> QED
  BY <1>1, <1>3

\* Size counts with Size what a message holds.
LEMMA SizeIs ==
    ASSUME NEW t \in DOMAIN Message, NEW m
    PROVE  Size(t, m) = Total([i \in DOMAIN Message[t].Size |->
             Count(Message[t].Size[i], m[Message[t].Size[i].field])])
<1> DEFINE table == Message[t].Size
           P(i) == Parts(table[i], m[table[i].field])
           R(i) == Counted(table[i], m[table[i].field],
                           [j \in DOMAIN P(i) |-> Size1(table[i].type, P(i)[j])])
           E(i) == Count(table[i], m[table[i].field])
<1>1. Size(t, m) = Total([i \in DOMAIN table |-> R(i)])
  BY DEF Size, SizeBy
<1>2. ASSUME NEW i \in DOMAIN table PROVE R(i) = E(i)
  <2>1. [j \in DOMAIN P(i) |-> Size1(table[i].type, P(i)[j])]
          = [j \in DOMAIN P(i) |-> Size(table[i].type, P(i)[j])]
    <3>1. CASE ~ Embeds(table[i])
      <4>1. DOMAIN P(i) = {}
        BY <3>1, NoParts
      <4> QED
        BY <4>1
    <3>2. CASE Embeds(table[i])
      <4>1. Shallow(table[i].type) /\ table[i].type \in DOMAIN Message
        BY <3>2, WriteRows, Levels
      <4>2. \A v : Size1(table[i].type, v) = Size(table[i].type, v)
        BY <4>1, SizeShallow
      <4> HIDE DEF P, table
      <4> QED
        BY <4>2
    <3> QED
      BY <3>1, <3>2
  <2> QED
    BY <2>1, Zenon DEF Count
<1> HIDE DEF R, E
<1>3. [i \in DOMAIN table |-> R(i)] = [i \in DOMAIN table |-> E(i)]
  BY <1>2
<1> QED
  BY <1>1, <1>3 DEF E

LEMMA RowOfIs ==
    ASSUME NEW t, NEW f \in Fields(t)
    PROVE  RowOf(Message[t].Unmarshal, f) \in Rows(t) /\ RowOf(Message[t].Unmarshal, f).field = f
<1>1. \E row \in Rows(t) : row.field = f
  BY DEF Fields, Rows
<1> QED
  BY <1>1 DEF RowOf, Rows

\* The zero value of a field, the merge of two, and its type.
ZeroOf(row) ==
    CASE row.kind \in {"uint", "int"} -> 0
      [] row.kind = "flag" -> FALSE
      [] row.kind = "sub" -> Zero(row.type)
      [] OTHER -> <<>>

MergeOf(t, row, x, y) ==
    CASE row.kind = "sub" -> Merge(row.type, x, y)
      [] row.kind = "ptr" /\ x # <<>> /\ y # <<>> -> <<Merge(row.type, x[1], y[1])>>
      [] row.kind = "rep" -> x \o y
      [] OTHER -> IF y = Zero(t)[row.field] THEN x ELSE y

TypeOf(row, v) ==
    CASE row.kind = "uint" -> v \in 0 .. (Two[row.bits] - 1)
      [] row.kind = "int" -> v \in -Two[row.bits - 1] .. (Two[row.bits - 1] - 1)
      [] row.kind = "flag" -> v \in BOOLEAN
      [] row.kind = "raw" -> v \in Seq(Byte)
      [] row.kind = "sub" -> IsMessage(row.type, v)
      [] OTHER -> /\ v \in Seq(Range(v))
                  /\ row.kind = "ptr" => Len(v) <= 1
                  /\ \A i \in DOMAIN v : IsMessage(row.type, v[i])

LEMMA ZeroFlat ==
    ASSUME NEW t \in DOMAIN Message, Flat(t)
    PROVE  Zero0(t) = Zero(t) /\ Zero1(t) = Zero(t)
<1> DEFINE R(f) == RowOf(Message[t].Unmarshal, f)
<1>1. \A f \in Fields(t) : R(f).kind # "sub"
  BY RowOfIs DEF Flat, Embeds
<1> HIDE DEF R
<1>2. \A z \in {Zero0(t), Zero1(t), Zero(t)} : z = [f \in Fields(t) |->
        CASE R(f).kind \in {"uint", "int"} -> 0 [] R(f).kind = "flag" -> FALSE
          [] OTHER -> <<>>]
  BY <1>1, Zenon DEF Zero0, Zero1, Zero, ZeroBy, R
<1> QED
  BY <1>2, Zenon

LEMMA HeldBy ==
    ASSUME NEW t \in DOMAIN Message, NEW f \in Fields(t),
           NEW row, row = RowOf(Message[t].Unmarshal, f)
    PROVE  /\ Flat(t) => ~ Embeds(row)
           /\ Embeds(row) => row.type \in DOMAIN Message /\ Shallow(row.type)
           /\ Embeds(row) /\ Shallow(t) => Flat(row.type)
<1>1. row \in Rows(t)
  BY RowOfIs
<1>2. Embeds(row) => row.type \in Held /\ Shallow(row.type)
  BY <1>1, Levels
<1>3. Embeds(row) => row.type \in DOMAIN Message
  BY <1>2, Levels
<1> QED
  BY <1>1, <1>2, <1>3 DEF Flat, Shallow

LEMMA ZeroShallow ==
    ASSUME NEW t \in DOMAIN Message, Shallow(t)
    PROVE  Zero1(t) = Zero(t)
<1> DEFINE R(f) == RowOf(Message[t].Unmarshal, f)
<1>1. ASSUME NEW f \in Fields(t), R(f).kind = "sub" PROVE Zero0(R(f).type) = Zero1(R(f).type)
  <2>1. Embeds(R(f))
    BY <1>1 DEF Embeds
  <2>2. Flat(R(f).type) /\ R(f).type \in DOMAIN Message
    BY <2>1, HeldBy
  <2> QED
    BY <2>2, ZeroFlat
<1> DEFINE Z(f, x) == CASE R(f).kind \in {"uint", "int"} -> 0 [] R(f).kind = "flag" -> FALSE
                        [] R(f).kind = "sub" -> x [] OTHER -> <<>>
<1>2. /\ Zero1(t) = [f \in Fields(t) |-> Z(f, Zero0(R(f).type))]
      /\ Zero(t) = [f \in Fields(t) |-> Z(f, Zero1(R(f).type))]
  BY DEF Zero1, Zero, ZeroBy
<1>3. \A f \in Fields(t) : Z(f, Zero0(R(f).type)) = Z(f, Zero1(R(f).type))
  <2> HIDE DEF R
  <2> QED
    BY <1>1
<1> HIDE DEF Z, R
<1> QED
  BY <1>2, <1>3

LEMMA ZeroIs ==
    ASSUME NEW t \in DOMAIN Message
    PROVE  Zero(t) = [f \in Fields(t) |-> ZeroOf(RowOf(Message[t].Unmarshal, f))]
<1> DEFINE R(f) == RowOf(Message[t].Unmarshal, f)
<1>1. ASSUME NEW f \in Fields(t), R(f).kind = "sub" PROVE Zero1(R(f).type) = Zero(R(f).type)
  <2>1. Embeds(R(f))
    BY <1>1 DEF Embeds
  <2>2. Shallow(R(f).type) /\ R(f).type \in DOMAIN Message
    BY <2>1, HeldBy
  <2> QED
    BY <2>2, ZeroShallow
<1> DEFINE Z(f, x) == CASE R(f).kind \in {"uint", "int"} -> 0 [] R(f).kind = "flag" -> FALSE
                        [] R(f).kind = "sub" -> x [] OTHER -> <<>>
<1>2. /\ Zero(t) = [f \in Fields(t) |-> Z(f, Zero1(R(f).type))]
      /\ \A f : ZeroOf(R(f)) = Z(f, Zero(R(f).type))
  BY DEF Zero, ZeroBy, ZeroOf
<1>3. \A f \in Fields(t) : Z(f, Zero1(R(f).type)) = ZeroOf(R(f))
  <2> HIDE DEF R
  <2> QED
    BY <1>1, <1>2
<1> HIDE DEF Z
<1> QED
  BY <1>2, <1>3

\* The field of a merge, given what the embedded messages' merges are.
Mixed(t, row, x, y, one, all) ==
    CASE row.kind = "sub" -> all
      [] row.kind = "ptr" /\ x # <<>> /\ y # <<>> -> <<one>>
      [] row.kind = "rep" -> x \o y
      [] OTHER -> IF y = Zero(t)[row.field] THEN x ELSE y

LEMMA MixedSame ==
    ASSUME NEW t, NEW row, NEW x, NEW y, NEW p, NEW q, NEW r, NEW s,
           Embeds(row) => p = r /\ q = s
    PROVE  Mixed(t, row, x, y, p, q) = Mixed(t, row, x, y, r, s)
BY DEF Mixed, Embeds

LEMMA MergeForms ==
    ASSUME NEW t, NEW a, NEW b
    PROVE  LET R(f) == RowOf(Message[t].Unmarshal, f) IN
           /\ Merge0(t, a, b) = [f \in Fields(t) |->
                Mixed(t, R(f), a[f], b[f], <<>>, <<>>)]
           /\ Merge1(t, a, b) = [f \in Fields(t) |->
                Mixed(t, R(f), a[f], b[f], Merge0(R(f).type, a[f][1], b[f][1]),
                      Merge0(R(f).type, a[f], b[f]))]
           /\ Merge(t, a, b) = [f \in Fields(t) |->
                Mixed(t, R(f), a[f], b[f], Merge1(R(f).type, a[f][1], b[f][1]),
                      Merge1(R(f).type, a[f], b[f]))]
<1>1. Merge0(t, a, b) = [f \in Fields(t) |->
        Mixed(t, RowOf(Message[t].Unmarshal, f), a[f], b[f], <<>>, <<>>)]
  BY Zenon DEF Merge0, MergeBy, Mixed
<1> QED
  BY <1>1, Zenon DEF Merge1, Merge, MergeBy, Mixed

LEMMA MergeFlat ==
    ASSUME NEW t \in DOMAIN Message, Flat(t), NEW a, NEW b
    PROVE  Merge0(t, a, b) = Merge(t, a, b) /\ Merge1(t, a, b) = Merge(t, a, b)
<1> DEFINE R(f) == RowOf(Message[t].Unmarshal, f)
           M0(f) == Mixed(t, R(f), a[f], b[f], <<>>, <<>>)
           M1(f) == Mixed(t, R(f), a[f], b[f], Merge0(R(f).type, a[f][1], b[f][1]),
                          Merge0(R(f).type, a[f], b[f]))
           M2(f) == Mixed(t, R(f), a[f], b[f], Merge1(R(f).type, a[f][1], b[f][1]),
                          Merge1(R(f).type, a[f], b[f]))
<1>1. ASSUME NEW f \in Fields(t) PROVE M0(f) = M2(f) /\ M1(f) = M2(f)
  <2>1. ~ Embeds(R(f))
    BY HeldBy
  <2> QED
    BY <2>1, MixedSame
<1>2. /\ Merge0(t, a, b) = [f \in Fields(t) |-> M0(f)]
      /\ Merge1(t, a, b) = [f \in Fields(t) |-> M1(f)]
      /\ Merge(t, a, b) = [f \in Fields(t) |-> M2(f)]
  BY MergeForms
<1> HIDE DEF M0, M1, M2
<1> QED
  BY <1>1, <1>2

LEMMA MergeShallow ==
    ASSUME NEW t \in DOMAIN Message, Shallow(t), NEW a, NEW b
    PROVE  Merge1(t, a, b) = Merge(t, a, b)
<1> DEFINE R(f) == RowOf(Message[t].Unmarshal, f)
           M1(f) == Mixed(t, R(f), a[f], b[f], Merge0(R(f).type, a[f][1], b[f][1]),
                          Merge0(R(f).type, a[f], b[f]))
           M2(f) == Mixed(t, R(f), a[f], b[f], Merge1(R(f).type, a[f][1], b[f][1]),
                          Merge1(R(f).type, a[f], b[f]))
<1>1. ASSUME NEW f \in Fields(t) PROVE M1(f) = M2(f)
  <2>1. Embeds(R(f)) => Flat(R(f).type) /\ R(f).type \in DOMAIN Message
    BY HeldBy
  <2>2. Embeds(R(f)) => \A x, y : Merge0(R(f).type, x, y) = Merge1(R(f).type, x, y)
    BY <2>1, MergeFlat
  <2> QED
    BY <2>2, MixedSame
<1>2. /\ Merge1(t, a, b) = [f \in Fields(t) |-> M1(f)]
      /\ Merge(t, a, b) = [f \in Fields(t) |-> M2(f)]
  BY MergeForms
<1> HIDE DEF M1, M2
<1> QED
  BY <1>1, <1>2

LEMMA MergeIs ==
    ASSUME NEW t \in DOMAIN Message, NEW a, NEW b
    PROVE  Merge(t, a, b) = [f \in Fields(t) |->
             MergeOf(t, RowOf(Message[t].Unmarshal, f), a[f], b[f])]
<1> DEFINE R(f) == RowOf(Message[t].Unmarshal, f)
           M1(f) == Mixed(t, R(f), a[f], b[f], Merge1(R(f).type, a[f][1], b[f][1]),
                          Merge1(R(f).type, a[f], b[f]))
           M2(f) == MergeOf(t, R(f), a[f], b[f])
<1>1. ASSUME NEW f \in Fields(t) PROVE M1(f) = M2(f)
  <2>1. Embeds(R(f)) => Shallow(R(f).type) /\ R(f).type \in DOMAIN Message
    BY HeldBy
  <2>2. Embeds(R(f)) => \A x, y : Merge1(R(f).type, x, y) = Merge(R(f).type, x, y)
    BY <2>1, MergeShallow
  <2>3. M2(f) = Mixed(t, R(f), a[f], b[f], Merge(R(f).type, a[f][1], b[f][1]),
                      Merge(R(f).type, a[f], b[f]))
    BY Zenon DEF MergeOf, Mixed
  <2> QED
    BY <2>2, <2>3, MixedSame
<1>2. Merge(t, a, b) = [f \in Fields(t) |-> M1(f)]
  BY MergeForms
<1> HIDE DEF M1, M2
<1>3. Merge(t, a, b) = [f \in Fields(t) |-> M2(f)]
  BY <1>1, <1>2
<1> QED
  BY <1>3 DEF M2

\* The type of a field, given whether the messages it holds are of theirs.
Typed(row, v, one, all) ==
    CASE row.kind = "uint" -> v \in 0 .. (Two[row.bits] - 1)
      [] row.kind = "int" -> v \in -Two[row.bits - 1] .. (Two[row.bits - 1] - 1)
      [] row.kind = "flag" -> v \in BOOLEAN
      [] row.kind = "raw" -> v \in Seq(Byte)
      [] row.kind = "sub" -> one
      [] OTHER -> v \in Seq(Range(v)) /\ (row.kind = "ptr" => Len(v) <= 1) /\ all

Kinds == {"uint", "int", "flag", "raw", "sub", "ptr", "rep"}

LEMMA KindsAre == \A t \in DOMAIN Message : \A row \in Rows(t) : row.kind \in Kinds
<1> SUFFICES ASSUME NEW t \in DOMAIN Message, NEW row \in Rows(t) PROVE row.kind \in Kinds
  OBVIOUS
<1>1. PICK n \in Nat : /\ Len(Message[t].Unmarshal) = n
                       /\ Message[t].Unmarshal \in Seq(Rows(t))
                       /\ \A i \in 1 .. n : RowAgrees(Message[t].Marshal[i],
                            Message[t].Size[i], Message[t].Unmarshal[i])
  BY AllAgree DEF Agree, TablesAgree, Rows
<1>2. PICK i \in 1 .. n : row = Message[t].Unmarshal[i]
  BY <1>1 DEF Rows, Range
<1>3. RowAgrees(Message[t].Marshal[i], Message[t].Size[i], row)
  BY <1>1, <1>2
<1> QED
  BY <1>3 DEF RowAgrees, Kinds

LEMMA IsMessageForms ==
    ASSUME NEW t, NEW m
    PROVE  /\ IsMessage0(t, m) <=>
                /\ m = [f \in Fields(t) |-> m[f]]
                /\ \A row \in Rows(t) : Typed(row, m[row.field], FALSE,
                     \A i \in DOMAIN m[row.field] : FALSE)
           /\ IsMessage1(t, m) <=>
                /\ m = [f \in Fields(t) |-> m[f]]
                /\ \A row \in Rows(t) : Typed(row, m[row.field],
                     IsMessage0(row.type, m[row.field]),
                     \A i \in DOMAIN m[row.field] : IsMessage0(row.type, m[row.field][i]))
           /\ IsMessage(t, m) <=>
                /\ m = [f \in Fields(t) |-> m[f]]
                /\ \A row \in Rows(t) : Typed(row, m[row.field],
                     IsMessage1(row.type, m[row.field]),
                     \A i \in DOMAIN m[row.field] : IsMessage1(row.type, m[row.field][i]))
<1>1. IsMessage0(t, m) <=>
                /\ m = [f \in Fields(t) |-> m[f]]
                /\ \A row \in Rows(t) : Typed(row, m[row.field], FALSE,
                     \A i \in DOMAIN m[row.field] : FALSE)
  BY Zenon DEF IsMessage0, IsMessageBy, Typed, Rows
<1>2. IsMessage1(t, m) <=>
                /\ m = [f \in Fields(t) |-> m[f]]
                /\ \A row \in Rows(t) : Typed(row, m[row.field],
                     IsMessage0(row.type, m[row.field]),
                     \A i \in DOMAIN m[row.field] : IsMessage0(row.type, m[row.field][i]))
  BY Zenon DEF IsMessage1, IsMessageBy, Typed, Rows
<1>3. IsMessage(t, m) <=>
                /\ m = [f \in Fields(t) |-> m[f]]
                /\ \A row \in Rows(t) : Typed(row, m[row.field],
                     IsMessage1(row.type, m[row.field]),
                     \A i \in DOMAIN m[row.field] : IsMessage1(row.type, m[row.field][i]))
  BY Zenon DEF IsMessage, IsMessageBy, Typed, Rows
<1> QED
  BY <1>1, <1>2, <1>3

LEMMA IsMessageFlat ==
    ASSUME NEW t \in DOMAIN Message, Flat(t), NEW m
    PROVE  (IsMessage0(t, m) <=> IsMessage(t, m)) /\ (IsMessage1(t, m) <=> IsMessage(t, m))
<1> DEFINE T0(row) == Typed(row, m[row.field], FALSE, \A i \in DOMAIN m[row.field] : FALSE)
           T1(row) == Typed(row, m[row.field],
                     IsMessage0(row.type, m[row.field]),
                     \A i \in DOMAIN m[row.field] : IsMessage0(row.type, m[row.field][i]))
           T2(row) == Typed(row, m[row.field],
                     IsMessage1(row.type, m[row.field]),
                     \A i \in DOMAIN m[row.field] : IsMessage1(row.type, m[row.field][i]))
<1>1. ASSUME NEW row \in Rows(t) PROVE (T0(row) <=> T2(row)) /\ (T1(row) <=> T2(row))
  <2>1. ~ Embeds(row) /\ row.kind \in Kinds
    BY KindsAre DEF Flat
  <2> QED
    BY <2>1 DEF Typed, Embeds, Kinds
<1>2. /\ IsMessage0(t, m) <=> m = [f \in Fields(t) |-> m[f]] /\ \A row \in Rows(t) : T0(row)
      /\ IsMessage1(t, m) <=> m = [f \in Fields(t) |-> m[f]] /\ \A row \in Rows(t) : T1(row)
      /\ IsMessage(t, m) <=> m = [f \in Fields(t) |-> m[f]] /\ \A row \in Rows(t) : T2(row)
  BY IsMessageForms
<1> HIDE DEF T0, T1, T2
<1> QED
  BY <1>1, <1>2

LEMMA IsMessageShallow ==
    ASSUME NEW t \in DOMAIN Message, Shallow(t), NEW m
    PROVE  IsMessage1(t, m) <=> IsMessage(t, m)
<1> DEFINE T1(row) == Typed(row, m[row.field],
                     IsMessage0(row.type, m[row.field]),
                     \A i \in DOMAIN m[row.field] : IsMessage0(row.type, m[row.field][i]))
           T2(row) == Typed(row, m[row.field],
                     IsMessage1(row.type, m[row.field]),
                     \A i \in DOMAIN m[row.field] : IsMessage1(row.type, m[row.field][i]))
<1>1. ASSUME NEW row \in Rows(t) PROVE T1(row) <=> T2(row)
  <2>1. row.kind \in Kinds
    BY KindsAre
  <2>2. Embeds(row) => Flat(row.type) /\ row.type \in DOMAIN Message
    BY Levels DEF Shallow
  <2>3. Embeds(row) => \A x : IsMessage0(row.type, x) <=> IsMessage1(row.type, x)
    BY <2>2, IsMessageFlat
  <2> QED
    BY <2>1, <2>3 DEF Typed, Embeds, Kinds
<1>2. /\ IsMessage1(t, m) <=> m = [f \in Fields(t) |-> m[f]] /\ \A row \in Rows(t) : T1(row)
      /\ IsMessage(t, m) <=> m = [f \in Fields(t) |-> m[f]] /\ \A row \in Rows(t) : T2(row)
  BY IsMessageForms
<1> HIDE DEF T1, T2
<1> QED
  BY <1>1, <1>2

LEMMA IsMessageIs ==
    ASSUME NEW t \in DOMAIN Message, NEW m
    PROVE  IsMessage(t, m) <=> /\ m = [f \in Fields(t) |-> m[f]]
                               /\ \A row \in Rows(t) : TypeOf(row, m[row.field])
<1> DEFINE T1(row) == Typed(row, m[row.field],
                     IsMessage1(row.type, m[row.field]),
                     \A i \in DOMAIN m[row.field] : IsMessage1(row.type, m[row.field][i]))
           T2(row) == TypeOf(row, m[row.field])
<1>1. ASSUME NEW row \in Rows(t) PROVE T1(row) <=> T2(row)
  <2>1. row.kind \in Kinds
    BY KindsAre
  <2>2. Embeds(row) => Shallow(row.type) /\ row.type \in DOMAIN Message
    BY Levels
  <2>3. Embeds(row) => \A x : IsMessage1(row.type, x) <=> IsMessage(row.type, x)
    BY <2>2, IsMessageShallow
  <2> QED
    BY <2>1, <2>3 DEF Typed, TypeOf, Embeds, Kinds
<1>2. IsMessage(t, m) <=> m = [f \in Fields(t) |-> m[f]] /\ \A row \in Rows(t) : T1(row)
  BY IsMessageForms
<1> HIDE DEF T1, T2
<1>3. IsMessage(t, m) <=> m = [f \in Fields(t) |-> m[f]] /\ \A row \in Rows(t) : T2(row)
  BY <1>1, <1>2
<1> QED
  BY <1>3 DEF T2

-----------------------------------------------------------------------------
(***************************************************************************)
(* Size.                                                                   *)
(***************************************************************************)
\* The rows of the three tables, one field after the other.
LEMMA Tables ==
    ASSUME NEW t \in DOMAIN Message
    PROVE  LET M == Message[t].Marshal
               S == Message[t].Size
               U == Message[t].Unmarshal
           IN  \E n \in Nat :
                 /\ DOMAIN M = 1 .. n /\ DOMAIN S = 1 .. n /\ DOMAIN U = 1 .. n /\ Len(M) = n
                 /\ \A i \in 1 .. n : /\ RowAgrees(M[i], S[i], U[i]) /\ U[i] \in Rows(t)
                                      /\ U[i].field \in Fields(t)
                                      /\ RowOf(U, U[i].field) = U[i]
                 /\ \A i, j \in 1 .. n : i # j => /\ U[i].field # U[j].field
                                                  /\ U[i].num # U[j].num
                 /\ \A row \in Rows(t) : \E i \in 1 .. n : row = U[i]
                 /\ \A f \in Fields(t) : \E i \in 1 .. n : f = U[i].field
<1> DEFINE M == Message[t].Marshal
           S == Message[t].Size
           U == Message[t].Unmarshal
<1>1. PICK n \in Nat :
      /\ Len(M) = n /\ Len(S) = n /\ Len(U) = n
      /\ M \in Seq(Range(M)) /\ S \in Seq(Range(S)) /\ U \in Seq(Range(U))
      /\ \A i \in 1 .. n : RowAgrees(M[i], S[i], U[i])
      /\ \A i, j \in 1 .. n : i # j => /\ U[i].field # U[j].field
                                       /\ U[i].num # U[j].num
  BY AllAgree DEF Agree, TablesAgree
<1> HIDE DEF M, S, U
<1>2. DOMAIN M = 1 .. n /\ DOMAIN S = 1 .. n /\ DOMAIN U = 1 .. n
  BY <1>1
<1>3. Rows(t) = Range(U) /\ Fields(t) = {row.field : row \in Range(U)}
  BY DEF Rows, Fields, U
<1>4. \A row \in Range(U) : \E i \in 1 .. n : row = U[i]
  BY <1>2 DEF Range
<1>5. \A i \in 1 .. n : U[i] \in Range(U)
  BY <1>2 DEF Range
<1>6. ASSUME NEW i \in 1 .. n PROVE RowOf(U, U[i].field) = U[i]
  <2>1. /\ RowOf(U, U[i].field) \in Range(U)
        /\ RowOf(U, U[i].field).field = U[i].field
    BY <1>5 DEF RowOf
  <2>2. PICK j \in 1 .. n : RowOf(U, U[i].field) = U[j]
    BY <1>4, <2>1
  <2> QED
    BY <1>1, <2>1, <2>2
<1>7. \A f \in Fields(t) : \E i \in 1 .. n : f = U[i].field
  BY <1>3, <1>4
<1>8. \A i \in 1 .. n : U[i] \in Rows(t) /\ U[i].field \in Fields(t)
  BY <1>3, <1>5
<1>9. /\ DOMAIN M = 1 .. n /\ DOMAIN S = 1 .. n /\ DOMAIN U = 1 .. n /\ Len(M) = n
      /\ \A i \in 1 .. n : /\ RowAgrees(M[i], S[i], U[i]) /\ U[i] \in Rows(t)
                           /\ U[i].field \in Fields(t)
                           /\ RowOf(U, U[i].field) = U[i]
      /\ \A i, j \in 1 .. n : i # j => /\ U[i].field # U[j].field
                                       /\ U[i].num # U[j].num
      /\ \A row \in Rows(t) : \E i \in 1 .. n : row = U[i]
      /\ \A f \in Fields(t) : \E i \in 1 .. n : f = U[i].field
  BY <1>1, <1>2, <1>3, <1>4, <1>6, <1>7, <1>8
<1> QED
  BY <1>9 DEF M, S, U

LEMMA InWord ==
    ASSUME NEW v \in Int
    PROVE  v % Two[WordBits] \in 0 .. Two[WordBits] - 1
<1>1. Two[WordBits] \in Nat /\ Two[WordBits] > 0
  BY TwoNat, WidthsAssumption
<1> QED
  BY <1>1, Division

LEMMA TaggedIs ==
    ASSUME NEW head \in Byte, NEW v \in Int
    PROVE  LET w == v % Two[WordBits]
               s == <<head>> \o encodeVarint(w)
           IN  s \in Seq(Byte) /\ Len(s) = 1 + sov(w) /\ sov(w) \in Nat /\ s # <<>>
<1>1. PICK w \in 0 .. Two[WordBits] - 1 : w = v % Two[WordBits]
  BY InWord
<1>2. PICK e \in Seq(Byte) : e = encodeVarint(w) /\ Len(e) = sov(w) /\ sov(w) \in Nat
  BY EncodeIs
<1>3. <<head>> \in Seq(Byte) /\ Len(<<head>>) = 1
  OBVIOUS
<1>4. <<head>> \o e \in Seq(Byte) /\ Len(<<head>> \o e) = 1 + Len(e)
  BY <1>3
<1>5. <<head>> \o e # <<>>
  BY <1>2, <1>4
<1> QED
  BY <1>1, <1>2, <1>4, <1>5

LEMMA DelimitedIs ==
    ASSUME NEW head \in Byte, NEW b \in Seq(Byte)
    PROVE  /\ Delimited(head, b) \in Seq(Byte) /\ sov(Len(b) % Two[WordBits]) \in Nat
           /\ Len(Delimited(head, b)) = 1 + sov(Len(b) % Two[WordBits]) + Len(b)
<1>1. PICK s \in Seq(Byte) : /\ s = <<head>> \o encodeVarint(Len(b) % Two[WordBits])
                             /\ Len(s) = 1 + sov(Len(b) % Two[WordBits])
                             /\ sov(Len(b) % Two[WordBits]) \in Nat
  <2>1. Len(b) \in Int
    OBVIOUS
  <2>2. LET w == Len(b) % Two[WordBits]
            s == <<head>> \o encodeVarint(w)
        IN  s \in Seq(Byte) /\ Len(s) = 1 + sov(w) /\ sov(w) \in Nat
    BY <2>1, TaggedIs
  <2> QED
    BY <2>2, Zenon
<1>2. s \o b \in Seq(Byte) /\ Len(s \o b) = Len(s) + Len(b)
  OBVIOUS
<1>3. Delimited(head, b) = s \o b
  BY <1>1, SMTT(40) DEF Delimited
<1> QED
  BY <1>1, <1>2, <1>3

\* A tag is one byte, below 128.
LEMMA HeadIs ==
    ASSUME NEW w, NEW c, NEW u, RowAgrees(w, c, u)
    PROVE  \E k \in 1 .. 15, wt \in {0, 2} :
             /\ u.num = k /\ u.wireType = wt /\ w.head = 8 * k + wt
             /\ w.head \in Byte /\ w.head < 128
<1>1. PICK k \in 1 .. 15 : k = u.num /\ w.head = 8 * k + u.wireType
  BY DEF RowAgrees
<1>2. PICK wt \in {0, 2} : u.wireType = wt
  BY DEF RowAgrees
<1>3. 8 * k + wt \in 0 .. 255 /\ 8 * k + wt < 128
  OBVIOUS
<1> QED
  BY <1>1, <1>2, <1>3 DEF Byte

\* What Marshal writes for a field is what Size counts.
LEMMA FieldSize ==
    ASSUME NEW w, NEW c, NEW u, RowAgrees(w, c, u), NEW v, TypeOf(u, v),
           \A x : Embeds(u) /\ IsMessage(u.type, x) =>
             Marshal(u.type, x) \in Seq(Byte) /\ Size(u.type, x) = Len(Marshal(u.type, x))
    PROVE  Encode(w, v) \in Seq(Byte) /\ Count(c, v) = Len(Encode(w, v))
<1>1. w.head \in Byte /\ c.head = 1 /\ c.kind = w.kind
  BY HeadIs DEF RowAgrees
<1>e. <<>> \in Seq(Byte) /\ Len(<<>>) = 0
  OBVIOUS
<1>2. CASE w.kind = "num"
  <2>1. v \in Int
    <3>1. CASE u.kind = "uint"
      <4>1. Two[u.bits] \in Int /\ v \in 0 .. Two[u.bits] - 1
        <5>1. u.bits \in 0 .. WordBits
          BY <1>2, WidthsAssumption DEF RowAgrees
        <5> QED
          BY <3>1, <5>1, TwoNat DEF TypeOf
      <4> QED
        BY <4>1
    <3>2. CASE u.kind = "int"
      <4>1. Two[u.bits - 1] \in Int /\ v \in -Two[u.bits - 1] .. Two[u.bits - 1] - 1
        <5>1. u.bits - 1 \in 0 .. WordBits
          BY <1>2, WidthsAssumption DEF RowAgrees
        <5> QED
          BY <3>2, <5>1, TwoNat DEF TypeOf
      <4> QED
        BY <4>1
    <3> QED
      BY <1>2, <3>1, <3>2 DEF RowAgrees
  <2>2. Encode(w, v) = IF v = 0 THEN <<>> ELSE <<w.head>> \o encodeVarint(v % Two[WordBits])
    BY <1>2 DEF Encode, Written
  <2>3. Count(c, v) = IF v = 0 THEN 0 ELSE 1 + sov(v % Two[WordBits])
    BY <1>1, <1>2 DEF Count, Counted
  <2>4. LET s == <<w.head>> \o encodeVarint(v % Two[WordBits])
        IN  s \in Seq(Byte) /\ Len(s) = 1 + sov(v % Two[WordBits])
    BY <1>1, <2>1, TaggedIs
  <2> QED
    BY <1>e, <2>2, <2>3, <2>4
<1>3. CASE w.kind = "flag"
  <2>1. v \in BOOLEAN
    BY <1>3 DEF RowAgrees, TypeOf
  <2>2. Encode(w, v) = IF v THEN <<w.head, 1>> ELSE <<>>
    BY <1>3 DEF Encode, Written
  <2>3. Count(c, v) = IF v THEN 2 ELSE 0
    BY <1>1, <1>3 DEF Count, Counted
  <2>4. <<w.head, 1>> \in Seq(Byte) /\ Len(<<w.head, 1>>) = 2
    BY <1>1 DEF Byte
  <2> QED
    BY <1>e, <2>1, <2>2, <2>3, <2>4
<1>4. CASE w.kind = "raw"
  <2>1. v \in Seq(Byte)
    BY <1>4 DEF RowAgrees, TypeOf
  <2>2. Encode(w, v) = IF v = <<>> THEN <<>> ELSE Delimited(w.head, v)
    BY <1>4 DEF Encode, Written
  <2>3. Count(c, v) = IF v = <<>> THEN 0 ELSE 1 + Len(v) + sov(Len(v) % Two[WordBits])
    BY <1>1, <1>4 DEF Count, Counted
  <2>4. /\ Delimited(w.head, v) \in Seq(Byte) /\ sov(Len(v) % Two[WordBits]) \in Nat
        /\ Len(Delimited(w.head, v)) = 1 + sov(Len(v) % Two[WordBits]) + Len(v)
    BY <1>1, <2>1, DelimitedIs
  <2>5. 1 + Len(v) + sov(Len(v) % Two[WordBits]) = 1 + sov(Len(v) % Two[WordBits]) + Len(v)
    BY <2>1, <2>4
  <2> QED
    BY <1>e, <2>2, <2>3, <2>4, <2>5
<1>5. CASE Embeds(w)
  <2>0. Embeds(u) /\ Embeds(c) /\ u.kind = w.kind /\ w.type = u.type /\ c.type = u.type
    BY <1>5 DEF RowAgrees, Embeds
  <2>1. PICK n, p : /\ n \in Nat /\ p = Parts(w, v) /\ p = Parts(c, v) /\ DOMAIN p = 1 .. n
                    /\ \A j \in 1 .. n : IsMessage(u.type, p[j])
    <3>1. CASE u.kind = "sub"
      <4>1. Parts(w, v) = <<v>> /\ Parts(c, v) = <<v>> /\ IsMessage(u.type, v)
        BY <1>1, <2>0, <3>1 DEF Parts, TypeOf
      <4>2. DOMAIN <<v>> = 1 .. 1 /\ <<v>>[1] = v /\ \A j \in 1 .. 1 : j = 1
        OBVIOUS
      <4>3. PICK p : p = <<v>>
        OBVIOUS
      <4>4. (\A j \in 1 .. 1 : IsMessage(u.type, p[j])) /\ 1 \in Nat
        BY <4>1, <4>2, <4>3
      <4> QED
        BY <4>1, <4>2, <4>3, <4>4, Zenon
    <3>2. CASE u.kind \in {"ptr", "rep"}
      <4>1. Parts(w, v) = v /\ Parts(c, v) = v
        BY <1>1, <2>0, <3>2 DEF Parts
      <4>2. v \in Seq(Range(v)) /\ \A j \in DOMAIN v : IsMessage(u.type, v[j])
        BY <3>2 DEF TypeOf
      <4>3. DOMAIN v = 1 .. Len(v) /\ Len(v) \in Nat
        BY <4>2
      <4> QED
        BY <4>1, <4>2, <4>3
    <3> QED
      BY <2>0, <3>1, <3>2 DEF Embeds
  <2> DEFINE enc == [j \in DOMAIN p |-> Marshal(u.type, p[j])]
             sizes == [j \in DOMAIN p |-> Size(u.type, p[j])]
             ss == [j \in DOMAIN enc |-> Delimited(w.head, enc[j])]
             ls == [j \in DOMAIN sizes |-> 1 + sizes[j] + sov(sizes[j] % Two[WordBits])]
  <2>2. Encode(w, v) = FlattenSeq(ss)
    BY <1>5, <2>0, <2>1 DEF Encode, Written, Embeds
  <2>3. Count(c, v) = Total(ls)
    BY <1>1, <1>5, <2>0, <2>1 DEF Count, Counted, Embeds
  <2>4. ASSUME NEW j \in 1 .. n
        PROVE  ss[j] \in Seq(Byte) /\ ls[j] = Len(ss[j]) /\ ls[j] \in Nat
    <3>1. PICK e \in Seq(Byte) : e = Marshal(u.type, p[j]) /\ Size(u.type, p[j]) = Len(e)
      BY <2>0, <2>1
    <3>2. /\ Delimited(w.head, e) \in Seq(Byte) /\ sov(Len(e) % Two[WordBits]) \in Nat
          /\ Len(Delimited(w.head, e)) = 1 + sov(Len(e) % Two[WordBits]) + Len(e)
      BY <1>1, DelimitedIs
    <3>3. ss[j] = Delimited(w.head, e) /\ ls[j] = 1 + Len(e) + sov(Len(e) % Two[WordBits])
      BY <2>1, <3>1
    <3> HIDE DEF ss, ls
    <3> QED
      BY <3>2, <3>3
  <2>5. DOMAIN ss = 1 .. n /\ DOMAIN ls = 1 .. n /\ ss = [j \in 1 .. n |-> ss[j]]
        /\ ls = [j \in 1 .. n |-> ls[j]]
    BY <2>1
  <2> HIDE DEF ss, ls
  <2>6. ss \in Seq(Seq(Byte)) /\ Len(ss) = n
    BY <2>1, <2>4, <2>5
  <2>7. ls \in Seq(Nat) /\ Len(ls) = n
    BY <2>1, <2>4, <2>5
  <2>8. Len(FlattenSeq(ss)) = Total(ls) /\ FlattenSeq(ss) \in Seq(Byte)
    BY <2>4, <2>6, <2>7, FlattenLen, FlattenTyped
  <2> QED
    BY <2>2, <2>3, <2>8
<1> QED
  BY <1>2, <1>3, <1>4, <1>5 DEF RowAgrees, Embeds

\* The sizes are right for a message if they are for those it holds.
Sized(t) == \A m : IsMessage(t, m) =>
              Marshal(t, m) \in Seq(Byte) /\ Size(t, m) = Len(Marshal(t, m))

LEMMA SizedStep ==
    ASSUME NEW t \in DOMAIN Message, \A row \in Rows(t) : Embeds(row) => Sized(row.type)
    PROVE  Sized(t)
<1> SUFFICES ASSUME NEW m, IsMessage(t, m)
             PROVE  Marshal(t, m) \in Seq(Byte) /\ Size(t, m) = Len(Marshal(t, m))
  BY DEF Sized
<1> DEFINE M == Message[t].Marshal
           S == Message[t].Size
           U == Message[t].Unmarshal
<1>1. PICK n \in Nat :
        /\ DOMAIN M = 1 .. n /\ DOMAIN S = 1 .. n
        /\ \A i \in 1 .. n : RowAgrees(M[i], S[i], U[i]) /\ U[i] \in Rows(t)
  BY Tables
<1> DEFINE ss == [i \in DOMAIN M |-> Encode(M[i], m[M[i].field])]
           ls == [i \in DOMAIN S |-> Count(S[i], m[S[i].field])]
<1>2. Marshal(t, m) = FlattenSeq(ss)
  BY MarshalIs
<1>3. Size(t, m) = Total(ls)
  BY SizeIs
<1>4. ASSUME NEW i \in 1 .. n
      PROVE  ss[i] \in Seq(Byte) /\ ls[i] = Len(ss[i]) /\ ls[i] \in Nat
  <2>1. RowAgrees(M[i], S[i], U[i]) /\ U[i] \in Rows(t)
    BY <1>1
  <2>2. M[i].field = U[i].field /\ S[i].field = U[i].field
    BY <2>1 DEF RowAgrees
  <2>3. PICK v : v = m[U[i].field] /\ TypeOf(U[i], v)
    BY <2>1, IsMessageIs
  <2>4. \A x : Embeds(U[i]) /\ IsMessage(U[i].type, x) =>
          Marshal(U[i].type, x) \in Seq(Byte) /\ Size(U[i].type, x) = Len(Marshal(U[i].type, x))
    BY <2>1 DEF Sized
  <2> HIDE DEF M, S, U
  <2>5. Encode(M[i], v) \in Seq(Byte) /\ Count(S[i], v) = Len(Encode(M[i], v))
    BY <2>1, <2>3, <2>4, FieldSize
  <2>6. ss[i] = Encode(M[i], v) /\ ls[i] = Count(S[i], v)
    BY <1>1, <2>2, <2>3
  <2> HIDE DEF ss, ls
  <2> QED
    BY <2>5, <2>6
<1>5. ss = [i \in 1 .. n |-> ss[i]] /\ ls = [i \in 1 .. n |-> ls[i]]
  BY <1>1
<1> HIDE DEF ss, ls
<1>6. ss \in Seq(Seq(Byte)) /\ Len(ss) = n
  BY <1>4, <1>5
<1>7. ls \in Seq(Nat) /\ Len(ls) = n
  BY <1>4, <1>5
<1>8. Len(FlattenSeq(ss)) = Total(ls) /\ FlattenSeq(ss) \in Seq(Byte)
  BY <1>4, <1>6, <1>7, FlattenLen, FlattenTyped
<1> QED
  BY <1>2, <1>3, <1>8

LEMMA AllSized == \A t \in DOMAIN Message : Sized(t)
<1>1. \A t \in DOMAIN Message : Flat(t) => Sized(t)
  BY SizedStep DEF Flat
<1>2. \A t \in DOMAIN Message : Shallow(t) => Sized(t)
  BY <1>1, SizedStep, Levels DEF Shallow
<1> QED
  BY <1>2, SizedStep, Levels

\* The beginning of a sequence of one.
LEMMA FlattenOne ==
    ASSUME NEW S, NEW s \in Seq(S)
    PROVE  FlattenSeq(<<s>>) = s
<1>1. PICK ss \in Seq(Seq(S)) : ss = <<s>> /\ Len(ss) = 1 /\ ss[1] = s
  <2>1. PICK T : T = Seq(S)
    OBVIOUS
  <2>2. <<s>> \in Seq(T) /\ Len(<<s>>) = 1 /\ <<s>>[1] = s
    BY <2>1
  <2> QED
    BY <2>1, <2>2, Zenon
<1>2. PICK F : Joints(F, S, ss)
  BY JointsExist
<1>3. F[0] = <<>> /\ F[0 + 1] = F[0] \o ss[0 + 1]
  <2>1. 0 \in 0 .. Len(ss) /\ 0 < Len(ss)
    BY <1>1
  <2> QED
    BY <1>2, <2>1 DEF Joints
<1>4. F[1] = s
  BY <1>1, <1>3
<1> QED
  BY <1>1, <1>2, <1>4, FlattenIs

\* The whole input is its one message, marshalled.
LEMMA OnePart ==
    ASSUME NEW in \in Inputs, in.origin \in {"whole", "cut"}
    PROVE  /\ in.type \in DOMAIN Message /\ IsMessage(in.type, in.parts[1].value)
           /\ Joined(in.type, in.parts) = Marshal(in.type, in.parts[1].value)
           /\ Marshal(in.type, in.parts[1].value) \in Seq(Byte)
           /\ in.origin = "whole" => in.dAtA = Marshal(in.type, in.parts[1].value)
<1>1. /\ in.type \in DOMAIN Message /\ Len(in.parts) = 1 /\ in.parts[1].known
      /\ in.parts \in Seq(Range(in.parts))
      /\ in.origin = "whole" => in.dAtA = Joined(in.type, in.parts)
  BY InputsAssumption
<1>2. DOMAIN in.parts = 1 .. 1 /\ 1 \in DOMAIN in.parts
  BY <1>1
<1>3. IsMessage(in.type, in.parts[1].value)
  BY <1>1, <1>2, InputsAssumption
<1>4. Marshal(in.type, in.parts[1].value) \in Seq(Byte)
  BY <1>1, <1>3, AllSized DEF Sized
<1>5. [i \in DOMAIN in.parts |-> Spelled(in.type, in.parts[i])]
        = <<Marshal(in.type, in.parts[1].value)>>
  <2>1. Spelled(in.type, in.parts[1]) = Marshal(in.type, in.parts[1].value)
    BY <1>1 DEF Spelled
  <2> QED
    BY <1>2, <2>1
<1>6. Joined(in.type, in.parts) = Marshal(in.type, in.parts[1].value)
  BY <1>4, <1>5, FlattenOne DEF Joined
<1> QED
  BY <1>1, <1>3, <1>4, <1>6

\* Marshal fills exactly the buffer that Size allocated, for every message,
\* value and width of a word.
THEOREM SizesAreExact == Spec => []SizeExact
<1>1. IndInv => SizeExact
  <2> SUFFICES ASSUME input \in Inputs, input.origin = "whole"
               PROVE  Size(input.type, input.parts[1].value) = Len(input.dAtA)
    BY DEF IndInv, SizeExact
  <2>1. PICK in \in Inputs : in = input
    OBVIOUS
  <2>2. Size(in.type, in.parts[1].value) = Len(in.dAtA)
    BY <2>1, OnePart, AllSized DEF Sized
  <2> QED
    BY <2>1, <2>2
<1> QED
  BY <1>1, Framed, PTL

-----------------------------------------------------------------------------
(***************************************************************************)
(* What a sequence of bytes stands for: reading it on top of a message a   *)
(* gives b.  It is a sequence of fields, and the relation is the largest   *)
(* one in which every field leads to the next.                             *)
(***************************************************************************)
\* A message x met while m is read on top of a: some fields are merged, then
\* there may be one that has got its first elements, the others are a's.
Begun(row, a, m, x) ==
    LET f == row.field IN
    \/ x[f] = a[f]
    \/ row.kind = "rep" /\ \E j \in 0 .. Len(m[f]) : x[f] = a[f] \o SubSeq(m[f], 1, j)

Between(t, a, m, x) ==
    LET U == Message[t].Unmarshal
        F(i) == U[i].field
    IN  \E k \in 1 .. Len(U) + 1 :
          /\ \A i \in 1 .. Len(U) : i < k => x[F(i)] = Merge(t, a, m)[F(i)]
          /\ \A i \in 1 .. Len(U) : i > k => x[F(i)] = a[F(i)]
          /\ k <= Len(U) => Begun(U[k], a, m, x)

\* q names such a and m, or asks for nothing.
Fits(q, x) == q = <<>> \/ Between(q[1], q[2], q[3], x)

Tag(row) == 8 * row.num + row.wireType

\* One field: a number, bytes, or one that the message does not have.
Plain(t, chunk, a, x) ==
    \/ UnknownField(t, chunk) /\ x = a
    \/ \E row \in Rows(t), w \in 0 .. Two[WordBits] - 1 :
         /\ row.kind \in {"uint", "int", "flag"}
         /\ chunk = <<Tag(row)>> \o encodeVarint(w)
         /\ x = Put(a, row.field, Number(row, w))
    \/ \E row \in Rows(t), bytes \in Seq(Byte) :
         /\ row.kind = "raw" /\ chunk = Delimited(Tag(row), bytes)
         /\ x = Put(a, row.field, bytes)

\* One field: a message, whose bytes lead from y to z.
Holds(t, chunk, a, x, row, body, y, z) ==
    /\ row \in Rows(t) /\ Embeds(row) /\ body \in Seq(Byte)
    /\ chunk = Delimited(Tag(row), body) /\ y = Filled(row, a[row.field])
    /\ x = Put(a, row.field, Stored(row, a[row.field], z))

Leads(D, q, t, s, a, b) ==
    \/ s = <<>> /\ a = b
    \/ \E chunk \in Seq(Byte), rest \in Seq(Byte) : \E x :
         /\ s = chunk \o rest /\ <<q, t, rest, x, b>> \in D
         /\ \/ Plain(t, chunk, a, x)
            \/ \E row, body, y, z : /\ Holds(t, chunk, a, x, row, body, y, z)
                                    /\ <<<<>>, row.type, body, y, z>> \in D

Consistent(D) == \A q, t, s, a, b : <<q, t, s, a, b>> \in D =>
                   s \in Seq(Byte) /\ Fits(q, a) /\ Leads(D, q, t, s, a, b)

Decodes(q, t, s, a, b) == \E D : Consistent(D) /\ <<q, t, s, a, b>> \in D

LEMMA LeadsMore ==
    ASSUME NEW D, NEW E, D \subseteq E, NEW q, NEW t, NEW s, NEW a, NEW b,
           Leads(D, q, t, s, a, b)
    PROVE  Leads(E, q, t, s, a, b)
<1>1. CASE s = <<>> /\ a = b
  BY <1>1 DEF Leads
<1>2. ASSUME NEW chunk \in Seq(Byte), NEW rest \in Seq(Byte), NEW x,
             s = chunk \o rest, <<q, t, rest, x, b>> \in D,
             \/ Plain(t, chunk, a, x)
             \/ \E row, body, y, z : /\ Holds(t, chunk, a, x, row, body, y, z)
                                     /\ <<<<>>, row.type, body, y, z>> \in D
      PROVE  Leads(E, q, t, s, a, b)
  <2>1. <<q, t, rest, x, b>> \in E
    BY <1>2
  <2>2. \/ Plain(t, chunk, a, x)
        \/ \E row, body, y, z : /\ Holds(t, chunk, a, x, row, body, y, z)
                                /\ <<<<>>, row.type, body, y, z>> \in E
    BY <1>2, Zenon
  <2> QED
    BY <1>2, <2>1, <2>2, Zenon DEF Leads
<1> QED
  BY <1>1, <1>2, Zenon DEF Leads

LEMMA ConsistentUnion ==
    ASSUME NEW D, NEW E, Consistent(D), Consistent(E)
    PROVE  Consistent(D \cup E)
<1> SUFFICES ASSUME NEW q, NEW t, NEW s, NEW a, NEW b, <<q, t, s, a, b>> \in D \cup E
             PROVE  s \in Seq(Byte) /\ Fits(q, a) /\ Leads(D \cup E, q, t, s, a, b)
  BY Zenon DEF Consistent
<1>1. PICK F : F \subseteq D \cup E /\ Consistent(F) /\ <<q, t, s, a, b>> \in F
  BY Zenon
<1>2. s \in Seq(Byte) /\ Fits(q, a) /\ Leads(F, q, t, s, a, b)
  BY <1>1, Zenon DEF Consistent
<1> QED
  BY <1>1, <1>2, LeadsMore, Zenon

LEMMA TupleIs ==
    ASSUME NEW q, NEW t, NEW s, NEW a, NEW b, NEW q1, NEW t1, NEW s1, NEW a1, NEW b1,
           <<q, t, s, a, b>> = <<q1, t1, s1, a1, b1>>
    PROVE  q = q1 /\ t = t1 /\ s = s1 /\ a = a1 /\ b = b1
OBVIOUS

LEMMA ConsistentOne ==
    ASSUME NEW D, Consistent(D), NEW q, NEW t, NEW s \in Seq(Byte), NEW a, NEW b, Fits(q, a),
           Leads(D \cup {<<q, t, s, a, b>>}, q, t, s, a, b)
    PROVE  Consistent(D \cup {<<q, t, s, a, b>>})
<1> DEFINE E == D \cup {<<q, t, s, a, b>>}
<1> SUFFICES ASSUME NEW q1, NEW t1, NEW s1, NEW a1, NEW b1, <<q1, t1, s1, a1, b1>> \in E
             PROVE  s1 \in Seq(Byte) /\ Fits(q1, a1) /\ Leads(E, q1, t1, s1, a1, b1)
  BY Zenon DEF Consistent
<1>1. CASE <<q1, t1, s1, a1, b1>> \in D
  <2>1. s1 \in Seq(Byte) /\ Fits(q1, a1) /\ Leads(D, q1, t1, s1, a1, b1)
    BY <1>1, Zenon DEF Consistent
  <2>2. D \subseteq E
    OBVIOUS
  <2> QED
    BY <2>1, <2>2, LeadsMore, Zenon
<1>2. CASE <<q1, t1, s1, a1, b1>> = <<q, t, s, a, b>>
  BY <1>2, TupleIs, Zenon
<1> QED
  BY <1>1, <1>2

LEMMA DecodesEmpty ==
    ASSUME NEW q, NEW t, NEW a, Fits(q, a)
    PROVE  Decodes(q, t, <<>>, a, a)
<1>1. Consistent({})
  BY DEF Consistent
<1>2. Leads({} \cup {<<q, t, <<>>, a, a>>}, q, t, <<>>, a, a)
  BY DEF Leads
<1>3. Consistent({} \cup {<<q, t, <<>>, a, a>>})
  <2>1. <<>> \in Seq(Byte)
    OBVIOUS
  <2> QED
    BY <1>1, <1>2, <2>1, ConsistentOne, Zenon
<1> QED
  BY <1>3, Zenon DEF Decodes

LEMMA DecodesTyped ==
    ASSUME NEW q, NEW t, NEW s, NEW a, NEW b, Decodes(q, t, s, a, b)
    PROVE  s \in Seq(Byte) /\ Fits(q, a)
BY Zenon DEF Decodes, Consistent

\* How it goes on.
Continues(q, t, s, a, b) ==
    \E chunk \in Seq(Byte), rest \in Seq(Byte) : \E x :
      /\ s = chunk \o rest /\ Decodes(q, t, rest, x, b)
      /\ \/ Plain(t, chunk, a, x)
         \/ \E row, body, y, z : /\ Holds(t, chunk, a, x, row, body, y, z)
                                 /\ Decodes(<<>>, row.type, body, y, z)

LEMMA DecodesGoesOn ==
    ASSUME NEW q, NEW t, NEW s, NEW a, NEW b, Decodes(q, t, s, a, b)
    PROVE  (s = <<>> /\ a = b) \/ Continues(q, t, s, a, b)
<1>1. PICK D : Consistent(D) /\ <<q, t, s, a, b>> \in D
  BY Zenon DEF Decodes
<1>2. Leads(D, q, t, s, a, b)
  BY <1>1, Zenon DEF Consistent
<1>3. \A q1, t1, s1, a1, b1 : <<q1, t1, s1, a1, b1>> \in D => Decodes(q1, t1, s1, a1, b1)
  BY <1>1, Zenon DEF Decodes
<1>4. CASE s = <<>> /\ a = b
  BY <1>4
<1>5. ASSUME NEW chunk \in Seq(Byte), NEW rest \in Seq(Byte), NEW x,
             s = chunk \o rest, <<q, t, rest, x, b>> \in D,
             \/ Plain(t, chunk, a, x)
             \/ \E row, body, y, z : /\ Holds(t, chunk, a, x, row, body, y, z)
                                     /\ <<<<>>, row.type, body, y, z>> \in D
      PROVE  Continues(q, t, s, a, b)
  <2>1. Decodes(q, t, rest, x, b)
    BY <1>3, <1>5, Zenon
  <2>2. \/ Plain(t, chunk, a, x)
        \/ \E row, body, y, z : /\ Holds(t, chunk, a, x, row, body, y, z)
                                /\ Decodes(<<>>, row.type, body, y, z)
    BY <1>3, <1>5, Zenon
  <2> QED
    BY <1>5, <2>1, <2>2, Zenon DEF Continues
<1> QED
  BY <1>2, <1>4, <1>5, Zenon DEF Leads

LEMMA DecodesContinued ==
    ASSUME NEW q, NEW t, NEW s, NEW a, NEW b, Fits(q, a), Continues(q, t, s, a, b)
    PROVE  Decodes(q, t, s, a, b)
<1>1. PICK chunk, rest, x :
      /\ chunk \in Seq(Byte) /\ rest \in Seq(Byte)
      /\ s = chunk \o rest /\ Decodes(q, t, rest, x, b)
      /\ \/ Plain(t, chunk, a, x)
         \/ \E row, body, y, z : /\ Holds(t, chunk, a, x, row, body, y, z)
                                 /\ Decodes(<<>>, row.type, body, y, z)
  BY Zenon DEF Continues
<1>2. PICK D : Consistent(D) /\ <<q, t, rest, x, b>> \in D
  BY <1>1, Zenon DEF Decodes
<1>3. PICK E : /\ Consistent(E)
               /\ \/ Plain(t, chunk, a, x)
                  \/ \E row, body, y, z : /\ Holds(t, chunk, a, x, row, body, y, z)
                                          /\ <<<<>>, row.type, body, y, z>> \in E
  <2>1. CASE Plain(t, chunk, a, x)
    BY <1>2, <2>1, Zenon
  <2>2. CASE \E row, body, y, z : /\ Holds(t, chunk, a, x, row, body, y, z)
                                  /\ Decodes(<<>>, row.type, body, y, z)
    BY <2>2, Zenon DEF Decodes
  <2> QED
    BY <1>1, <2>1, <2>2
<1>4. Consistent(D \cup E)
  BY <1>2, <1>3, ConsistentUnion
<1>5. s \in Seq(Byte)
  BY <1>1
<1> DEFINE G == (D \cup E) \cup {<<q, t, s, a, b>>}
<1>6. Leads(G, q, t, s, a, b)
  <2>1. <<q, t, rest, x, b>> \in G
    BY <1>2
  <2>2. E \subseteq G
    OBVIOUS
  <2> HIDE DEF G
  <2>3. \/ Plain(t, chunk, a, x)
        \/ \E row, body, y, z : /\ Holds(t, chunk, a, x, row, body, y, z)
                                /\ <<<<>>, row.type, body, y, z>> \in G
    BY <1>3, <2>2, Zenon
  <2> QED
    BY <1>1, <2>1, <2>3, Zenon DEF Leads
<1>7. Consistent(G)
  BY <1>4, <1>5, <1>6, ConsistentOne
<1>8. <<q, t, s, a, b>> \in G
  OBVIOUS
<1> HIDE DEF G
<1> QED
  BY <1>7, <1>8, Zenon DEF Decodes

\* One after the other.
LEMMA DecodesJoin ==
    ASSUME NEW q, NEW t, NEW s, NEW u, NEW a, NEW b, NEW c,
           Decodes(q, t, s, a, b), Decodes(q, t, u, b, c)
    PROVE  Decodes(q, t, s \o u, a, c)
<1>1. PICK D : Consistent(D) /\ <<q, t, s, a, b>> \in D
  BY Zenon DEF Decodes
<1>2. PICK E : Consistent(E) /\ <<q, t, u, b, c>> \in E
  BY Zenon DEF Decodes
<1>3. u \in Seq(Byte) /\ s \in Seq(Byte)
  BY DecodesTyped
<1> DEFINE Rest == {p \in Seq(Byte) \X {y[4] : y \in D} : <<q, t, p[1], p[2], b>> \in D}
           J == {<<q, t, p[1] \o u, p[2], c>> : p \in Rest}
           G == D \cup E \cup J
<1>4. ASSUME NEW v, NEW x, <<q, t, v, x, b>> \in D
      PROVE  <<q, t, v \o u, x, c>> \in J
  <2>1. v \in Seq(Byte)
    BY <1>1, <1>4, Zenon DEF Consistent
  <2>2. x \in {y[4] : y \in D}
    <3>1. <<q, t, v, x, b>>[4] = x
      OBVIOUS
    <3> QED
      BY <1>4, <3>1
  <2>3. <<v, x>> \in Rest /\ <<v, x>>[1] = v /\ <<v, x>>[2] = x
    BY <1>4, <2>1, <2>2
  <2> HIDE DEF Rest
  <2> QED
    BY <2>3
<1>5. ASSUME NEW d \in J
      PROVE  \E v \in Seq(Byte) : \E x : d = <<q, t, v \o u, x, c>> /\ <<q, t, v, x, b>> \in D
  OBVIOUS
<1>6. D \subseteq G /\ E \subseteq G /\ J \subseteq G
  OBVIOUS
<1>7. ASSUME NEW q1, NEW t1, NEW s1, NEW a1, NEW b1, <<q1, t1, s1, a1, b1>> \in G
      PROVE  s1 \in Seq(Byte) /\ Fits(q1, a1) /\ Leads(G, q1, t1, s1, a1, b1)
  <2>1. CASE <<q1, t1, s1, a1, b1>> \in D
    <3>1. s1 \in Seq(Byte) /\ Fits(q1, a1) /\ Leads(D, q1, t1, s1, a1, b1)
      BY <1>1, <2>1, Zenon DEF Consistent
    <3> HIDE DEF G
    <3> QED
      BY <1>6, <3>1, LeadsMore, Zenon
  <2>2. CASE <<q1, t1, s1, a1, b1>> \in E
    <3>1. s1 \in Seq(Byte) /\ Fits(q1, a1) /\ Leads(E, q1, t1, s1, a1, b1)
      BY <1>2, <2>2, Zenon DEF Consistent
    <3> HIDE DEF G
    <3> QED
      BY <1>6, <3>1, LeadsMore, Zenon
  <2>3. CASE <<q1, t1, s1, a1, b1>> \in J
    <3>1. PICK v, x : /\ v \in Seq(Byte) /\ <<q1, t1, s1, a1, b1>> = <<q, t, v \o u, x, c>>
                    /\ <<q, t, v, x, b>> \in D
      BY <1>5, <2>3, Zenon
    <3>2. q1 = q /\ t1 = t /\ s1 = v \o u /\ a1 = x /\ b1 = c
      BY <3>1, TupleIs, Zenon
    <3>3. Fits(q, x) /\ Leads(D, q, t, v, x, b)
      BY <1>1, <3>1, Zenon DEF Consistent
    <3>4. v \o u \in Seq(Byte)
      BY <1>3, <3>1
    <3> HIDE DEF G, J
    <3>5. CASE v = <<>> /\ x = b
      <4>1. v \o u = u
        BY <1>3, <3>5
      <4>2. Leads(E, q, t, u, b, c)
        BY <1>2, Zenon DEF Consistent
      <4>3. Leads(G, q, t, u, b, c)
        BY <1>6, <4>2, LeadsMore, Zenon
      <4> QED
        BY <3>2, <3>3, <3>4, <3>5, <4>1, <4>3, Zenon
    <3>6. ASSUME NEW chunk \in Seq(Byte), NEW rest \in Seq(Byte), NEW y,
             v = chunk \o rest, <<q, t, rest, y, b>> \in D,
             \/ Plain(t, chunk, x, y)
             \/ \E row, body, k, z : /\ Holds(t, chunk, x, y, row, body, k, z)
                                     /\ <<<<>>, row.type, body, k, z>> \in D
          PROVE  Leads(G, q, t, v \o u, x, c)
      <4>1. <<q, t, rest \o u, y, c>> \in G
        BY <1>4, <1>6, <3>6, Zenon
      <4>2. \/ Plain(t, chunk, x, y)
            \/ \E row, body, k, z : /\ Holds(t, chunk, x, y, row, body, k, z)
                                    /\ <<<<>>, row.type, body, k, z>> \in G
        BY <1>6, <3>6, Zenon
      <4>3. v \o u = chunk \o (rest \o u)
        <5>1. \A f, g, h \in Seq(Byte) : (f \o g) \o h = f \o (g \o h)
          BY SMTT(40)
        <5>2. (chunk \o rest) \o u = chunk \o (rest \o u)
          BY <1>3, <3>6, <5>1, ZenonT(60)
        <5> QED
          BY <3>6, <5>2, Zenon
      <4>4. rest \o u \in Seq(Byte)
        BY <1>3
      <4> QED
        BY <4>1, <4>2, <4>3, <4>4, Zenon DEF Leads
    <3>7. Leads(G, q, t, v \o u, x, c) \/ (v = <<>> /\ x = b)
      BY <3>3, <3>6, Zenon DEF Leads
    <3> QED
      BY <3>2, <3>3, <3>4, <3>5, <3>7, Zenon
  <2> QED
    BY <1>7, <2>1, <2>2, <2>3
<1> HIDE DEF G, J
<1>8. Consistent(G)
  BY <1>7, Zenon DEF Consistent
<1>9. <<q, t, s \o u, a, c>> \in G
  BY <1>1, <1>4, <1>6, Zenon
<1> QED
  BY <1>8, <1>9, Zenon DEF Decodes

-----------------------------------------------------------------------------
(***************************************************************************)
(* Merging messages.                                                       *)
(***************************************************************************)
\* A field of a zero message, of a merge, and what makes up a message.
LEMMA ZeroAt ==
    ASSUME NEW t \in DOMAIN Message, NEW i \in DOMAIN Message[t].Unmarshal
    PROVE  LET u == Message[t].Unmarshal[i] IN Zero(t)[u.field] = ZeroOf(u)
<1>1. PICK u : u = Message[t].Unmarshal[i]
  OBVIOUS
<1>2. u.field \in Fields(t) /\ RowOf(Message[t].Unmarshal, u.field) = u
  BY <1>1, Tables, ZenonT(60)
<1> QED
  BY <1>1, <1>2, ZeroIs

LEMMA MergeAt ==
    ASSUME NEW t \in DOMAIN Message, NEW i \in DOMAIN Message[t].Unmarshal, NEW a, NEW b
    PROVE  LET u == Message[t].Unmarshal[i]
           IN  Merge(t, a, b)[u.field] = MergeOf(t, u, a[u.field], b[u.field])
<1>1. PICK u : u = Message[t].Unmarshal[i]
  OBVIOUS
<1>2. u.field \in Fields(t) /\ RowOf(Message[t].Unmarshal, u.field) = u
  BY <1>1, Tables, ZenonT(60)
<1> QED
  BY <1>1, <1>2, MergeIs

\* Two functions of the fields are equal if they are so row by row.
LEMMA SameFields ==
    ASSUME NEW t \in DOMAIN Message, NEW a, NEW b,
           a = [f \in Fields(t) |-> a[f]], b = [f \in Fields(t) |-> b[f]],
           \A i \in DOMAIN Message[t].Unmarshal :
             a[Message[t].Unmarshal[i].field] = b[Message[t].Unmarshal[i].field]
    PROVE  a = b
<1>1. \A f \in Fields(t) : a[f] = b[f]
  <2> SUFFICES ASSUME NEW f \in Fields(t) PROVE a[f] = b[f]
    OBVIOUS
  <2>1. PICK i \in DOMAIN Message[t].Unmarshal : f = Message[t].Unmarshal[i].field
    BY Tables
  <2> QED
    BY <2>1, Zenon
<1> QED
  BY <1>1

LEMMA IsMessageRows ==
    ASSUME NEW t \in DOMAIN Message, NEW m
    PROVE  IsMessage(t, m) <=>
             /\ m = [f \in Fields(t) |-> m[f]]
             /\ \A i \in DOMAIN Message[t].Unmarshal :
                  LET u == Message[t].Unmarshal[i] IN TypeOf(u, m[u.field])
<1> DEFINE U == Message[t].Unmarshal
           A == m = [f \in Fields(t) |-> m[f]]
<1>1. \A row \in Rows(t) : \E i \in DOMAIN U : row = U[i]
  BY Tables
<1>2. \A i \in DOMAIN U : U[i] \in Rows(t)
  BY Tables, ZenonT(60)
<1>3. IsMessage(t, m) <=> A /\ \A row \in Rows(t) : TypeOf(row, m[row.field])
  BY IsMessageIs
<1> HIDE DEF U, A
<1>4. (\A row \in Rows(t) : TypeOf(row, m[row.field])) <=>
        \A i \in DOMAIN U : TypeOf(U[i], m[U[i].field])
  BY <1>1, <1>2, Zenon
<1> QED
  BY <1>3, <1>4, Zenon DEF U, A

\* The zero message is one, merging into it gives the message, and a merge is a
\* message.
Merges(t) ==
    /\ IsMessage(t, Zero(t))
    /\ \A m : IsMessage(t, m) => Merge(t, Zero(t), m) = m
    /\ \A a, m : IsMessage(t, a) /\ IsMessage(t, m) => IsMessage(t, Merge(t, a, m))

LEMMA ZeroTyped ==
    ASSUME NEW w, NEW c, NEW u, RowAgrees(w, c, u), Embeds(u) => Merges(u.type)
    PROVE  TypeOf(u, ZeroOf(u))
<1>1. CASE u.kind \in {"uint", "int"}
  <2>1. u.bits \in 1 .. WordBits
    BY <1>1, WidthsAssumption DEF RowAgrees
  <2>2. PICK h \in Nat, k \in Nat : /\ h = Two[u.bits - 1] /\ k = Two[u.bits] /\ h > 0 /\ k > 0
    BY <2>1, Halves
  <2>3. 0 \in 0 .. k - 1 /\ 0 \in -h .. h - 1
    BY <2>2
  <2>4. ZeroOf(u) = 0
    BY <1>1 DEF ZeroOf
  <2>5. CASE u.kind = "uint"
    <3>1. ZeroOf(u) \in 0 .. Two[u.bits] - 1
      BY <2>2, <2>3, <2>4
    <3> QED
      BY <2>5, <3>1 DEF TypeOf
  <2>6. CASE u.kind = "int"
    <3>1. ZeroOf(u) \in -Two[u.bits - 1] .. Two[u.bits - 1] - 1
      BY <2>2, <2>3, <2>4
    <3> QED
      BY <2>6, <3>1 DEF TypeOf
  <2> QED
    BY <1>1, <2>5, <2>6
<1>2. CASE u.kind \in {"flag", "raw"}
  <2>1. CASE u.kind = "flag"
    <3>1. ZeroOf(u) = FALSE
      BY <2>1, Zenon DEF ZeroOf
    <3>2. ZeroOf(u) \in BOOLEAN
      BY <3>1, Zenon
    <3> QED
      BY <2>1, <3>2 DEF TypeOf
  <2>2. CASE u.kind = "raw"
    <3>1. ZeroOf(u) \in Seq(Byte)
      BY <2>2 DEF ZeroOf
    <3> QED
      BY <2>2, <3>1 DEF TypeOf
  <2> QED
    BY <1>2, <2>1, <2>2
<1>3. CASE u.kind = "sub"
  <2>1. ZeroOf(u) = Zero(u.type) /\ IsMessage(u.type, Zero(u.type))
    BY <1>3 DEF ZeroOf, Merges, Embeds
  <2>2. IsMessage(u.type, ZeroOf(u))
    BY <2>1
  <2> QED
    BY <1>3, <2>2 DEF TypeOf
<1>4. CASE u.kind \in {"ptr", "rep"}
  <2>1. PICK z : z = <<>> /\ z \in Seq(Range(z)) /\ Len(z) <= 1 /\ DOMAIN z = {}
    <3>1. \A S : <<>> \in Seq(S)
      OBVIOUS
    <3>2. Len(<<>>) <= 1 /\ DOMAIN <<>> = {}
      OBVIOUS
    <3> QED
      BY <3>1, <3>2, Zenon
  <2>2. ZeroOf(u) = z
    BY <1>4, <2>1 DEF ZeroOf
  <2>3. TypeOf(u, z)
    BY <1>4, <2>1 DEF TypeOf
  <2> QED
    BY <2>2, <2>3
<1> QED
  BY <1>1, <1>2, <1>3, <1>4 DEF RowAgrees

LEMMA ZeroMerged ==
    ASSUME NEW w, NEW c, NEW u, RowAgrees(w, c, u), Embeds(u) => Merges(u.type),
           NEW t, Zero(t)[u.field] = ZeroOf(u), NEW y, TypeOf(u, y)
    PROVE  MergeOf(t, u, ZeroOf(u), y) = y
<1>1. CASE u.kind \in {"uint", "int", "flag", "raw"}
  BY <1>1 DEF MergeOf
<1>2. CASE u.kind = "sub"
  <2>1. Merges(u.type) /\ ZeroOf(u) = Zero(u.type) /\ IsMessage(u.type, y)
    BY <1>2 DEF Embeds, ZeroOf, TypeOf
  <2> QED
    BY <1>2, <2>1 DEF MergeOf, Merges
<1>3. CASE u.kind = "ptr"
  <2>1. ZeroOf(u) = <<>>
    BY <1>3 DEF ZeroOf
  <2> QED
    BY <1>3, <2>1 DEF MergeOf
<1>4. CASE u.kind = "rep"
  <2>1. ZeroOf(u) = <<>> /\ y \in Seq(Range(y))
    BY <1>4 DEF ZeroOf, TypeOf
  <2>2. <<>> \o y = y
    BY <2>1
  <2> QED
    BY <1>4, <2>1, <2>2 DEF MergeOf
<1> QED
  BY <1>1, <1>2, <1>3, <1>4 DEF RowAgrees

LEMMA MergeTyped ==
    ASSUME NEW w, NEW c, NEW u, RowAgrees(w, c, u), Embeds(u) => Merges(u.type),
           NEW t, NEW x, TypeOf(u, x), NEW y, TypeOf(u, y)
    PROVE  TypeOf(u, MergeOf(t, u, x, y))
<1>1. CASE u.kind \in {"uint", "int", "flag", "raw"}
  <2>1. MergeOf(t, u, x, y) = x \/ MergeOf(t, u, x, y) = y
    BY <1>1 DEF MergeOf
  <2> QED
    BY <2>1
<1>2. CASE u.kind = "sub"
  <2>1. Merges(u.type) /\ IsMessage(u.type, x) /\ IsMessage(u.type, y)
    BY <1>2 DEF Embeds, TypeOf
  <2>2. IsMessage(u.type, Merge(u.type, x, y))
    BY <2>1 DEF Merges
  <2> QED
    BY <1>2, <2>2 DEF MergeOf, TypeOf
<1>3. CASE u.kind = "ptr"
  <2>0. x \in Seq(Range(x)) /\ y \in Seq(Range(y))
    BY <1>3 DEF TypeOf
  <2>1. CASE x # <<>> /\ y # <<>>
    <3>1. 1 \in DOMAIN x /\ 1 \in DOMAIN y
      BY <2>0, <2>1
    <3>2. Merges(u.type) /\ IsMessage(u.type, x[1]) /\ IsMessage(u.type, y[1])
      BY <1>3, <3>1 DEF Embeds, TypeOf
    <3>3. PICK z : z = Merge(u.type, x[1], y[1]) /\ IsMessage(u.type, z)
      BY <3>2 DEF Merges
    <3>4. <<z>> \in Seq(Range(<<z>>)) /\ Len(<<z>>) <= 1 /\ \A i \in DOMAIN <<z>> : <<z>>[i] = z
      BY DEF Range
    <3>5. MergeOf(t, u, x, y) = <<z>>
      BY <1>3, <2>1, <3>3 DEF MergeOf
    <3> QED
      BY <1>3, <3>3, <3>4, <3>5 DEF TypeOf
  <2>2. CASE ~ (x # <<>> /\ y # <<>>)
    <3>1. MergeOf(t, u, x, y) = x \/ MergeOf(t, u, x, y) = y
      BY <1>3, <2>2 DEF MergeOf
    <3> QED
      BY <3>1
  <2> QED
    BY <2>1, <2>2
<1>4. CASE u.kind = "rep"
  <2>1. /\ x \in Seq(Range(x)) /\ y \in Seq(Range(y))
        /\ \A i \in DOMAIN x : IsMessage(u.type, x[i])
        /\ \A i \in DOMAIN y : IsMessage(u.type, y[i])
    BY <1>4 DEF TypeOf
  <2>2. PICK S : S = Range(x) \cup Range(y)
    OBVIOUS
  <2>3. PICK z : z = x \o y /\ z \in Seq(S) /\ Len(z) = Len(x) + Len(y)
    <3>1. x \in Seq(S) /\ y \in Seq(S)
      BY <2>1, <2>2
    <3>2. \A p, q \in Seq(S) : p \o q \in Seq(S) /\ Len(p \o q) = Len(p) + Len(q)
      OBVIOUS
    <3> QED
      BY <3>1, <3>2, Zenon
  <2>4. z \in Seq(Range(z))
    BY <2>3, SeqOwn
  <2>5. \A i \in DOMAIN z : IsMessage(u.type, z[i])
    BY <2>1, <2>3
  <2>6. MergeOf(t, u, x, y) = z
    BY <1>4, <2>3 DEF MergeOf
  <2> QED
    BY <1>4, <2>4, <2>5, <2>6 DEF TypeOf
<1> QED
  BY <1>1, <1>2, <1>3, <1>4 DEF RowAgrees

LEMMA MergesStep ==
    ASSUME NEW t \in DOMAIN Message, \A row \in Rows(t) : Embeds(row) => Merges(row.type)
    PROVE  Merges(t)
<1> DEFINE U == Message[t].Unmarshal
           F(i) == U[i].field
<1>1. \A i \in DOMAIN U : \E w, c : /\ RowAgrees(w, c, U[i]) /\ (Embeds(U[i]) => Merges(U[i].type))
                                    /\ Zero(t)[F(i)] = ZeroOf(U[i])
  <2> SUFFICES ASSUME NEW i \in DOMAIN U
               PROVE  \E w, c : /\ RowAgrees(w, c, U[i]) /\ (Embeds(U[i]) => Merges(U[i].type))
                                /\ Zero(t)[F(i)] = ZeroOf(U[i])
    OBVIOUS
  <2>1. U[i] \in Rows(t) /\ \E w, c : RowAgrees(w, c, U[i])
    BY Tables, ZenonT(60)
  <2>2. Zero(t)[F(i)] = ZeroOf(U[i])
    BY ZeroAt
  <2> QED
    BY <2>1, <2>2, Zenon
<1>2. Zero(t) = [f \in Fields(t) |-> Zero(t)[f]]
  BY ZeroIs
<1>3. IsMessage(t, Zero(t))
  <2>1. \A i \in DOMAIN U : TypeOf(U[i], Zero(t)[F(i)])
    BY <1>1, ZeroTyped, ZenonT(60)
  <2> QED
    BY <1>2, <2>1, IsMessageRows
<1>4. ASSUME NEW a, NEW m
      PROVE  Merge(t, a, m) = [f \in Fields(t) |-> Merge(t, a, m)[f]]
  BY MergeIs
<1>5. ASSUME NEW a, NEW m, NEW i \in DOMAIN U
      PROVE  Merge(t, a, m)[F(i)] = MergeOf(t, U[i], a[F(i)], m[F(i)])
  BY MergeAt
<1>6. ASSUME NEW m, IsMessage(t, m)
      PROVE  Merge(t, Zero(t), m) = m
  <2>1. /\ m = [f \in Fields(t) |-> m[f]]
        /\ \A i \in DOMAIN U : TypeOf(U[i], m[F(i)])
    BY <1>6, IsMessageRows
  <2>2. \A i \in DOMAIN U : Merge(t, Zero(t), m)[F(i)] = m[F(i)]
    <3> SUFFICES ASSUME NEW i \in DOMAIN U PROVE Merge(t, Zero(t), m)[F(i)] = m[F(i)]
      OBVIOUS
    <3>1. PICK w, c : /\ RowAgrees(w, c, U[i]) /\ (Embeds(U[i]) => Merges(U[i].type))
                      /\ Zero(t)[F(i)] = ZeroOf(U[i])
      BY <1>1
    <3>2. TypeOf(U[i], m[F(i)])
      BY <2>1
    <3>3. MergeOf(t, U[i], ZeroOf(U[i]), m[F(i)]) = m[F(i)]
      BY <3>1, <3>2, ZeroMerged
    <3>4. Merge(t, Zero(t), m)[F(i)] = MergeOf(t, U[i], Zero(t)[F(i)], m[F(i)])
      BY <1>5
    <3> HIDE DEF F, U
    <3> QED
      BY <3>1, <3>3, <3>4
  <2> QED
    BY <1>4, <2>1, <2>2, SameFields
<1>7. ASSUME NEW a, NEW m, IsMessage(t, a), IsMessage(t, m)
      PROVE  IsMessage(t, Merge(t, a, m))
  <2>1. \A i \in DOMAIN U : TypeOf(U[i], a[F(i)]) /\ TypeOf(U[i], m[F(i)])
    BY <1>7, IsMessageRows
  <2>2. \A i \in DOMAIN U : TypeOf(U[i], Merge(t, a, m)[F(i)])
    <3> SUFFICES ASSUME NEW i \in DOMAIN U PROVE TypeOf(U[i], Merge(t, a, m)[F(i)])
      OBVIOUS
    <3>1. PICK w, c : RowAgrees(w, c, U[i]) /\ (Embeds(U[i]) => Merges(U[i].type))
      BY <1>1
    <3>2. TypeOf(U[i], MergeOf(t, U[i], a[F(i)], m[F(i)]))
      BY <2>1, <3>1, MergeTyped
    <3> QED
      BY <1>5, <3>2, ZenonT(60)
  <2> QED
    BY <1>4, <2>2, IsMessageRows
<1> QED
  BY <1>3, <1>6, <1>7, Zenon DEF Merges

LEMMA AllMerge == \A t \in DOMAIN Message : Merges(t)
<1>1. \A t \in DOMAIN Message : Flat(t) => Merges(t)
  BY MergesStep DEF Flat
<1>2. \A t \in DOMAIN Message : Shallow(t) => Merges(t)
  BY <1>1, MergesStep, Levels DEF Shallow
<1> QED
  BY <1>2, MergesStep, Levels

-----------------------------------------------------------------------------
(***************************************************************************)
(* A field is read as it was written.                                      *)
(***************************************************************************)
\* A signed number survives the way through a word.
LEMMA SignedTrip ==
    ASSUME NEW bits \in 1 .. WordBits, NEW v \in Int,
           v \in -Two[bits - 1] .. Two[bits - 1] - 1
    PROVE  ToInt(v % Two[WordBits], bits) = v
<1>1. PICK h \in Nat, d \in Nat : h = Two[bits - 1] /\ d = Two[bits] /\ d = 2 * h /\ h > 0
  BY Halves
<1>2. PICK k \in Nat : k > 0 /\ Two[WordBits] = d * k
  <2>1. bits \in Nat /\ WordBits - bits \in Nat /\ bits + (WordBits - bits) = WordBits
    BY WidthsAssumption
  <2>2. Two[WordBits - bits] \in Nat /\ Two[WordBits - bits] > 0
    BY <2>1, TwoNat, WidthsAssumption
  <2>3. Two[bits + (WordBits - bits)] = Two[bits] * Two[WordBits - bits]
    BY <2>1, TwoSums, WidthsAssumption
  <2> QED
    BY <1>1, <2>1, <2>2, <2>3
<1>3. (v % Two[WordBits]) % d = v % d
  <2>1. (v % (d * k)) % d = v % d
    <3>1. d > 0
      BY <1>1
    <3> QED
      BY <1>2, <3>1, ModInside
  <2> QED
    BY <1>2, <2>1, Zenon
<1>4. v % d = IF v >= 0 THEN v ELSE v + d
  <2>1. CASE v >= 0
    <3>1. v \in 0 .. d - 1
      BY <1>1, <2>1
    <3> QED
      BY <1>1, <2>1, <3>1, Small
  <2>2. CASE v < 0
    <3>1. v + d \in 0 .. d - 1 /\ d > 0
      BY <1>1, <2>2
    <3>2. (d * (-1) + (v + d)) % d = v + d
      <4>1. PICK q \in Int, r \in 0 .. d - 1 : q = -1 /\ r = v + d
        BY <3>1
      <4>2. (d * q + r) % d = r
        BY <3>1, DivisionUnique
      <4> QED
        BY <4>1, <4>2, Zenon
    <3>3. d * (-1) + (v + d) = v
      BY <1>1
    <3> QED
      BY <2>2, <3>2, <3>3
  <2> QED
    BY <2>1, <2>2
<1>5. ToInt(v % Two[WordBits], bits) = IF v % d < h THEN v % d ELSE (v % d) - d
  BY <1>1, <1>3 DEF ToInt
<1> QED
  BY <1>1, <1>4, <1>5

LEMMA NumberTrip ==
    ASSUME NEW u, u.kind \in {"uint", "int"}, u.bits \in {IntBits, WordBits},
           NEW v, TypeOf(u, v)
    PROVE  v \in Int /\ Number(u, v % Two[WordBits]) = v
<1>1. u.bits \in 1 .. WordBits
  BY WidthsAssumption
<1>2. PICK b \in 1 .. WordBits : b = u.bits
  BY <1>1
<1>3. CASE u.kind = "uint"
  <2>1. PICK d \in Nat, e \in Nat : d = Two[b] /\ e = Two[WordBits] /\ d <= e
    BY TwoNat, TwoGrows, WidthsAssumption
  <2>2. v \in 0 .. d - 1
    BY <1>2, <1>3, <2>1 DEF TypeOf
  <2>3. v \in 0 .. e - 1
    BY <2>1, <2>2
  <2>4. v % e = v /\ v % d = v
    BY <2>2, <2>3, Small
  <2>5. Number(u, v % e) = (v % e) % d
    BY <1>2, <1>3, <2>1 DEF Number
  <2> QED
    BY <2>1, <2>3, <2>4, <2>5
<1>4. CASE u.kind = "int"
  <2>1. PICK h \in Nat : h = Two[b - 1]
    BY Halves
  <2>2. v \in -h .. h - 1
    BY <1>2, <1>4, <2>1 DEF TypeOf
  <2>3. v \in Int
    BY <2>2
  <2>4. ToInt(v % Two[WordBits], b) = v
    BY <2>1, <2>2, <2>3, SignedTrip
  <2>5. Number(u, v % Two[WordBits]) = ToInt(v % Two[WordBits], b)
    BY <1>2, <1>4 DEF Number
  <2> QED
    BY <2>3, <2>4, <2>5
<1> QED
  BY <1>3, <1>4

\* The varint of a flag.
LEMMA EncodeOne == encodeVarint(1) = <<1>> /\ 1 \in 0 .. Two[WordBits] - 1
<1>1. 1 \in 0 .. Two[WordBits] - 1
  <2>1. Two[7] <= Two[WordBits] /\ Two[WordBits] \in Nat
    BY TwoGrows, TwoNat, WidthsAssumption
  <2> QED
    BY <2>1, TwoOfSeven
<1>2. PICK n \in Nat : 
             /\ n = sov(1) /\ n >= 1
             /\ encodeVarint(1) \in Seq(Byte) /\ Len(encodeVarint(1)) = n
             /\ encodeVarint(1)[n] = Left(1, n - 1)
  BY <1>1, EncodeIs
<1>3. Left(1, 0) = 1
  BY TwoOfSeven DEF Left
<1>4. n = 1
  <2>1. \A k \in Rounds(1) : sov(1) - 1 <= k
    BY <1>1, RoundsAre
  <2>2. 0 \in Rounds(1)
    <3>1. 0 \in 0 .. (WordBits \div 7)
      BY WidthsAssumption
    <3> QED
      BY <1>3, <3>1 DEF Rounds
  <2> QED
    BY <1>2, <2>1, <2>2
<1>5. PICK e : e = encodeVarint(1) /\ e \in Seq(Byte) /\ Len(e) = 1 /\ e[1] = 1
  <2>1. PICK e : e = encodeVarint(1)
    OBVIOUS
  <2>2. e \in Seq(Byte) /\ Len(e) = 1
    BY <1>2, <1>4, <2>1
  <2>3. e[1] = Left(1, 1 - 1)
    BY <1>2, <1>4, <2>1
  <2> QED
    BY <1>3, <2>1, <2>2, <2>3
<1> QED
  BY <1>1, <1>5

\* A single field is decoded.
LEMMA OneField ==
    ASSUME NEW q, NEW t, NEW chunk \in Seq(Byte), NEW a, NEW x, Fits(q, a), Fits(q, x),
           \/ Plain(t, chunk, a, x)
           \/ \E row, body, y, z : /\ Holds(t, chunk, a, x, row, body, y, z)
                                   /\ Decodes(<<>>, row.type, body, y, z)
    PROVE  Decodes(q, t, chunk, a, x)
<1>1. chunk = chunk \o <<>> /\ <<>> \in Seq(Byte)
  OBVIOUS
<1>2. Decodes(q, t, <<>>, x, x)
  BY DecodesEmpty
<1>3. Continues(q, t, chunk, a, x)
  BY <1>1, <1>2, Zenon DEF Continues
<1> QED
  BY <1>3, DecodesContinued

\* Nothing changes when a field is put back.
LEMMA PutBack ==
    ASSUME NEW S, NEW a, a = [g \in S |-> a[g]], NEW f
    PROVE  Put(a, f, a[f]) = a
BY DEF Put

LEMMA DecodesRow ==
    ASSUME NEW q, NEW t, NEW w, NEW c, NEW u, RowAgrees(w, c, u), u \in Rows(t), ~ Embeds(u),
           Zero(t)[u.field] = ZeroOf(u), NEW a, NEW S, a = [g \in S |-> a[g]],
           NEW y, TypeOf(u, y), NEW b, b = Put(a, u.field, MergeOf(t, u, a[u.field], y)),
           Fits(q, a), Fits(q, b)
    PROVE  Decodes(q, t, Encode(w, y), a, b)
<1>1. PICK h \in Byte : w.head = h /\ h = Tag(u)
  BY HeadIs DEF RowAgrees, Tag
<1>2. MergeOf(t, u, a[u.field], y) = IF y = ZeroOf(u) THEN a[u.field] ELSE y
  BY DEF MergeOf, Embeds
<1>3. CASE y = ZeroOf(u)
  <2>1. b = a
    BY <1>2, <1>3, PutBack
  <2>2. Encode(w, y) = <<>>
    <3>1. CASE w.kind = "num"
      BY <1>3, <3>1 DEF RowAgrees, Encode, Written, ZeroOf
    <3>2. CASE w.kind = "flag"
      <4>1. y = FALSE
        BY <1>3, <3>2 DEF RowAgrees, ZeroOf
      <4> QED
        BY <3>2, <4>1 DEF Encode, Written
    <3>3. CASE w.kind = "raw"
      BY <1>3, <3>3 DEF RowAgrees, Encode, Written, ZeroOf
    <3> QED
      BY <3>1, <3>2, <3>3 DEF RowAgrees, Embeds
  <2> QED
    BY <2>1, <2>2, DecodesEmpty
<1>4. CASE y # ZeroOf(u)
  <2>1. b = Put(a, u.field, y)
    BY <1>2, <1>4
  <2>2. Encode(w, y) \in Seq(Byte) /\ Plain(t, Encode(w, y), a, b)
    <3>1. CASE w.kind = "num"
      <4>1. y # 0 /\ u.kind \in {"uint", "int"} /\ u.bits \in {IntBits, WordBits}
        BY <1>4, <3>1 DEF RowAgrees, ZeroOf
      <4>2. y \in Int /\ Number(u, y % Two[WordBits]) = y
        BY <4>1, NumberTrip
      <4>3. PICK k \in 0 .. Two[WordBits] - 1 : k = y % Two[WordBits]
        BY <4>2, InWord
      <4>4. Encode(w, y) = <<Tag(u)>> \o encodeVarint(k)
        BY <1>1, <3>1, <4>1, <4>3 DEF Encode, Written
      <4>5. Encode(w, y) \in Seq(Byte)
        BY <1>1, <4>2, <4>3, <4>4, TaggedIs
      <4>6. u.kind \in {"uint", "int", "flag"} /\ b = Put(a, u.field, Number(u, k))
        BY <2>1, <4>1, <4>2, <4>3
      <4> QED
        BY <4>4, <4>5, <4>6, Zenon DEF Plain
    <3>2. CASE w.kind = "flag"
      <4>1. y = TRUE /\ u.kind = "flag"
        <5>1. u.kind = "flag" /\ y \in BOOLEAN /\ ZeroOf(u) = FALSE
          BY <3>2, Zenon DEF RowAgrees, TypeOf, ZeroOf
        <5> QED
          BY <1>4, <5>1, Zenon
      <4>2. Encode(w, y) = <<h, 1>>
        BY <1>1, <3>2, <4>1 DEF Encode, Written
      <4>3. <<h, 1>> = <<h>> \o <<1>> /\ <<h, 1>> \in Seq(Byte)
        BY DEF Byte
      <4>4. Number(u, 1) = TRUE
        <5>1. u.kind # "uint" /\ u.kind # "int"
          BY <4>1
        <5>2. Number(u, 1) = (1 # 0)
          BY <5>1, Zenon DEF Number
        <5>3. 1 # 0
          OBVIOUS
        <5> QED
          BY <5>2, <5>3, Zenon
      <4>5. u.kind \in {"uint", "int", "flag"} /\ b = Put(a, u.field, Number(u, 1))
        BY <2>1, <4>1, <4>4
      <4>6. PICK k \in 0 .. Two[WordBits] - 1 : k = 1
        BY EncodeOne
      <4>7. Encode(w, y) = <<Tag(u)>> \o encodeVarint(k) /\ Encode(w, y) \in Seq(Byte)
        BY <1>1, <4>2, <4>3, <4>6, EncodeOne
      <4> QED
        BY <4>5, <4>6, <4>7, Zenon DEF Plain
    <3>3. CASE w.kind = "raw"
      <4>1. u.kind = "raw" /\ y \in Seq(Byte) /\ y # <<>>
        BY <1>4, <3>3 DEF RowAgrees, TypeOf, ZeroOf
      <4>2. Encode(w, y) = Delimited(Tag(u), y)
        BY <1>1, <3>3, <4>1 DEF Encode, Written
      <4>3. Encode(w, y) \in Seq(Byte)
        BY <1>1, <4>1, <4>2, DelimitedIs
      <4> QED
        BY <2>1, <4>1, <4>2, <4>3, Zenon DEF Plain
    <3> QED
      BY <3>1, <3>2, <3>3 DEF RowAgrees, Embeds
  <2> QED
    BY <2>2, OneField
<1> QED
  BY <1>3, <1>4

\* What is written for the messages that a field holds: ss[j] for p[j].
Pieces(w, u, y, n, p, ss) ==
    /\ p = Parts(u, y) /\ DOMAIN p = 1 .. n /\ Len(ss) = n
    /\ \A j \in 1 .. n : /\ IsMessage(u.type, p[j]) /\ Marshal(u.type, p[j]) \in Seq(Byte)
                         /\ ss[j] = Delimited(Tag(u), Marshal(u.type, p[j]))
    /\ Encode(w, y) = FlattenSeq(ss)
    /\ u.kind = "sub" => p = <<y>> /\ n = 1
    /\ u.kind \in {"ptr", "rep"} => p = y /\ n = Len(y)

LEMMA EncodeHeld ==
    ASSUME NEW w, NEW c, NEW u, RowAgrees(w, c, u), Embeds(u), NEW y, TypeOf(u, y)
    PROVE  \E p : \E n \in Nat, ss \in Seq(Seq(Byte)) : Pieces(w, u, y, n, p, ss)
<1>1. /\ w.kind = u.kind /\ w.type = u.type /\ u.type \in DOMAIN Message
      /\ w.head = Tag(u) /\ Tag(u) \in Byte
  <2>1. u.type \in Held /\ w.kind = u.kind /\ w.type = u.type /\ w.head = Tag(u)
    BY DEF RowAgrees, Embeds, Tag
  <2> QED
    BY <2>1, HeadIs, Levels
<1>2. PICK n, p : /\ n \in Nat /\ p = Parts(w, y) /\ p = Parts(u, y) /\ DOMAIN p = 1 .. n
                  /\ \A j \in 1 .. n : IsMessage(u.type, p[j])
                  /\ u.kind = "sub" => p = <<y>> /\ n = 1
                  /\ u.kind \in {"ptr", "rep"} => p = y /\ n = Len(y)
  <2>1. CASE u.kind = "sub"
    <3>1. Parts(w, y) = <<y>> /\ Parts(u, y) = <<y>> /\ IsMessage(u.type, y)
      BY <1>1, <2>1 DEF Parts, TypeOf
    <3>2. DOMAIN <<y>> = 1 .. 1 /\ <<y>>[1] = y /\ \A j \in 1 .. 1 : j = 1
      OBVIOUS
    <3>3. 1 \in Nat /\ u.kind \notin {"ptr", "rep"}
      BY <2>1
    <3>4. PICK p : p = <<y>>
      OBVIOUS
    <3>5. \A j \in 1 .. 1 : IsMessage(u.type, p[j])
      BY <3>1, <3>2, <3>4
    <3> QED
      BY <3>1, <3>2, <3>3, <3>4, <3>5, Zenon
  <2>2. CASE u.kind \in {"ptr", "rep"}
    <3>1. Parts(w, y) = y /\ Parts(u, y) = y
      BY <1>1, <2>2 DEF Parts
    <3>2. y \in Seq(Range(y)) /\ \A j \in DOMAIN y : IsMessage(u.type, y[j])
      BY <2>2 DEF TypeOf
    <3>3. DOMAIN y = 1 .. Len(y) /\ Len(y) \in Nat
      BY <3>2
    <3> QED
      BY <2>2, <3>1, <3>2, <3>3
  <2> QED
    BY <2>1, <2>2 DEF Embeds
<1> DEFINE enc == [j \in DOMAIN p |-> Marshal(u.type, p[j])]
           ss == [j \in DOMAIN enc |-> Delimited(w.head, enc[j])]
<1>3. Encode(w, y) = FlattenSeq(ss)
  BY <1>1, <1>2 DEF Encode, Written, Embeds
<1>4. ASSUME NEW j \in 1 .. n
      PROVE  /\ ss[j] \in Seq(Byte) /\ ss[j] = Delimited(Tag(u), Marshal(u.type, p[j]))
             /\ Marshal(u.type, p[j]) \in Seq(Byte)
  <2>1. PICK e \in Seq(Byte) : e = Marshal(u.type, p[j])
    BY <1>1, <1>2, AllSized DEF Sized
  <2>2. Delimited(w.head, e) \in Seq(Byte)
    BY <1>1, DelimitedIs
  <2>3. ss[j] = Delimited(w.head, e)
    BY <1>2, <2>1
  <2> HIDE DEF ss
  <2> QED
    BY <1>1, <2>1, <2>2, <2>3
<1>5. DOMAIN ss = 1 .. n /\ ss = [j \in 1 .. n |-> ss[j]]
  BY <1>2
<1> HIDE DEF ss
<1>6. ss \in Seq(Seq(Byte)) /\ Len(ss) = n
  BY <1>2, <1>4, <1>5
<1>7. PICK r \in Seq(Seq(Byte)) : r = ss
  BY <1>6
<1>8. \A j \in 1 .. n : /\ IsMessage(u.type, p[j]) /\ Marshal(u.type, p[j]) \in Seq(Byte)
                        /\ r[j] = Delimited(Tag(u), Marshal(u.type, p[j]))
  BY <1>2, <1>4, <1>7
<1>9. Len(r) = n /\ Encode(w, y) = FlattenSeq(r)
  BY <1>3, <1>6, <1>7
<1>10. Pieces(w, u, y, n, p, r)
  BY <1>2, <1>8, <1>9 DEF Pieces
<1> QED
  BY <1>2, <1>7, <1>10, Zenon

\* The message behind a tag and its length.
LEMMA OneMessage ==
    ASSUME NEW q, NEW t, NEW u \in Rows(t), Embeds(u), Tag(u) \in Byte, NEW body \in Seq(Byte),
           NEW a, NEW z, NEW x, x = Put(a, u.field, Stored(u, a[u.field], z)),
           Decodes(<<>>, u.type, body, Filled(u, a[u.field]), z), Fits(q, a), Fits(q, x)
    PROVE  Decodes(q, t, Delimited(Tag(u), body), a, x)
<1>1. PICK chunk \in Seq(Byte) : chunk = Delimited(Tag(u), body)
  BY DelimitedIs
<1>2. PICK y : y = Filled(u, a[u.field])
  OBVIOUS
<1>3. Holds(t, chunk, a, x, u, body, y, z) /\ Decodes(<<>>, u.type, body, y, z)
  BY <1>1, <1>2, Zenon DEF Holds
<1> QED
  BY <1>1, <1>3, OneField, Zenon

\* The messages of type t are read as they are written.
Inside(t) == \A a, m : IsMessage(t, a) /\ IsMessage(t, m) =>
               Decodes(<<>>, t, Marshal(t, m), a, Merge(t, a, m))

LEMMA HeldRow ==
    ASSUME NEW w, NEW c, NEW u, RowAgrees(w, c, u), Embeds(u)
    PROVE  Tag(u) \in Byte /\ u.type \in DOMAIN Message /\ Merges(u.type)
<1>1. u.type \in Held /\ w.head = Tag(u)
  BY DEF RowAgrees, Embeds, Tag
<1> QED
  BY <1>1, HeadIs, Levels, AllMerge

LEMMA DecodesHeldRow ==
    ASSUME NEW q, NEW t, NEW w, NEW c, NEW u, RowAgrees(w, c, u), u \in Rows(t),
           u.kind \in {"sub", "ptr"}, Inside(u.type),
           Zero(t)[u.field] = ZeroOf(u), NEW a, NEW S, a = [g \in S |-> a[g]],
           TypeOf(u, a[u.field]),
           NEW y, TypeOf(u, y), NEW b, b = Put(a, u.field, MergeOf(t, u, a[u.field], y)),
           Fits(q, a), Fits(q, b)
    PROVE  Decodes(q, t, Encode(w, y), a, b)
<1>1. Embeds(u)
  BY DEF Embeds
<1>2. Tag(u) \in Byte /\ u.type \in DOMAIN Message /\ Merges(u.type)
  BY <1>1, HeldRow
<1>3. PICK p, n, ss : n \in Nat /\ ss \in Seq(Seq(Byte)) /\ Pieces(w, u, y, n, p, ss)
  BY <1>1, EncodeHeld, Zenon
<1>4. PICK v : v = a[u.field]
  OBVIOUS
<1>5. CASE n = 0
  <2>1. u.kind = "ptr" /\ y = p
    BY <1>3, <1>5 DEF Pieces
  <2>2. y = <<>>
    <3>1. y \in Seq(Range(y)) /\ Len(y) = 0
      BY <1>3, <1>5, <2>1 DEF TypeOf, Pieces
    <3> QED
      BY <3>1
  <2>3. ss = <<>>
    BY <1>3, <1>5 DEF Pieces
  <2>4. Encode(w, y) = <<>>
    BY <1>3, <2>3, FlattenEmpty DEF Pieces
  <2>5. MergeOf(t, u, v, y) = v
    BY <2>1, <2>2 DEF MergeOf, ZeroOf
  <2>6. b = a
    BY <1>4, <2>5, PutBack
  <2> QED
    BY <2>4, <2>6, DecodesEmpty
<1>6. CASE n = 1
  <2>1. PICK e : e = p[1]
    OBVIOUS
  <2>2. IsMessage(u.type, e) /\ Marshal(u.type, e) \in Seq(Byte)
        /\ ss[1] = Delimited(Tag(u), Marshal(u.type, e))
    BY <1>3, <1>6, <2>1 DEF Pieces
  <2>3. Encode(w, y) = Delimited(Tag(u), Marshal(u.type, e))
    <3>1. Len(ss) = 1 /\ Encode(w, y) = FlattenSeq(ss)
      BY <1>3, <1>6 DEF Pieces
    <3>2. ss = <<ss[1]>> /\ ss[1] \in Seq(Byte)
      <4>1. PICK T : T = Seq(Byte)
        OBVIOUS
      <4>2. ss \in Seq(T)
        BY <1>3, <4>1, Zenon
      <4>3. ss[1] \in T
        <5>1. \A r \in Seq(T) : Len(r) = 1 => r[1] \in T
          BY SMTT(40)
        <5> QED
          BY <3>1, <4>2, <5>1, Zenon
      <4> QED
        BY <3>1, <4>1, <4>2, <4>3
    <3>3. FlattenSeq(<<ss[1]>>) = ss[1]
      BY <3>2, FlattenOne
    <3> QED
      BY <2>2, <3>1, <3>2, <3>3, Zenon
  <2>4. PICK d, z : /\ d = Filled(u, v) /\ z = Merge(u.type, d, e) /\ IsMessage(u.type, d)
                    /\ Stored(u, v, z) = MergeOf(t, u, v, y)
    <3>1. CASE u.kind = "sub"
      <4>1. e = y /\ Filled(u, v) = v /\ IsMessage(u.type, v)
        BY <1>3, <1>4, <2>1, <3>1 DEF Pieces, Filled, TypeOf
      <4>2. Stored(u, v, Merge(u.type, v, y)) = MergeOf(t, u, v, y)
        BY <3>1 DEF Stored, MergeOf
      <4> QED
        BY <4>1, <4>2
    <3>2. CASE u.kind = "ptr"
      <4>1. y \in Seq(Range(y)) /\ Len(y) = 1 /\ e = y[1] /\ y # <<>>
        <5>1. y \in Seq(Range(y))
          BY <3>2 DEF TypeOf
        <5>2. p = y /\ n = Len(y)
          BY <1>3, <3>2 DEF Pieces
        <5>3. Len(y) = 1 /\ e = y[1]
          BY <1>6, <2>1, <5>2
        <5>4. y # <<>>
          <6>1. Len(<<>>) # 1
            OBVIOUS
          <6> QED
            BY <5>3, <6>1, Zenon
        <5> QED
          BY <5>1, <5>3, <5>4, Zenon
      <4>2. y = <<e>>
        BY <4>1
      <4>3. CASE v = <<>>
        <5>1. Filled(u, v) = Zero(u.type) /\ IsMessage(u.type, Zero(u.type))
          BY <1>2, <3>2, <4>3 DEF Filled, Merges
        <5>2. Merge(u.type, Zero(u.type), e) = e
          BY <1>2, <2>2 DEF Merges
        <5>3. Stored(u, v, e) = <<e>>
          BY <3>2 DEF Stored
        <5>4. MergeOf(t, u, v, y) = y
          BY <3>2, <4>1, <4>3 DEF MergeOf, ZeroOf
        <5> QED
          BY <4>2, <5>1, <5>2, <5>3, <5>4
      <4>4. CASE v # <<>>
        <5>1. v \in Seq(Range(v)) /\ \A i \in DOMAIN v : IsMessage(u.type, v[i])
          BY <1>4, <3>2 DEF TypeOf
        <5>2. 1 \in DOMAIN v
          BY <4>4, <5>1
        <5>3. Filled(u, v) = v[1] /\ IsMessage(u.type, v[1])
          BY <3>2, <4>4, <5>1, <5>2 DEF Filled
        <5>4. Stored(u, v, Merge(u.type, v[1], e)) = MergeOf(t, u, v, y)
          BY <3>2, <4>1, <4>4 DEF Stored, MergeOf
        <5> QED
          BY <5>3, <5>4
      <4> QED
        BY <4>3, <4>4
    <3> QED
      BY <3>1, <3>2
  <2>5. Decodes(<<>>, u.type, Marshal(u.type, e), Filled(u, v), z)
    BY <2>2, <2>4 DEF Inside
  <2>6. b = Put(a, u.field, Stored(u, v, z))
    BY <1>4, <2>4
  <2> QED
    BY <1>1, <1>2, <1>4, <2>2, <2>3, <2>5, <2>6, OneMessage
<1> QED
  <2>1. n = 0 \/ n = 1
    <3>1. CASE u.kind = "sub"
      BY <1>3, <3>1 DEF Pieces
    <3>2. CASE u.kind = "ptr"
      BY <1>3, <3>2 DEF Pieces, TypeOf
    <3> QED
      BY <3>1, <3>2
  <2> QED
    BY <1>5, <1>6, <2>1

\* One element more.
LEMMA AppendNext ==
    ASSUME NEW S, NEW v \in Seq(S), NEW y \in Seq(S), NEW k \in 0 .. Len(y), k < Len(y)
    PROVE  Append(v \o SubSeq(y, 1, k), y[k + 1]) = v \o SubSeq(y, 1, k + 1)
<1>1. k + 1 \in 1 .. Len(y) /\ 1 \in 1 .. Len(y) /\ (k + 1) - 1 = k
  OBVIOUS
<1>2. SubSeq(y, 1, k + 1) = SubSeq(y, 1, (k + 1) - 1) \o <<y[k + 1]>>
  BY <1>1, SubSeqRecursiveSecond
<1>3. PICK e \in S, p \in Seq(S) : e = y[k + 1] /\ p = SubSeq(y, 1, k)
  <2>1. y[k + 1] \in S /\ \A i \in 1 .. k : y[i] \in S
    BY <1>1
  <2>2. 1 \in Int /\ k \in Int
    OBVIOUS
  <2>3. SubSeq(y, 1, k) \in Seq(S)
    BY <2>1, <2>2, SubSeqProperties
  <2> QED
    BY <2>1, <2>3
<1>4. v \o p \in Seq(S) /\ <<e>> \in Seq(S)
  BY <1>3
<1>5. Append(v \o p, e) = (v \o p) \o <<e>>
  BY <1>4, AppendIsConcat
<1>6. (v \o p) \o <<e>> = v \o (p \o <<e>>)
  BY <1>4, ConcatAssociative, SMTT(40)
<1> QED
  BY <1>1, <1>2, <1>3, <1>5, <1>6

LEMMA PutTwice ==
    ASSUME NEW S, NEW a, a = [g \in S |-> a[g]], NEW f \in S, NEW x, NEW y
    PROVE  Put(a, f, x)[f] = x /\ Put(Put(a, f, x), f, y) = Put(a, f, y)
           /\ Put(a, f, x) = [g \in S |-> Put(a, f, x)[g]]
           /\ \A g \in S : g # f => Put(a, f, x)[g] = a[g]
BY DEF Put

LEMMA DecodesElements ==
    ASSUME NEW q, NEW t, NEW w, NEW c, NEW u, RowAgrees(w, c, u), u \in Rows(t),
           u.kind = "rep", Inside(u.type), NEW S, NEW f \in S, f = u.field,
           NEW a, a = [g \in S |-> a[g]], NEW v, v = a[f], TypeOf(u, v), NEW y, TypeOf(u, y),
           \A j \in 0 .. Len(y) : Fits(q, Put(a, f, v \o SubSeq(y, 1, j)))
    PROVE  Decodes(q, t, Encode(w, y), a, Put(a, f, v \o y))
<1>1. Embeds(u)
  BY DEF Embeds
<1>2. Tag(u) \in Byte /\ u.type \in DOMAIN Message /\ Merges(u.type)
  BY <1>1, HeldRow
<1>3. PICK p, n, ss : n \in Nat /\ ss \in Seq(Seq(Byte)) /\ Pieces(w, u, y, n, p, ss)
  BY <1>1, EncodeHeld, Zenon
<1>4. n = Len(y) /\ Len(ss) = n /\ Encode(w, y) = FlattenSeq(ss)
      /\ \A j \in 1 .. n : /\ IsMessage(u.type, y[j]) /\ Marshal(u.type, y[j]) \in Seq(Byte)
                           /\ ss[j] = Delimited(Tag(u), Marshal(u.type, y[j]))
  BY <1>3 DEF Pieces
<1>5. PICK V : v \in Seq(V) /\ y \in Seq(V)
  <2>1. v \in Seq(Range(v)) /\ y \in Seq(Range(y))
    BY DEF TypeOf
  <2>2. v \in Seq(Range(v) \cup Range(y)) /\ y \in Seq(Range(v) \cup Range(y))
    BY <2>1
  <2> QED
    BY <2>2
<1>6. PICK F : Joints(F, Byte, ss)
  BY <1>3, JointsExist
<1> DEFINE X(j) == Put(a, f, v \o SubSeq(y, 1, j))
           T == {k \in 0 .. n : Decodes(q, t, F[k], a, X(k))}
<1>7. 0 \in T
  <2>1. v \o SubSeq(y, 1, 0) = v
    BY <1>5
  <2>2. X(0) = a
    BY <2>1, PutBack
  <2>3. 0 \in 0 .. n /\ 0 \in 0 .. Len(y)
    BY <1>3, <1>4
  <2>4. Fits(q, X(0))
    BY <2>3
  <2>5. F[0] = <<>>
    BY <1>6 DEF Joints
  <2> HIDE DEF X
  <2>6. Decodes(q, t, F[0], a, X(0))
    BY <2>2, <2>4, <2>5, DecodesEmpty
  <2> QED
    BY <2>3, <2>6
<1>8. \A k \in 0 .. n : k \in T /\ k < n => k + 1 \in T
  <2> SUFFICES ASSUME NEW k \in 0 .. n, k \in T, k < n
               PROVE  k + 1 \in T
    OBVIOUS
  <2>1. k + 1 \in 1 .. n /\ k + 1 \in 0 .. n /\ k \in 0 .. Len(y) /\ k + 1 \in 0 .. Len(y) /\ k < Len(y)
        /\ k \in 0 .. Len(ss) /\ k < Len(ss)
    BY <1>3, <1>4
  <2>2. PICK e : /\ e = y[k + 1] /\ IsMessage(u.type, e) /\ Marshal(u.type, e) \in Seq(Byte)
                 /\ ss[k + 1] = Delimited(Tag(u), Marshal(u.type, e))
    BY <1>4, <2>1
  <2>3. Decodes(q, t, F[k], a, X(k))
    OBVIOUS
  <2>4. F[k + 1] = F[k] \o ss[k + 1]
    BY <1>6, <2>1 DEF Joints
  <2>5. Fits(q, X(k)) /\ Fits(q, X(k + 1))
    BY <2>1
  <2>6. X(k)[f] = v \o SubSeq(y, 1, k)
    <3>1. PICK r : r = v \o SubSeq(y, 1, k)
      OBVIOUS
    <3>2. Put(a, f, r)[f] = r
      BY DEF Put
    <3> QED
      BY <3>1, <3>2, Zenon
  <2>7. Filled(u, X(k)[f]) = Zero(u.type) /\ Stored(u, X(k)[f], e) = Append(X(k)[f], e)
    BY DEF Filled, Stored
  <2>8. Decodes(<<>>, u.type, Marshal(u.type, e), Zero(u.type), e)
    <3>1. IsMessage(u.type, Zero(u.type)) /\ Merge(u.type, Zero(u.type), e) = e
      BY <1>2, <2>2 DEF Merges
    <3>2. Decodes(<<>>, u.type, Marshal(u.type, e), Zero(u.type), Merge(u.type, Zero(u.type), e))
      BY <2>2, <3>1, Zenon DEF Inside
    <3> QED
      BY <3>1, <3>2, Zenon
  <2>9. X(k + 1) = Put(X(k), f, Stored(u, X(k)[f], e))
    <3>1. Append(v \o SubSeq(y, 1, k), e) = v \o SubSeq(y, 1, k + 1)
      BY <1>5, <2>1, <2>2, AppendNext, ZenonT(60)
    <3>2. Put(X(k), f, v \o SubSeq(y, 1, k + 1)) = X(k + 1)
      BY PutTwice
    <3> QED
      BY <2>6, <2>7, <3>1, <3>2, ZenonT(60)
  <2> HIDE DEF X
  <2>10. Decodes(q, t, ss[k + 1], X(k), X(k + 1))
    <3>1. Decodes(<<>>, u.type, Marshal(u.type, e), Filled(u, X(k)[f]), e)
      BY <2>7, <2>8, Zenon
    <3>2. Decodes(q, t, Delimited(Tag(u), Marshal(u.type, e)), X(k), X(k + 1))
      BY <1>1, <1>2, <2>2, <2>5, <2>9, <3>1, OneMessage
    <3> QED
      BY <2>2, <3>2, Zenon
  <2>11. Decodes(q, t, F[k + 1], a, X(k + 1))
    BY <2>3, <2>4, <2>10, DecodesJoin, Zenon
  <2> QED
    BY <2>1, <2>11
<1>9. \A k \in 0 .. n : k \in T
  <2> HIDE DEF T
  <2> QED
    BY <1>3, <1>7, <1>8, UpTo
<1>10. Decodes(q, t, F[n], a, X(n))
  <2>1. n \in 0 .. n
    BY <1>3
  <2> QED
    BY <1>9, <2>1
<1>11. X(n) = Put(a, f, v \o y)
  <2>1. SubSeq(y, 1, n) = y
    BY <1>4, <1>5
  <2> QED
    BY <2>1
<1>12. Encode(w, y) = F[n]
  BY <1>3, <1>4, <1>6, FlattenIs
<1> QED
  BY <1>10, <1>11, <1>12, Zenon

-----------------------------------------------------------------------------
(***************************************************************************)
(* A message is read as it was written.                                    *)
(***************************************************************************)
\* The first k of the fields f are b's, the others a's.
Mix(f, n, S, a, b, k) ==
    [g \in S |-> IF \E i \in 1 .. n : i <= k /\ g = f[i] THEN b[g] ELSE a[g]]

\* Such mixtures, from a to b.
Mixes(X, f, n, S, a, b) ==
    /\ X[0] = a /\ X[n] = b
    /\ \A k \in 0 .. n :
         /\ X[k] = [g \in S |-> X[k][g]]
         /\ \A i \in 1 .. n : X[k][f[i]] = IF i <= k THEN b[f[i]] ELSE a[f[i]]
         /\ k < n => X[k + 1] = Put(X[k], f[k + 1], b[f[k + 1]])

LEMMA MixesExist ==
    ASSUME NEW n \in Nat, NEW f, NEW S, \A i \in 1 .. n : f[i] \in S,
           \A g \in S : \E i \in 1 .. n : g = f[i],
           \A i, j \in 1 .. n : i # j => f[i] # f[j],
           NEW a, a = [g \in S |-> a[g]], NEW b, b = [g \in S |-> b[g]]
    PROVE  \E X : Mixes(X, f, n, S, a, b)
<1> DEFINE X(k) == Mix(f, n, S, a, b, k)
<1>1. X(0) = a
  BY DEF Mix
<1>2. X(n) = b
  BY DEF Mix
<1>3. ASSUME NEW k \in 0 .. n
      PROVE  /\ X(k) = [g \in S |-> X(k)[g]]
             /\ \A i \in 1 .. n : X(k)[f[i]] = IF i <= k THEN b[f[i]] ELSE a[f[i]]
  <2>1. X(k) = [g \in S |-> X(k)[g]]
    BY DEF Mix
  <2>2. ASSUME NEW i \in 1 .. n
        PROVE  X(k)[f[i]] = IF i <= k THEN b[f[i]] ELSE a[f[i]]
    <3>1. (\E j \in 1 .. n : j <= k /\ f[i] = f[j]) <=> i <= k
      OBVIOUS
    <3>2. X(k)[f[i]] = IF \E j \in 1 .. n : j <= k /\ f[i] = f[j] THEN b[f[i]] ELSE a[f[i]]
      BY DEF Mix
    <3> QED
      BY <3>1, <3>2
  <2> QED
    BY <2>1, <2>2
<1>4. ASSUME NEW k \in 0 .. n, k < n
      PROVE  X(k + 1) = Put(X(k), f[k + 1], b[f[k + 1]])
  <2>1. k + 1 \in 0 .. n /\ k + 1 \in 1 .. n
    BY <1>4
  <2>2. PICK x, y : x = X(k) /\ y = X(k + 1)
    OBVIOUS
  <2>3. /\ x = [g \in S |-> x[g]] /\ \A i \in 1 .. n : x[f[i]] = IF i <= k THEN b[f[i]] ELSE a[f[i]]
        /\ y = [g \in S |-> y[g]] /\ \A i \in 1 .. n : y[f[i]] = IF i <= k + 1 THEN b[f[i]] ELSE a[f[i]]
    BY <1>3, <2>1, <2>2, ZenonT(60)
  <2>4. f[k + 1] \in S
    BY <2>1
  <2>5. PICK p : p = Put(x, f[k + 1], b[f[k + 1]])
    OBVIOUS
  <2>6. /\ p = [g \in S |-> p[g]] /\ p[f[k + 1]] = b[f[k + 1]]
        /\ \A g \in S : g # f[k + 1] => p[g] = x[g]
    BY <2>3, <2>4, <2>5 DEF Put
  <2>7. \A i \in 1 .. n : p[f[i]] = y[f[i]]
    <3> SUFFICES ASSUME NEW i \in 1 .. n PROVE p[f[i]] = y[f[i]]
      OBVIOUS
    <3>1. CASE i = k + 1
      BY <2>3, <2>6, <3>1
    <3>2. CASE i # k + 1
      <4>1. p[f[i]] = x[f[i]]
        BY <2>1, <2>6, <3>2
      <4>2. i <= k <=> i <= k + 1
        BY <3>2
      <4> QED
        BY <2>3, <4>1, <4>2
    <3> QED
      BY <3>1, <3>2
  <2>8. \A g \in S : p[g] = y[g]
    BY <2>7
  <2>9. p = y
    BY <2>3, <2>6, <2>8
  <2> QED
    BY <2>2, <2>5, <2>9
<1> HIDE DEF X
<1>5. PICK Y : Y = [k \in 0 .. n |-> X(k)]
  OBVIOUS
<1>6. \A k \in 0 .. n : Y[k] = X(k)
  BY <1>5
<1>7. 0 \in 0 .. n /\ n \in 0 .. n /\ \A k \in 0 .. n : k < n => k + 1 \in 0 .. n
  OBVIOUS
<1>8. Y[0] = a /\ Y[n] = b
  BY <1>1, <1>2, <1>6, <1>7
<1>9. ASSUME NEW k \in 0 .. n
      PROVE  /\ Y[k] = [g \in S |-> Y[k][g]]
             /\ \A i \in 1 .. n : Y[k][f[i]] = IF i <= k THEN b[f[i]] ELSE a[f[i]]
             /\ k < n => Y[k + 1] = Put(Y[k], f[k + 1], b[f[k + 1]])
  <2>1. Y[k] = X(k)
    BY <1>6
  <2>2. k < n => Y[k + 1] = X(k + 1)
    BY <1>6, <1>7
  <2>3. /\ Y[k] = [g \in S |-> Y[k][g]]
        /\ \A i \in 1 .. n : Y[k][f[i]] = IF i <= k THEN b[f[i]] ELSE a[f[i]]
    <3>1. PICK y : /\ y = X(k) /\ y = [g \in S |-> y[g]]
                   /\ \A i \in 1 .. n : y[f[i]] = IF i <= k THEN b[f[i]] ELSE a[f[i]]
      BY <1>3
    <3>2. Y[k] = y
      BY <2>1, <3>1
    <3> QED
      BY <3>1, <3>2
  <2>4. k < n => Y[k + 1] = Put(Y[k], f[k + 1], b[f[k + 1]])
    BY <1>4, <2>1, <2>2, Zenon
  <2> QED
    BY <2>3, <2>4, Zenon
<1>10. Mixes(Y, f, n, S, a, b)
  BY <1>8, <1>9, Zenon DEF Mixes
<1> QED
  BY <1>10, Zenon

LEMMA BetweenAt ==
    ASSUME NEW t, NEW U, U = Message[t].Unmarshal, NEW n \in Nat, Len(U) = n,
           NEW a, NEW m, NEW x, NEW k \in 0 .. n,
           \A i \in 1 .. n : i <= k => x[U[i].field] = Merge(t, a, m)[U[i].field],
           \A i \in 1 .. n : i > k + 1 => x[U[i].field] = a[U[i].field],
           k < n => Begun(U[k + 1], a, m, x)
    PROVE  Between(t, a, m, x)
<1>1. PICK l \in 1 .. n + 1 : l = k + 1
  OBVIOUS
<1>2. \A i \in 1 .. n : i < l => x[U[i].field] = Merge(t, a, m)[U[i].field]
  BY <1>1
<1>3. \A i \in 1 .. n : i > l => x[U[i].field] = a[U[i].field]
  BY <1>1
<1>4. l <= n => Begun(U[l], a, m, x)
  BY <1>1
<1> QED
  BY <1>2, <1>3, <1>4, ZenonT(60) DEF Between

\* A message is read on top of another, and nothing but what lies between is met.
Decoded(t) ==
    \A q, a, m :
      IsMessage(t, a) /\ IsMessage(t, m) /\ (\A x : Between(t, a, m, x) => Fits(q, x))
        => Decodes(q, t, Marshal(t, m), a, Merge(t, a, m))

LEMMA DecodedStep ==
    ASSUME NEW t \in DOMAIN Message, \A row \in Rows(t) : Embeds(row) => Inside(row.type)
    PROVE  Decoded(t)
<1> SUFFICES ASSUME NEW q, NEW a, NEW m, IsMessage(t, a), IsMessage(t, m),
                    \A x : Between(t, a, m, x) => Fits(q, x)
             PROVE  Decodes(q, t, Marshal(t, m), a, Merge(t, a, m))
  BY Zenon DEF Decoded
<1>0. PICK n \in Nat :
        LET M == Message[t].Marshal
            U == Message[t].Unmarshal
        IN  /\ DOMAIN M = 1 .. n /\ DOMAIN U = 1 .. n
            /\ \A i \in 1 .. n : \E c : /\ RowAgrees(M[i], c, U[i]) /\ U[i] \in Rows(t)
                                        /\ U[i].field \in Fields(t)
            /\ \A i, j \in 1 .. n : i # j => U[i].field # U[j].field
            /\ \A g \in Fields(t) : \E i \in 1 .. n : g = U[i].field
  BY Tables, ZenonT(60)
<1>1. PICK M, U, S : M = Message[t].Marshal /\ U = Message[t].Unmarshal /\ S = Fields(t)
  OBVIOUS
<1>2. /\ DOMAIN M = 1 .. n /\ DOMAIN U = 1 .. n
      /\ \A i \in 1 .. n : \E c : /\ RowAgrees(M[i], c, U[i]) /\ U[i] \in Rows(t)
                                  /\ U[i].field \in S
      /\ \A i, j \in 1 .. n : i # j => U[i].field # U[j].field
      /\ \A g \in S : \E i \in 1 .. n : g = U[i].field
  BY <1>0, <1>1
<1>3. Len(U) = n
  <2>1. PICK k \in Nat : Len(U) = k /\ U \in Seq(Range(U))
    BY <1>1, AllAgree DEF Agree, TablesAgree
  <2>2. DOMAIN U = 1 .. k
    BY <2>1
  <2> QED
    BY <1>2, <2>1, <2>2
<1>4. PICK f : f = [i \in 1 .. n |-> U[i].field]
  OBVIOUS
<1>5. PICK b : /\ b = Merge(t, a, m) /\ b = [g \in S |-> b[g]]
               /\ \A i \in 1 .. n : b[f[i]] = MergeOf(t, U[i], a[f[i]], m[f[i]])
  <2>1. Merge(t, a, m) = [g \in S |-> Merge(t, a, m)[g]]
    BY <1>1, MergeIs
  <2>2. \A i \in 1 .. n : Merge(t, a, m)[f[i]] = MergeOf(t, U[i], a[f[i]], m[f[i]])
    BY <1>1, <1>2, <1>4, MergeAt
  <2> QED
    BY <2>1, <2>2, Zenon
<1>6. /\ a = [g \in S |-> a[g]] /\ m = [g \in S |-> m[g]]
      /\ \A i \in 1 .. n : TypeOf(U[i], a[f[i]]) /\ TypeOf(U[i], m[f[i]])
  <2>1. /\ a = [g \in Fields(t) |-> a[g]] /\ m = [g \in Fields(t) |-> m[g]]
        /\ \A i \in DOMAIN U : TypeOf(U[i], a[U[i].field]) /\ TypeOf(U[i], m[U[i].field])
    BY <1>1, IsMessageRows
  <2> QED
    BY <1>1, <1>2, <1>4, <2>1
<1>7. PICK X : Mixes(X, f, n, S, a, b)
  <2>1. /\ \A i \in 1 .. n : f[i] \in S
        /\ \A g \in S : \E i \in 1 .. n : g = f[i]
        /\ \A i, j \in 1 .. n : i # j => f[i] # f[j]
    BY <1>2, <1>4
  <2> QED
    BY <1>5, <1>6, <2>1, MixesExist, ZenonT(60)
<1>8. \A k \in 0 .. n : Fits(q, X[k])
  <2> SUFFICES ASSUME NEW k \in 0 .. n PROVE Between(t, a, m, X[k])
    OBVIOUS
  <2>0. PICK x : x = X[k] /\ \A i \in 1 .. n : x[f[i]] = IF i <= k THEN b[f[i]] ELSE a[f[i]]
    BY <1>7, Zenon DEF Mixes
  <2>1. \A i \in 1 .. n : i <= k => x[U[i].field] = Merge(t, a, m)[U[i].field]
    BY <1>4, <1>5, <2>0
  <2>2. \A i \in 1 .. n : i > k + 1 => x[U[i].field] = a[U[i].field]
    BY <1>4, <2>0
  <2>3. k < n => Begun(U[k + 1], a, m, x)
    <3>1. k < n => x[U[k + 1].field] = a[U[k + 1].field]
      BY <1>4, <2>0
    <3> QED
      BY <3>1 DEF Begun
  <2>4. Between(t, a, m, x)
    BY <1>1, <1>3, <2>1, <2>2, <2>3, BetweenAt, ZenonT(60)
  <2> QED
    BY <2>0, <2>4
<1>9. ASSUME NEW k \in 0 .. n, k < n
      PROVE  Decodes(q, t, Encode(M[k + 1], m[f[k + 1]]), X[k], X[k + 1])
  <2>1. PICK l \in 1 .. n : l = k + 1
    BY <1>9
  <2>2. PICK c : RowAgrees(M[l], c, U[l]) /\ U[l] \in Rows(t) /\ U[l].field \in S
    BY <1>2
  <2>3. f[l] = U[l].field /\ f[l] \in S
    BY <1>4, <2>2
  <2>4. Zero(t)[f[l]] = ZeroOf(U[l])
    BY <1>1, <1>2, <2>3, ZeroAt
  <2>5. PICK x : /\ x = X[k] /\ x = [g \in S |-> x[g]] /\ x[f[l]] = a[f[l]]
                 /\ X[k + 1] = Put(x, f[l], MergeOf(t, U[l], x[f[l]], m[f[l]]))
    <3>1. X[k][f[l]] = a[f[l]]
      <4>1. X[k][f[l]] = IF l <= k THEN b[f[l]] ELSE a[f[l]]
        BY <1>7, Zenon DEF Mixes
      <4> QED
        BY <2>1, <4>1
    <3>2. X[k + 1] = Put(X[k], f[l], b[f[l]]) /\ X[k] = [g \in S |-> X[k][g]]
      BY <1>7, <1>9, <2>1 DEF Mixes
    <3>3. b[f[l]] = MergeOf(t, U[l], a[f[l]], m[f[l]])
      BY <1>5
    <3> QED
      BY <3>1, <3>2, <3>3, ZenonT(60)
  <2>6. Fits(q, x) /\ Fits(q, X[k + 1])
    <3>1. k + 1 \in 0 .. n
      BY <1>9
    <3> QED
      BY <1>8, <2>5, <3>1
  <2>7. TypeOf(U[l], x[f[l]]) /\ TypeOf(U[l], m[f[l]])
    BY <1>6, <2>5
  <2>8. CASE ~ Embeds(U[l])
    <3>1. Decodes(q, t, Encode(M[l], m[f[l]]), x, X[k + 1])
      BY <2>2, <2>3, <2>4, <2>5, <2>6, <2>7, <2>8, DecodesRow
    <3> QED
      BY <2>1, <2>5, <3>1, Zenon
  <2>9. CASE U[l].kind \in {"sub", "ptr"}
    <3>1. Inside(U[l].type)
      BY <2>2, <2>9 DEF Embeds
    <3>2. Decodes(q, t, Encode(M[l], m[f[l]]), x, X[k + 1])
      BY <2>2, <2>3, <2>4, <2>5, <2>6, <2>7, <2>9, <3>1, DecodesHeldRow
    <3> QED
      BY <2>1, <2>5, <3>2, Zenon
  <2>10. CASE U[l].kind = "rep"
    <3>1. Inside(U[l].type)
      BY <2>2, <2>10 DEF Embeds
    <3>2. PICK v, y : v = x[f[l]] /\ y = m[f[l]]
      OBVIOUS
    <3>3. ASSUME NEW j \in 0 .. Len(y)
          PROVE  Fits(q, Put(x, f[l], v \o SubSeq(y, 1, j)))
      <4>1. PICK z : z = v \o SubSeq(y, 1, j)
        OBVIOUS
      <4>2. PICK p : p = Put(x, f[l], z)
        OBVIOUS
      <4>3. p[f[l]] = z /\ \A g \in S : g # f[l] => p[g] = x[g]
        BY <2>3, <2>5, <4>2 DEF Put
      <4>4. \A i \in 1 .. n : i # l => p[f[i]] = x[f[i]]
        <5>1. \A i \in 1 .. n : i # l => f[i] # f[l] /\ f[i] \in S
          BY <1>2, <1>4
        <5> QED
          BY <4>3, <5>1, Zenon
      <4>0. \A i \in 1 .. n : x[f[i]] = IF i <= k THEN b[f[i]] ELSE a[f[i]]
        BY <1>7, <2>5, Zenon DEF Mixes
      <4>5. \A i \in 1 .. n : i <= k => p[U[i].field] = Merge(t, a, m)[U[i].field]
        <5> SUFFICES ASSUME NEW i \in 1 .. n, i <= k
                     PROVE  p[f[i]] = b[f[i]]
          BY <1>4, <1>5
        <5> QED
          BY <2>1, <4>0, <4>4
      <4>6. \A i \in 1 .. n : i > k + 1 => p[U[i].field] = a[U[i].field]
        <5> SUFFICES ASSUME NEW i \in 1 .. n, i > k + 1
                     PROVE  p[f[i]] = a[f[i]]
          BY <1>4, SMTT(40)
        <5> QED
          BY <2>1, <4>0, <4>4
      <4>7. /\ U[k + 1].kind = "rep" /\ j \in 0 .. Len(m[U[k + 1].field])
            /\ p[U[k + 1].field] = a[U[k + 1].field] \o SubSeq(m[U[k + 1].field], 1, j)
        BY <2>1, <2>3, <2>5, <2>10, <3>2, <4>1, <4>3
      <4>9. Begun(U[k + 1], a, m, p)
        BY <4>7, Zenon DEF Begun
      <4>8. Between(t, a, m, p)
        BY <1>1, <1>3, <4>5, <4>6, <4>9, BetweenAt, ZenonT(60)
      <4> QED
        BY <4>1, <4>2, <4>8
    <3>4. Decodes(q, t, Encode(M[l], y), x, Put(x, f[l], v \o y))
      BY <2>2, <2>3, <2>5, <2>7, <2>10, <3>1, <3>2, <3>3, DecodesElements, ZenonT(60)
    <3>5. MergeOf(t, U[l], v, y) = v \o y
      BY <2>10 DEF MergeOf
    <3> QED
      BY <2>1, <2>5, <3>2, <3>4, <3>5, Zenon
  <2> QED
    BY <2>8, <2>9, <2>10 DEF Embeds
<1>10. PICK ss : ss = [i \in 1 .. n |-> Encode(M[i], m[f[i]])]
  OBVIOUS
<1>11. ss \in Seq(Seq(Byte)) /\ Len(ss) = n /\ Marshal(t, m) = FlattenSeq(ss)
  <2>1. \A i \in 1 .. n : ss[i] \in Seq(Byte)
    <3> SUFFICES ASSUME NEW i \in 1 .. n PROVE ss[i] \in Seq(Byte)
      OBVIOUS
    <3>1. PICK k \in 0 .. n : k < n /\ i = k + 1
      <4>1. i - 1 \in 0 .. n /\ i - 1 < n /\ i = (i - 1) + 1
        OBVIOUS
      <4> QED
        BY <4>1
    <3>2. Decodes(q, t, ss[i], X[k], X[k + 1])
      BY <1>9, <1>10, <3>1
    <3> QED
      BY <3>2, DecodesTyped
  <2>2. \A i \in 1 .. n : ss[i] = Encode(M[i], m[M[i].field])
    <3> SUFFICES ASSUME NEW i \in 1 .. n PROVE ss[i] = Encode(M[i], m[M[i].field])
      OBVIOUS
    <3>1. M[i].field = f[i]
      BY <1>2, <1>4 DEF RowAgrees
    <3> QED
      BY <1>10, <3>1
  <2>3. ss = [i \in DOMAIN M |-> Encode(M[i], m[M[i].field])]
    BY <1>2, <1>10, <2>2
  <2>4. Marshal(t, m) = FlattenSeq([i \in DOMAIN M |-> Encode(M[i], m[M[i].field])])
    BY <1>1, MarshalIs
  <2>5. ss = [i \in 1 .. n |-> ss[i]]
    BY <1>10
  <2> QED
    BY <2>1, <2>3, <2>4, <2>5
<1>12. PICK F : Joints(F, Byte, ss)
  BY <1>11, JointsExist
<1> DEFINE T == {k \in 0 .. n : Decodes(q, t, F[k], a, X[k])}
<1>13. 0 \in T
  <2>1. F[0] = <<>> /\ X[0] = a /\ 0 \in 0 .. n
    BY <1>7, <1>12 DEF Joints, Mixes
  <2>2. Fits(q, a)
    BY <1>8, <2>1
  <2>3. Decodes(q, t, F[0], a, X[0])
    BY <2>1, <2>2, DecodesEmpty
  <2> QED
    BY <2>1, <2>3
<1>14. \A k \in 0 .. n : k \in T /\ k < n => k + 1 \in T
  <2> SUFFICES ASSUME NEW k \in 0 .. n, k \in T, k < n
               PROVE  k + 1 \in T
    OBVIOUS
  <2>1. k + 1 \in 0 .. n /\ k + 1 \in 1 .. n /\ k \in 0 .. Len(ss) /\ k < Len(ss)
    BY <1>11
  <2>2. F[k + 1] = F[k] \o ss[k + 1]
    BY <1>12, <2>1 DEF Joints
  <2>3. Decodes(q, t, ss[k + 1], X[k], X[k + 1])
    BY <1>9, <1>10, <2>1
  <2>4. Decodes(q, t, F[k], a, X[k])
    OBVIOUS
  <2>5. Decodes(q, t, F[k + 1], a, X[k + 1])
    BY <2>2, <2>3, <2>4, DecodesJoin, Zenon
  <2> QED
    BY <2>1, <2>5
<1>15. \A k \in 0 .. n : k \in T
  <2> HIDE DEF T
  <2> QED
    BY <1>13, <1>14, UpTo
<1>16. Decodes(q, t, F[n], a, X[n])
  <2>1. n \in 0 .. n
    OBVIOUS
  <2> QED
    BY <1>15, <2>1
<1>17. X[n] = Merge(t, a, m)
  BY <1>5, <1>7 DEF Mixes
<1>18. Marshal(t, m) = F[n]
  BY <1>11, <1>12, FlattenIs
<1> QED
  BY <1>16, <1>17, <1>18, Zenon

LEMMA DecodedInside == ASSUME NEW t, Decoded(t) PROVE Inside(t)
<1>1. \A x : Fits(<<>>, x)
  BY DEF Fits
<1> QED
  BY <1>1, Zenon DEF Decoded, Inside

LEMMA AllDecoded == \A t \in DOMAIN Message : Decoded(t)
<1>1. \A t \in DOMAIN Message : Flat(t) => Decoded(t)
  BY DecodedStep DEF Flat
<1>2. \A t \in DOMAIN Message : Shallow(t) => Decoded(t)
  BY <1>1, DecodedStep, DecodedInside, Levels DEF Shallow
<1> QED
  BY <1>2, DecodedStep, DecodedInside, Levels

-----------------------------------------------------------------------------
(***************************************************************************)
(* An input is read as its parts say.                                      *)
(***************************************************************************)
\* What a part makes of the message a; r is what each of the first n make.
Taken(t, part, a) == IF part.known THEN Merge(t, a, part.value) ELSE a
Results(r, t, parts, n) ==
    r = [k \in 0 .. n |-> IF k = 0 THEN Zero(t) ELSE Taken(t, parts[k], r[k - 1])]

LEMMA ResultsExist ==
    ASSUME NEW t, NEW parts, NEW n \in Nat
    PROVE  \E r : Results(r, t, parts, n)
<1> DEFINE S == {k \in Nat : \E r : Results(r, t, parts, k)}
<1>1. 0 \in S
  <2>1. Results([k \in 0 .. 0 |-> Zero(t)], t, parts, 0)
    BY DEF Results
  <2> QED
    BY <2>1
<1>2. ASSUME NEW k \in Nat, k \in S PROVE k + 1 \in S
  <2>1. PICK f : Results(f, t, parts, k)
    BY <1>2
  <2> DEFINE g == [i \in 0 .. k + 1 |->
                     IF i = k + 1 THEN Taken(t, parts[k + 1], f[k]) ELSE f[i]]
  <2>2. ASSUME NEW i \in 0 .. k + 1
        PROVE  g[i] = IF i = 0 THEN Zero(t) ELSE Taken(t, parts[i], g[i - 1])
    <3>1. CASE i = k + 1
      <4>1. k \in 0 .. k + 1 /\ k # k + 1 /\ i # 0 /\ i - 1 = k
        BY <3>1
      <4>2. g[k] = f[k]
        BY <4>1
      <4> QED
        BY <3>1, <4>1, <4>2
    <3>2. CASE i # k + 1
      <4>1. i \in 0 .. k /\ g[i] = f[i]
        BY <3>2
      <4>2. f[i] = IF i = 0 THEN Zero(t) ELSE Taken(t, parts[i], f[i - 1])
        BY <2>1, <4>1 DEF Results
      <4>3. i # 0 => i - 1 \in 0 .. k + 1 /\ i - 1 # k + 1
        BY <4>1
      <4>4. i # 0 => g[i - 1] = f[i - 1]
        BY <4>3
      <4> QED
        BY <4>1, <4>2, <4>4
    <3> QED
      BY <3>1, <3>2
  <2>3. g = [i \in 0 .. k + 1 |-> g[i]]
    OBVIOUS
  <2> HIDE DEF g
  <2>4. Results(g, t, parts, k + 1)
    BY <2>2, <2>3 DEF Results
  <2> QED
    BY <2>4
<1> HIDE DEF S
<1>3. n \in S
  BY <1>1, <1>2, Naturally
<1> QED
  BY <1>3 DEF S

LEMMA ResultIs ==
    ASSUME NEW t, NEW S, NEW parts \in Seq(S)
    PROVE  \E r : /\ Result(t, parts) = r[Len(parts)] /\ r[0] = Zero(t)
                  /\ \A k \in 0 .. Len(parts) :
                       k < Len(parts) => r[k + 1] = Taken(t, parts[k + 1], r[k])
<1> DEFINE n == Len(parts)
           Step(g) == [k \in 0 .. n |-> IF k = 0 THEN Zero(t) ELSE Taken(t, parts[k], g[k - 1])]
           r == CHOOSE g : g = Step(g)
<1>0. n \in Nat
  OBVIOUS
<1>1. Result(t, parts) = r[n]
  BY DEF Result, Taken
<1>2. \A g : Results(g, t, parts, n) <=> g = Step(g)
  BY DEF Results
<1>3. \E g : Results(g, t, parts, n)
  BY <1>0, ResultsExist
<1> HIDE DEF Step
<1>4. Results(r, t, parts, n)
  BY <1>2, <1>3
<1> HIDE DEF r, n
<1>5. \A k \in 0 .. n : r[k] = IF k = 0 THEN Zero(t) ELSE Taken(t, parts[k], r[k - 1])
  BY <1>4 DEF Results
<1>6. r[0] = Zero(t)
  BY <1>0, <1>5
<1>7. ASSUME NEW k \in 0 .. n, k < n PROVE r[k + 1] = Taken(t, parts[k + 1], r[k])
  <2>1. k + 1 \in 0 .. n /\ k + 1 # 0 /\ (k + 1) - 1 = k
    BY <1>0, <1>7
  <2> QED
    BY <1>5, <2>1
<1> QED
  BY <1>1, <1>6, <1>7 DEF n

\* The parts of an input are read one after the other.
LEMMA PartsDecode ==
    ASSUME NEW in \in Inputs
    PROVE  Decodes(<<>>, in.type, Joined(in.type, in.parts), Zero(in.type),
                   Result(in.type, in.parts))
<1>1. PICK t, parts : t = in.type /\ parts = in.parts
  OBVIOUS
<1>2. /\ t \in DOMAIN Message /\ parts \in Seq(Range(parts))
      /\ \A i \in DOMAIN parts :
           IF parts[i].known THEN IsMessage(t, parts[i].value) ELSE UnknownField(t, parts[i].value)
  BY <1>1, InputsAssumption
<1>3. PICK n \in Nat : n = Len(parts) /\ DOMAIN parts = 1 .. n
  BY <1>2
<1>4. PICK r : /\ Result(t, parts) = r[n] /\ r[0] = Zero(t)
               /\ \A k \in 0 .. n : k < n => r[k + 1] = Taken(t, parts[k + 1], r[k])
  BY <1>2, <1>3, ResultIs
<1>5. PICK ss : ss = [i \in 1 .. n |-> Spelled(t, parts[i])]
  OBVIOUS
<1>6. \A i \in 1 .. n : ss[i] \in Seq(Byte)
  <2> SUFFICES ASSUME NEW i \in 1 .. n PROVE ss[i] \in Seq(Byte)
    OBVIOUS
  <2>1. ss[i] = IF parts[i].known THEN Marshal(t, parts[i].value) ELSE parts[i].value
    BY <1>5 DEF Spelled
  <2>2. CASE parts[i].known
    BY <1>2, <1>3, <2>1, <2>2, AllSized DEF Sized
  <2>3. CASE ~ parts[i].known
    BY <1>2, <1>3, <2>1, <2>3 DEF UnknownField
  <2> QED
    BY <2>2, <2>3
<1>7. ss \in Seq(Seq(Byte)) /\ Len(ss) = n /\ Joined(t, parts) = FlattenSeq(ss)
  <2>1. ss = [i \in 1 .. n |-> ss[i]]
    BY <1>5
  <2>2. Joined(t, parts) = FlattenSeq(ss)
    BY <1>3, <1>5 DEF Joined
  <2> QED
    BY <1>6, <2>1, <2>2
<1>8. PICK F : Joints(F, Byte, ss)
  BY <1>7, JointsExist
<1>9. \A x : Fits(<<>>, x)
  BY DEF Fits
<1> DEFINE T == {k \in 0 .. n : IsMessage(t, r[k]) /\ Decodes(<<>>, t, F[k], Zero(t), r[k])}
<1>10. 0 \in T
  <2>1. F[0] = <<>> /\ r[0] = Zero(t) /\ 0 \in 0 .. n
    BY <1>4, <1>8 DEF Joints
  <2>2. Decodes(<<>>, t, F[0], Zero(t), r[0])
    BY <1>9, <2>1, DecodesEmpty
  <2>3. IsMessage(t, r[0])
    BY <1>2, <2>1, AllMerge DEF Merges
  <2> QED
    BY <2>1, <2>2, <2>3
<1>11. \A k \in 0 .. n : k \in T /\ k < n => k + 1 \in T
  <2> SUFFICES ASSUME NEW k \in 0 .. n, k \in T, k < n
               PROVE  k + 1 \in T
    OBVIOUS
  <2>1. k + 1 \in 0 .. n /\ k + 1 \in 1 .. n /\ k \in 0 .. Len(ss) /\ k < Len(ss)
    BY <1>7
  <2>2. F[k + 1] = F[k] \o ss[k + 1]
    BY <1>8, <2>1 DEF Joints
  <2>3. PICK part : part = parts[k + 1]
    OBVIOUS
  <2>4. r[k + 1] = Taken(t, part, r[k])
    BY <1>4, <2>3
  <2>5. IF part.known THEN IsMessage(t, part.value) ELSE UnknownField(t, part.value)
    BY <1>2, <1>3, <2>1, <2>3
  <2>6. ss[k + 1] = IF part.known THEN Marshal(t, part.value) ELSE part.value
    BY <1>5, <2>1, <2>3 DEF Spelled
  <2>7. IsMessage(t, r[k]) /\ Decodes(<<>>, t, F[k], Zero(t), r[k])
    OBVIOUS
  <2>8. IsMessage(t, r[k + 1]) /\ Decodes(<<>>, t, ss[k + 1], r[k], r[k + 1])
    <3>1. CASE part.known
      <4>1. r[k + 1] = Merge(t, r[k], part.value) /\ ss[k + 1] = Marshal(t, part.value)
            /\ IsMessage(t, part.value)
        BY <2>4, <2>5, <2>6, <3>1 DEF Taken
      <4>2. IsMessage(t, r[k + 1])
        BY <1>2, <2>7, <4>1, AllMerge DEF Merges
      <4>3. Decodes(<<>>, t, ss[k + 1], r[k], r[k + 1])
        BY <1>2, <2>7, <4>1, AllDecoded, DecodedInside DEF Inside
      <4> QED
        BY <4>2, <4>3
    <3>2. CASE ~ part.known
      <4>1. r[k + 1] = r[k] /\ UnknownField(t, ss[k + 1])
        BY <2>4, <2>5, <2>6, <3>2 DEF Taken
      <4>2. Plain(t, ss[k + 1], r[k], r[k])
        BY <4>1, Zenon DEF Plain
      <4>3. ss[k + 1] \in Seq(Byte)
        BY <1>6, <2>1
      <4>4. Decodes(<<>>, t, ss[k + 1], r[k], r[k])
        BY <1>9, <4>2, <4>3, OneField
      <4> QED
        BY <2>7, <4>1, <4>4
    <3> QED
      BY <3>1, <3>2
  <2>9. Decodes(<<>>, t, F[k + 1], Zero(t), r[k + 1])
    BY <2>2, <2>7, <2>8, DecodesJoin, Zenon
  <2> QED
    BY <2>1, <2>8, <2>9
<1>12. \A k \in 0 .. n : k \in T
  <2> HIDE DEF T
  <2> QED
    BY <1>10, <1>11, UpTo
<1>13. Decodes(<<>>, t, F[n], Zero(t), r[n])
  <2>1. n \in 0 .. n
    OBVIOUS
  <2> QED
    BY <1>12, <2>1
<1>14. Joined(t, parts) = F[n]
  BY <1>7, <1>8, FlattenIs
<1> QED
  BY <1>1, <1>4, <1>13, <1>14, Zenon

-----------------------------------------------------------------------------
(***************************************************************************)
(* Reading a field from a buffer that may have been cut off.               *)
(***************************************************************************)
\* From p on the buffer d holds what chunk and rest are, but for the tail.
Splice(d, p, tail, chunk, rest) ==
    /\ Buffer(d) /\ p \in Nat /\ p <= Len(d) /\ tail \in Seq(Byte)
    /\ chunk \in Seq(Byte) /\ rest \in Seq(Byte)
    /\ From(d, p) \o tail = chunk \o rest /\ Buffer(From(d, p) \o tail)

LEMMA ConcatExtends ==
    ASSUME NEW s \in Seq(Byte), NEW t \in Seq(Byte)
    PROVE  Extends(s, s \o t)
BY DEF Extends

LEMMA ConcatIs ==
    ASSUME NEW s \in Seq(Byte), NEW t \in Seq(Byte), NEW m, m = Len(s), NEW n, n = Len(t)
    PROVE  /\ \A i \in 1 .. m + n : (s \o t)[i] = IF i <= m THEN s[i] ELSE t[i - m]
           /\ Len(s \o t) = m + n /\ s \o t \in Seq(Byte)
BY ConcatProperties

LEMMA SpliceExtends ==
    ASSUME NEW d, NEW p, NEW tail, NEW chunk, NEW rest, Splice(d, p, tail, chunk, rest)
    PROVE  /\ Extends(From(d, p), chunk \o rest) /\ Extends(chunk, chunk \o rest)
           /\ Buffer(From(d, p)) /\ Buffer(chunk) /\ Buffer(chunk \o rest)
           /\ tail = <<>> => From(d, p) = chunk \o rest
<1>1. PICK f : f = From(d, p) /\ Buffer(f) /\ f \in Seq(Byte)
  BY FromIs DEF Splice, Buffer
<1>2. f \o tail = chunk \o rest /\ Buffer(f \o tail) /\ chunk \in Seq(Byte) /\ rest \in Seq(Byte)
      /\ tail \in Seq(Byte)
  BY <1>1 DEF Splice
<1>3. Extends(f, f \o tail) /\ Extends(chunk, chunk \o rest)
  BY <1>1, <1>2, ConcatExtends
<1>4. Buffer(chunk)
  <2>1. PICK b \in Nat : Two[WordBits - 1] = b
    BY TwoNat, WidthsAssumption
  <2>2. Len(chunk \o rest) < b
    BY <1>2, <2>1 DEF Buffer
  <2>3. Len(chunk \o rest) = Len(chunk) + Len(rest) /\ Len(chunk) \in Nat /\ Len(rest) \in Nat
    BY <1>2
  <2> QED
    BY <1>2, <2>1, <2>2, <2>3 DEF Buffer
<1>5. f \o <<>> = f
  BY <1>1
<1> QED
  BY <1>1, <1>2, <1>3, <1>4, <1>5

\* What is left behind the chunk.
LEMMA SpliceRest ==
    ASSUME NEW d, NEW p, NEW tail, NEW chunk, NEW rest, Splice(d, p, tail, chunk, rest),
           p + Len(chunk) <= Len(d)
    PROVE  rest = From(d, p + Len(chunk)) \o tail
<1>1. PICK f, n, c : f = From(d, p) /\ n = Len(d) /\ c = Len(chunk)
  OBVIOUS
<1>2. /\ f \in Seq(Byte) /\ Len(f) = n - p /\ n \in Nat /\ c \in Nat /\ p \in Nat /\ p + c <= n
      /\ \A k \in 1 .. n - p : f[k] = d[p + k]
  BY <1>1, FromIs, SMTT(40) DEF Splice, Buffer
<1>3. PICK g : /\ g = From(d, p + c) /\ g \in Seq(Byte) /\ Len(g) = n - (p + c)
               /\ \A k \in 1 .. n - (p + c) : g[k] = d[p + c + k]
  <2>1. p + c \in Nat /\ p + c <= Len(d) /\ Buffer(d)
    BY <1>1, <1>2 DEF Splice
  <2>2. /\ Buffer(From(d, p + c)) /\ Len(From(d, p + c)) = Len(d) - (p + c)
        /\ \A k \in 1 .. Len(d) - (p + c) : From(d, p + c)[k] = d[(p + c) + k]
    BY <2>1, FromIs
  <2> QED
    BY <1>1, <2>2 DEF Buffer
<1>4. f \o tail = chunk \o rest /\ tail \in Seq(Byte) /\ chunk \in Seq(Byte) /\ rest \in Seq(Byte)
  BY <1>1 DEF Splice
<1>5. PICK l \in Nat, r \in Nat, k \in Nat, h \in Nat, z \in Nat :
        /\ l = Len(tail) /\ r = Len(rest) /\ k = Len(f) /\ h = Len(g) /\ k = h + z /\ z = Len(chunk)
  <2>1. n - (p + c) \in Nat /\ n - p \in Nat /\ n - p = (n - (p + c)) + c
    BY <1>2
  <2>2. Len(tail) \in Nat /\ Len(rest) \in Nat
    BY <1>4
  <2>3. Len(f) \in Nat /\ Len(g) \in Nat /\ Len(f) = Len(g) + c /\ c = Len(chunk)
    BY <1>1, <1>2, <1>3, <2>1
  <2> QED
    BY <1>2, <2>2, <2>3
<1>6. /\ \A i \in 1 .. k + l : (f \o tail)[i] = IF i <= k THEN f[i] ELSE tail[i - k]
      /\ Len(f \o tail) = k + l
  <2>1. f \in Seq(Byte) /\ tail \in Seq(Byte) /\ k = Len(f) /\ l = Len(tail)
    BY <1>2, <1>4, <1>5
  <2> QED
    BY <2>1, ConcatIs
<1>13. /\ \A i \in 1 .. h + l : (g \o tail)[i] = IF i <= h THEN g[i] ELSE tail[i - h]
       /\ Len(g \o tail) = h + l /\ g \o tail \in Seq(Byte)
  <2>1. g \in Seq(Byte) /\ tail \in Seq(Byte) /\ h = Len(g) /\ l = Len(tail)
    BY <1>3, <1>4, <1>5
  <2> QED
    BY <2>1, ConcatIs
<1>11. /\ \A i \in 1 .. z + r : (chunk \o rest)[i] = IF i <= z THEN chunk[i] ELSE rest[i - z]
       /\ Len(chunk \o rest) = z + r
  <2>1. chunk \in Seq(Byte) /\ rest \in Seq(Byte) /\ z = Len(chunk) /\ r = Len(rest)
    BY <1>4, <1>5
  <2> QED
    BY <2>1, ConcatIs
<1>7. r = h + l
  <2>1. k + l = z + r
    BY <1>4, <1>6, <1>11, Zenon
  <2> QED
    BY <1>5, <2>1
<1>8. Len(g \o tail) = r
  BY <1>7, <1>13
<1>12. \A i \in 1 .. h : f[z + i] = g[i]
  <2> SUFFICES ASSUME NEW i \in 1 .. h PROVE f[z + i] = g[i]
    OBVIOUS
  <2>1. h = n - (p + c) /\ k = n - p /\ z = c
    BY <1>1, <1>2, <1>3, <1>5
  <2>2. i \in 1 .. n - (p + c)
    BY <2>1
  <2>3. g[i] = d[p + c + i]
    BY <1>3, <2>2
  <2>4. c + i \in 1 .. n - p /\ p + (c + i) = p + c + i
    BY <1>2, <2>2
  <2>5. f[c + i] = d[p + (c + i)]
    BY <1>2, <2>4
  <2> QED
    BY <2>1, <2>3, <2>4, <2>5
<1>9. ASSUME NEW i \in 1 .. r
      PROVE  rest[i] = (g \o tail)[i]
  <2>1. z + i \in 1 .. z + r /\ ~ (z + i <= z) /\ (z + i) - z = i /\ i \in 1 .. h + l
        /\ z + i \in 1 .. k + l
    BY <1>5, <1>7
  <2>2. (chunk \o rest)[z + i] = rest[i]
    BY <1>11, <2>1
  <2>3. (f \o tail)[z + i] = IF z + i <= k THEN f[z + i] ELSE tail[(z + i) - k]
    BY <1>6, <2>1
  <2>4. (g \o tail)[i] = IF i <= h THEN g[i] ELSE tail[i - h]
    BY <1>13, <2>1
  <2>5. (z + i <= k <=> i <= h) /\ (z + i) - k = i - h
    BY <1>5
  <2>6. i <= h => f[z + i] = g[i]
    BY <1>12
  <2> QED
    BY <1>4, <2>2, <2>3, <2>4, <2>5, <2>6
<1>10. rest = g \o tail
  BY <1>4, <1>5, <1>13, <1>8, <1>9, SeqEqual
<1> QED
  BY <1>1, <1>3, <1>10

\* The same varint in a buffer and in its part from p on.
LEMMA ReadsShifted ==
    ASSUME NEW d, Buffer(d), NEW p \in Nat, p <= Len(d), NEW j \in Nat, NEW v, NEW n \in Nat
    PROVE  Reads(d, p + j, v, (p + j) + n) <=> Reads(From(d, p), j, v, j + n)
<1>1. PICK f, m : /\ f = From(d, p) /\ m = Len(d) /\ m \in Nat /\ f \in Seq(Byte) /\ Len(f) = m - p
                  /\ \A k \in 1 .. m - p : f[k] = d[p + k]
                  /\ d \in Seq(Byte) /\ p <= m
  <2>1. /\ From(d, p) \in Seq(Byte) /\ Len(From(d, p)) = Len(d) - p /\ d \in Seq(Byte)
        /\ \A k \in 1 .. Len(d) - p : From(d, p)[k] = d[p + k]
    BY FromIs DEF Buffer
  <2>2. Len(d) \in Nat
    BY <2>1
  <2> QED
    BY <2>1, <2>2, Zenon
<1>2. ASSUME (p + j) + n <= m
      PROVE  /\ SameBytes(d, p + j, f, j, n) /\ SameBytes(f, j, d, p + j, n)
             /\ j + n <= Len(f) /\ (p + j) + n <= Len(d) /\ p + j \in Nat
  <2>1. \A k \in 1 .. n : f[j + k] = d[(p + j) + k]
    <3> SUFFICES ASSUME NEW k \in 1 .. n PROVE f[j + k] = d[(p + j) + k]
      OBVIOUS
    <3>1. j + k \in 1 .. m - p /\ p + (j + k) = (p + j) + k
      BY <1>1, <1>2
    <3> QED
      BY <1>1, <3>1
  <2> QED
    BY <1>1, <1>2, <2>1 DEF SameBytes
<1>3. ASSUME Reads(d, p + j, v, (p + j) + n)
      PROVE  Reads(f, j, v, j + n)
  <2>1. (p + j) + n <= m
    BY <1>1, <1>3, ReadsBounds
  <2> QED
    BY <1>1, <1>2, <1>3, <2>1, ReadsSame
<1>4. ASSUME Reads(f, j, v, j + n)
      PROVE  Reads(d, p + j, v, (p + j) + n)
  <2>1. j + n \in j + 1 .. Len(f)
    BY <1>1, <1>4, ReadsBounds
  <2>2. (p + j) + n <= m
    BY <1>1, <2>1
  <2> QED
    BY <1>1, <1>2, <1>4, <2>2, ReadsSame
<1> QED
  BY <1>1, <1>3, <1>4

\* A varint of the chunk is read from the buffer as it is, or not at all.
LEMMA ReadsChunk ==
    ASSUME NEW d, NEW p, NEW tail, NEW chunk, NEW rest, Splice(d, p, tail, chunk, rest),
           NEW j \in Nat, NEW v, NEW e, Reads(chunk, j, v, e)
    PROVE  /\ tail = <<>> => Reads(d, p + j, v, p + e)
           /\ \A w, n : Reads(d, p + j, w, n) => w = v /\ n = p + e
<1>1. /\ Buffer(d) /\ p \in Nat /\ p <= Len(d) /\ Len(d) \in Nat /\ d \in Seq(Byte)
      /\ chunk \in Seq(Byte) /\ Len(chunk) \in Nat
  BY DEF Splice, Buffer
<1>2. PICK f, s : f = From(d, p) /\ s = chunk \o rest /\ Extends(f, s) /\ Extends(chunk, s)
                  /\ (tail = <<>> => f = s)
  <2>1. /\ Extends(From(d, p), chunk \o rest) /\ Extends(chunk, chunk \o rest)
        /\ tail = <<>> => From(d, p) = chunk \o rest
    BY SpliceExtends
  <2> QED
    BY <2>1, Zenon
<1>3. Reads(s, j, v, e)
  BY <1>2, ReadsExtended
<1>4. PICK n \in Nat : e = j + n /\ p + e = (p + j) + n
  <2>1. e \in j + 1 .. Len(chunk)
    BY <1>1, ReadsBounds
  <2> QED
    BY <1>1, <2>1
<1>5. ASSUME tail = <<>> PROVE Reads(d, p + j, v, p + e)
  <2>1. Reads(From(d, p), j, v, j + n)
    BY <1>2, <1>3, <1>4, <1>5
  <2>2. Reads(d, p + j, v, (p + j) + n)
    BY <1>1, <2>1, ReadsShifted
  <2> QED
    BY <1>4, <2>2
<1>6. ASSUME NEW w, NEW l, Reads(d, p + j, w, l)
      PROVE  w = v /\ l = p + e
  <2>1. l \in (p + j) + 1 .. Len(d)
    <3>1. p + j \in Nat
      BY <1>1
    <3> QED
      BY <1>1, <1>6, <3>1, ReadsBounds
  <2>2. PICK k \in Nat : l = (p + j) + k
    BY <1>1, <2>1
  <2>3. Reads(f, j, w, j + k)
    BY <1>1, <1>2, <1>6, <2>2, ReadsShifted
  <2>4. Reads(s, j, w, j + k)
    BY <1>2, <2>3, ReadsExtended
  <2>5. w = v /\ j + k = e
    BY <1>3, <2>4, ReadsOnce
  <2> QED
    BY <1>1, <1>4, <2>2, <2>5
<1> QED
  BY <1>5, <1>6

\* The bytes of the chunk are in the buffer, as far as it goes.
LEMMA SpliceBytes ==
    ASSUME NEW d, NEW p, NEW tail, NEW chunk, NEW rest, Splice(d, p, tail, chunk, rest)
    PROVE  /\ tail = <<>> => p + Len(chunk) <= Len(d)
           /\ \A k \in 1 .. Len(chunk) : p + k <= Len(d) => d[p + k] = chunk[k]
<1>1. /\ Buffer(d) /\ p \in Nat /\ p <= Len(d) /\ Len(d) \in Nat
      /\ chunk \in Seq(Byte) /\ rest \in Seq(Byte) /\ Len(chunk) \in Nat /\ Len(rest) \in Nat
  BY DEF Splice, Buffer
<1>2. PICK f : f = From(d, p)
  OBVIOUS
<1>3. /\ Extends(f, chunk \o rest) /\ Extends(chunk, chunk \o rest)
      /\ tail = <<>> => f = chunk \o rest
  BY <1>2, SpliceExtends
<1>4. Len(f) = Len(d) - p /\ \A k \in 1 .. Len(d) - p : f[k] = d[p + k]
  BY <1>1, <1>2, FromIs
<1>5. ASSUME tail = <<>> PROVE p + Len(chunk) <= Len(d)
  <2>1. Len(chunk) <= Len(f)
    BY <1>3, <1>5 DEF Extends
  <2> QED
    BY <1>1, <1>4, <2>1
<1>6. ASSUME NEW k \in 1 .. Len(chunk), p + k <= Len(d)
      PROVE  d[p + k] = chunk[k]
  <2>1. k \in 1 .. Len(d) - p
    BY <1>1, <1>6
  <2>2. (chunk \o rest)[k] = chunk[k]
    BY <1>3 DEF Extends
  <2>3. (chunk \o rest)[k] = f[k]
    BY <1>3, <1>4, <2>1 DEF Extends
  <2> QED
    BY <1>4, <2>1, <2>2, <2>3
<1> QED
  BY <1>5, <1>6

\* A tag, the length and the bytes, one by one.
LEMMA DelimitedAt ==
    ASSUME NEW h \in Byte, NEW body \in Seq(Byte), Buffer(Delimited(h, body))
    PROVE  \E n, l : /\ n = Len(body) /\ n \in Nat /\ l \in Nat /\ n < Two[WordBits - 1]
                     /\ Len(Delimited(h, body)) = (1 + l) + n /\ Delimited(h, body)[1] = h
                     /\ \A k \in 1 .. n : Delimited(h, body)[(1 + l) + k] = body[k]
                     /\ Reads(Delimited(h, body), 1, n, 1 + l)
<1>1. PICK n, w : n = Len(body) /\ w = n % Two[WordBits]
  OBVIOUS
<1>2. PICK v, c : v = encodeVarint(w) /\ c = Delimited(h, body)
  OBVIOUS
<1>3. PICK t \in Nat, u \in Nat : t = Two[WordBits - 1] /\ u = Two[WordBits] /\ t <= u /\ t > 0
  <2>1. Two[WordBits - 1] <= Two[WordBits] /\ Two[WordBits - 1] \in Nat /\ Two[WordBits] \in Nat
        /\ Two[WordBits - 1] > 0
    BY TwoNat, TwoGrows, WidthsAssumption
  <2> QED
    BY <2>1
<1>4. n \in Nat
  BY <1>1
<1>5. w \in 0 .. u - 1
  BY <1>1, <1>3, <1>4, InWord
<1>6. PICK l \in Nat : l = sov(w) /\ l >= 1 /\ v \in Seq(Byte) /\ Len(v) = l
  BY <1>2, <1>3, <1>5, EncodeIs
<1>7. c = <<h>> \o v \o body
  BY <1>1, <1>2 DEF Delimited
<1>8. /\ Len(c) = (1 + l) + n /\ c \in Seq(Byte) /\ c[1] = h
      /\ \A k \in 1 .. l : c[1 + k] = v[k]
      /\ \A k \in 1 .. n : c[(1 + l) + k] = body[k]
  <2>1. PICK g : g = <<h>> \o v
    OBVIOUS
  <2>2. /\ Len(g) = 1 + l /\ g \in Seq(Byte)
        /\ \A k \in 1 .. 1 + l : g[k] = IF k <= 1 THEN <<h>>[k] ELSE v[k - 1]
    <3>1. <<h>> \in Seq(Byte) /\ Len(<<h>>) = 1
      OBVIOUS
    <3> QED
      BY <1>6, <2>1, <3>1, ConcatIs
  <2>3. /\ Len(g \o body) = (1 + l) + n /\ g \o body \in Seq(Byte)
        /\ \A k \in 1 .. (1 + l) + n :
             (g \o body)[k] = IF k <= 1 + l THEN g[k] ELSE body[k - (1 + l)]
    BY <1>1, <2>2, ConcatIs, SMTT(40)
  <2>4. \A k \in 1 .. n : (g \o body)[(1 + l) + k] = body[k]
    <3> SUFFICES ASSUME NEW k \in 1 .. n PROVE (g \o body)[(1 + l) + k] = body[k]
      OBVIOUS
    <3>1. (1 + l) + k \in 1 .. (1 + l) + n /\ ~ ((1 + l) + k <= 1 + l)
          /\ ((1 + l) + k) - (1 + l) = k
      BY <1>4
    <3> QED
      BY <2>3, <3>1
  <2>5. \A k \in 1 .. l : (g \o body)[1 + k] = v[k]
    <3> SUFFICES ASSUME NEW k \in 1 .. l PROVE (g \o body)[1 + k] = v[k]
      OBVIOUS
    <3>1. 1 + k \in 1 .. (1 + l) + n /\ 1 + k <= 1 + l /\ 1 + k \in 1 .. 1 + l
          /\ ~ (1 + k <= 1) /\ (1 + k) - 1 = k
      BY <1>4
    <3>2. (g \o body)[1 + k] = g[1 + k]
      BY <2>3, <3>1
    <3> QED
      BY <2>2, <3>1, <3>2
  <2>6. (g \o body)[1] = h
    <3>1. 1 \in 1 .. (1 + l) + n /\ 1 <= 1 + l /\ 1 \in 1 .. 1 + l
      BY <1>4
    <3>2. (g \o body)[1] = g[1]
      BY <2>3, <3>1
    <3>3. g[1] = <<h>>[1]
      BY <2>2, <3>1
    <3> QED
      BY <3>2, <3>3
  <2>7. c = g \o body
    BY <1>7, <2>1
  <2> QED
    BY <2>3, <2>4, <2>5, <2>6, <2>7
<1>9. n < t
  BY <1>2, <1>3, <1>4, <1>8 DEF Buffer
<1>10. w = n
  <2>1. n \in 0 .. u - 1
    BY <1>3, <1>4, <1>9
  <2> QED
    BY <1>1, <1>3, <2>1, Small
<1>11. Reads(v, 0, w, 0 + l)
  <2>1. Reads(v, 0, w, l)
    BY <1>2, <1>3, <1>5, <1>6, EncodeReads
  <2> QED
    BY <1>6, <2>1
<1>12. SameBytes(v, 0, c, 1, l)
  <2>1. \A k \in 1 .. l : c[1 + k] = v[0 + k]
    BY <1>6, <1>8
  <2> QED
    BY <2>1 DEF SameBytes
<1>13. Reads(c, 1, w, 1 + l)
  <2>1. 1 + l <= Len(c)
    BY <1>4, <1>6, <1>8
  <2> QED
    BY <1>6, <1>8, <1>11, <1>12, <2>1, ReadsSame
<1>14. n = Len(body) /\ n < Two[WordBits - 1] /\ Reads(c, 1, n, 1 + l)
  BY <1>1, <1>3, <1>9, <1>10, <1>13
<1> QED
  BY <1>2, <1>4, <1>6, <1>8, <1>14, Zenon

\* The bytes behind a tag and their length are found as they are, or not at all.
Found(d, i, body, next) ==
    \E b : /\ Delimits(d, i, b, next) /\ b \in Nat /\ next \in Nat /\ i < b /\ b <= next
           /\ next <= Len(d) /\ SubSeq(d, b + 1, next) = body

LEMMA DelimitsChunk ==
    ASSUME NEW d, NEW p, NEW tail, NEW chunk, NEW rest, Splice(d, p, tail, chunk, rest),
           NEW h \in Byte, NEW body \in Seq(Byte), chunk = Delimited(h, body)
    PROVE  \/ tail # <<>> /\ IsErr(ReadDelimited(d, p + 1))
           \/ Found(d, p + 1, body, p + Len(chunk))
<1>1. /\ Buffer(d) /\ p \in Nat /\ p <= Len(d) /\ Len(d) \in Nat /\ d \in Seq(Byte)
      /\ Buffer(chunk)
  <2>1. Buffer(chunk)
    BY SpliceExtends
  <2> QED
    BY <2>1 DEF Splice, Buffer
<1>2. PICK n, l : /\ n = Len(body) /\ n \in Nat /\ l \in Nat /\ n < Two[WordBits - 1]
                  /\ Len(chunk) = (1 + l) + n /\ Reads(chunk, 1, n, 1 + l)
                  /\ \A k \in 1 .. n : chunk[(1 + l) + k] = body[k]
  BY <1>1, DelimitedAt
<1>3. /\ tail = <<>> => Reads(d, p + 1, n, p + (1 + l))
      /\ \A w, m : Reads(d, p + 1, w, m) => w = n /\ m = p + (1 + l)
  BY <1>2, ReadsChunk
<1>4. PICK b, e : b = p + (1 + l) /\ e = b + n /\ b \in Nat /\ e \in Nat /\ p + 1 \in Nat
  BY <1>1, <1>2, SMTT(40)
<1>5. e = p + Len(chunk)
  BY <1>1, <1>2, <1>4
<1>6. ASSUME Reads(d, p + 1, n, b), e <= Len(d)
      PROVE  Found(d, p + 1, body, p + Len(chunk))
  <2>1. Delimits(d, p + 1, b, e)
    BY <1>1, <1>2, <1>4, <1>6, DelimitedBy
  <2>2. p + 1 < b
    BY <1>1, <1>4, <1>6, ReadsBounds
  <2>3. SubSeq(d, b + 1, e) = body
    <3>1. \A k \in 1 .. n : d[b + k] = body[k]
      <4> SUFFICES ASSUME NEW k \in 1 .. n PROVE d[b + k] = body[k]
        OBVIOUS
      <4>1. /\ (1 + l) + k \in 1 .. Len(chunk) /\ p + ((1 + l) + k) <= Len(d)
            /\ p + ((1 + l) + k) = b + k
        BY <1>1, <1>2, <1>4, <1>6
      <4>2. d[p + ((1 + l) + k)] = chunk[(1 + l) + k]
        BY <4>1, SpliceBytes
      <4> QED
        BY <1>2, <4>1, <4>2
    <3>2. /\ SubSeq(d, b + 1, e) \in Seq(Byte) /\ Len(SubSeq(d, b + 1, e)) = n
          /\ \A k \in 1 .. n : SubSeq(d, b + 1, e)[k] = d[b + k]
      <4>1. b + 1 \in 1 .. Len(d) + 1 /\ e \in b .. Len(d) /\ e - b = n
        BY <1>1, <1>2, <1>4, <1>6
      <4> QED
        BY <1>1, <1>2, <1>4, <4>1
    <3> QED
      BY <1>2, <3>1, <3>2, SeqEqual
  <2>4. b <= e
    BY <1>2, <1>4
  <2>5. Found(d, p + 1, body, e)
    BY <1>4, <1>6, <2>1, <2>2, <2>3, <2>4, Zenon DEF Found
  <2> QED
    BY <1>5, <2>5, Zenon
<1>7. CASE tail = <<>>
  <2>1. e <= Len(d)
    BY <1>5, <1>7, SpliceBytes
  <2> QED
    BY <1>3, <1>4, <1>6, <1>7, <2>1
<1>8. CASE tail # <<>>
  <2>1. CASE IsErr(ReadDelimited(d, p + 1))
    BY <1>8, <2>1
  <2>2. CASE \E c, len : Reads(d, p + 1, len, c) /\ c + len <= Len(d)
    <3>1. PICK c, len : Reads(d, p + 1, len, c) /\ c + len <= Len(d)
      BY <2>2
    <3>2. len = n /\ c = b
      BY <1>3, <1>4, <3>1
    <3> QED
      BY <1>4, <1>6, <3>1, <3>2
  <2> QED
    BY <1>1, <1>4, <2>1, <2>2, DelimitsOrFails
<1> QED
  BY <1>7, <1>8

\* A field of an unknown number is skipped as it is, or not at all.
LEMMA SkipsChunk ==
    ASSUME NEW d, NEW p, NEW tail, NEW chunk, NEW rest, Splice(d, p, tail, chunk, rest),
           Skips(chunk, Len(chunk))
    PROVE  \/ tail # <<>> /\ Ended(skip(From(d, p)))
           \/ Skips(From(d, p), Len(chunk))
<1>1. PICK f, s : f = From(d, p) /\ s = chunk \o rest
  OBVIOUS
<1>2. /\ Extends(f, s) /\ Extends(chunk, s) /\ Buffer(f) /\ Buffer(chunk) /\ Buffer(s)
      /\ tail = <<>> => f = s
  BY <1>1, SpliceExtends
<1>3. Skips(s, Len(chunk))
  BY <1>2, SkipExtended
<1>4. CASE tail = <<>>
  BY <1>1, <1>2, <1>3, <1>4
<1>5. CASE tail # <<>>
  <2>1. ASSUME NEW j, Skips(f, j) PROVE j = Len(chunk)
    <3>1. Skips(s, j)
      BY <1>2, <2>1, SkipExtended
    <3>2. Got(0, j) = Got(0, Len(chunk))
      BY <1>3, <3>1 DEF Skips
    <3>3. Got(0, j).next = j /\ Got(0, Len(chunk)).next = Len(chunk)
      BY GotFields
    <3> QED
      BY <3>2, <3>3
  <2>2. Ended(skip(f)) \/ \E j : Skips(f, j)
    BY <1>2, SkipCases
  <2> QED
    BY <1>1, <1>5, <2>1, <2>2
<1> QED
  BY <1>4, <1>5

\* The tag of a known field is one byte, and its row the only one of that number.
LEMMA RowTag ==
    ASSUME NEW t \in DOMAIN Message, NEW row \in Rows(t)
    PROVE  /\ Tag(row) \in 0 .. 127 /\ Tag(row) % 8 = row.wireType
           /\ ToInt(Tag(row) \div 8, IntBits) = row.num
           /\ Tag(row) % 8 # 4 /\ row.num \in 1 .. 15
           /\ \A r \in Rows(t) : r.num = row.num => r = row
           /\ row.wireType = IF row.kind \in {"uint", "int", "flag"} THEN 0 ELSE 2
<1>1. PICK n \in Nat :
        /\ \A i \in 1 .. n : RowAgrees(Message[t].Marshal[i], Message[t].Size[i], Message[t].Unmarshal[i])
        /\ \A i, j \in 1 .. n : i # j => Message[t].Unmarshal[i].num # Message[t].Unmarshal[j].num
        /\ \A r \in Rows(t) : \E i \in 1 .. n : r = Message[t].Unmarshal[i]
  BY Tables, ZenonT(60)
<1>2. PICK i \in 1 .. n : row = Message[t].Unmarshal[i]
  BY <1>1
<1>3. PICK w, c : RowAgrees(w, c, row)
  BY <1>1, <1>2
<1>4. PICK k \in 1 .. 15, wt \in {0, 2} : row.num = k /\ row.wireType = wt
  BY <1>3, HeadIs
<1>5. PICK v : v = Tag(row) /\ v = 8 * k + wt /\ v \in 0 .. 127
  BY <1>4 DEF Tag
<1>6. v % 8 = wt /\ v \div 8 = k
  BY <1>4, <1>5
<1>7. ToInt(k, IntBits) = k
  <2>1. IntBits \in 1 .. WordBits /\ 7 \in 0 .. WordBits /\ IntBits - 1 \in 0 .. WordBits /\ 7 <= IntBits - 1
    BY WidthsAssumption
  <2>2. Two[7] <= Two[IntBits - 1] /\ Two[IntBits - 1] \in Nat /\ Two[7] = 128
    BY <2>1, TwoGrows, TwoNat, TwoOfSeven
  <2>3. k \in 0 .. Two[IntBits - 1] - 1 /\ k \in Int
    BY <2>2
  <2> QED
    BY <2>1, <2>3, ToIntValue
<1>8. ASSUME NEW r \in Rows(t), r.num = row.num PROVE r = row
  BY <1>1, <1>2, <1>8
<1>9. row.wireType = IF row.kind \in {"uint", "int", "flag"} THEN 0 ELSE 2
  BY <1>3 DEF RowAgrees
<1> QED
  BY <1>4, <1>5, <1>6, <1>7, <1>8, <1>9

\* A byte below 128 is a varint of its own.
LEMMA ReadsByte ==
    ASSUME NEW s \in Seq(Byte), Len(s) >= 1, NEW v \in 0 .. 127, s[1] = v
    PROVE  Reads(s, 0, v, 1)
<1>1. PICK u \in Nat : u = Two[WordBits] /\ 128 <= u
  <2>1. Two[7] <= Two[WordBits] /\ Two[WordBits] \in Nat
    BY TwoGrows, TwoNat, WidthsAssumption
  <2> QED
    BY <2>1, TwoOfSeven
<1>2. 1 \in Ends(s, 0)
  <2>1. 1 \in 1 .. WordBits /\ 7 * (1 - 1) < WordBits /\ 0 + 1 <= Len(s) /\ 0 + 1 = 1
    BY WidthsAssumption
  <2> QED
    BY <2>1 DEF Ends
<1>3. PICK n, f : Stops(s, 0, n) /\ Accumulates(f, s, 0, n) /\ Reads(s, 0, f[n], 0 + n)
  BY <1>2, ReadVarintStops
<1>4. n = 1
  <2>1. n \in Nat /\ n >= 1
    BY <1>3, StopsReadable
  <2>2. n <= 1
    BY <1>2, <1>3 DEF Stops
  <2> QED
    BY <2>1, <2>2
<1>5. Readable(s, 0, n)
  BY <1>3, StopsReadable
<1>6. f[0] = 0 /\ f[1] = (f[1 - 1] + (s[0 + 1] % 128) * Two[7 * (1 - 1)]) % Two[WordBits]
  <2>1. 1 \in 1 .. n
    BY <1>4
  <2> QED
    BY <1>3, <1>5, <2>1, AccumulatesStep
<1>7. f[1] = v
  <2>1. 1 - 1 = 0 /\ 0 + 1 = 1 /\ 7 * (1 - 1) = 0
    OBVIOUS
  <2>2. f[1] = (0 + (v % 128) * 1) % u
    BY <1>1, <1>6, <2>1, TwoOfSeven, SMTT(40)
  <2>3. v % 128 = v /\ 0 + v * 1 = v
    OBVIOUS
  <2>4. v % u = v
    <3>1. v \in 0 .. u - 1
      BY <1>1
    <3> QED
      BY <3>1, Small
  <2> QED
    BY <2>2, <2>3, <2>4
<1> QED
  BY <1>3, <1>4, <1>7

\* One field, of whatever kind.
Item(t, chunk, a, x) ==
    \/ Plain(t, chunk, a, x)
    \/ \E row, body, y, z : /\ Holds(t, chunk, a, x, row, body, y, z)
                            /\ Decodes(<<>>, row.type, body, y, z)

\* A known field begins with its tag.
LEMMA TagFirst ==
    ASSUME NEW t \in DOMAIN Message, NEW row \in Rows(t), NEW chunk \in Seq(Byte)
    PROVE  /\ \A s \in Seq(Byte) : chunk = <<Tag(row)>> \o s => Reads(chunk, 0, Tag(row), 1)
           /\ \A body \in Seq(Byte) : chunk = Delimited(Tag(row), body) =>
                Reads(chunk, 0, Tag(row), 1)
<1>1. PICK h : h = Tag(row) /\ h \in 0 .. 127
  BY RowTag, ZenonT(60)
<1>2. h \in Byte /\ <<h>> \in Seq(Byte)
  BY <1>1 DEF Byte
<1>3. ASSUME NEW s \in Seq(Byte), chunk = <<h>> \o s
      PROVE  Reads(chunk, 0, h, 1)
  <2>1. chunk[1] = h /\ Len(chunk) >= 1
    BY <1>2, <1>3
  <2> QED
    BY <1>1, <2>1, ReadsByte
<1>4. ASSUME NEW body \in Seq(Byte), chunk = Delimited(h, body)
      PROVE  Reads(chunk, 0, h, 1)
  <2>1. PICK w : w = Len(body) % Two[WordBits] /\ w \in 0 .. Two[WordBits] - 1
    BY InWord, SMTT(40)
  <2>2. PICK v \in Seq(Byte) : v = encodeVarint(w)
    BY <2>1, EncodeIs
  <2>3. chunk = <<h>> \o v \o body
    BY <1>4, <2>1, <2>2, Zenon DEF Delimited
  <2>4. <<h>> \o v \o body = <<h>> \o (v \o body) /\ v \o body \in Seq(Byte)
    BY <1>2, ConcatAssociative
  <2> QED
    BY <1>3, <2>3, <2>4
<1> QED
  BY <1>1, <1>3, <1>4

\* A field's first bytes are a tag that Unmarshal accepts.
LEMMA ItemTag ==
    ASSUME NEW t \in DOMAIN Message, NEW chunk \in Seq(Byte), NEW a, NEW x, Item(t, chunk, a, x)
    PROVE  /\ chunk # <<>>
           /\ \E v, k : /\ Reads(chunk, 0, v, k) /\ v % 8 # 4
                        /\ ToInt(v \div 8, IntBits) > 0
           /\ \/ UnknownField(t, chunk) /\ x = a
              \/ \E row \in Rows(t) : Reads(chunk, 0, Tag(row), 1)
<1>1. CASE UnknownField(t, chunk) /\ x = a
  <2>1. PICK r : r = ReadVarint(chunk, 0)
    OBVIOUS
  <2>2. ~ IsErr(r) /\ r.v % 8 # 4 /\ ToInt(r.v \div 8, IntBits) > 0 /\ chunk # <<>>
    BY <1>1, <2>1, Zenon DEF UnknownField
  <2>3. PICK v, k : Reads(chunk, 0, v, k)
    BY <2>1, <2>2, ReadsOrFails
  <2>4. r.v = v
    BY <2>1, <2>3, ReadsFields
  <2> QED
    BY <1>1, <2>2, <2>3, <2>4
<1>2. CASE \E row \in Rows(t) : Reads(chunk, 0, Tag(row), 1)
  <2>1. PICK row \in Rows(t) : Reads(chunk, 0, Tag(row), 1)
    BY <1>2
  <2>2. /\ Tag(row) % 8 # 4 /\ ToInt(Tag(row) \div 8, IntBits) = row.num /\ row.num \in 1 .. 15
    BY RowTag
  <2>3. ToInt(Tag(row) \div 8, IntBits) > 0
    BY <2>2
  <2>4. chunk # <<>>
    <3>1. 1 \in 0 + 1 .. Len(chunk)
      BY <2>1, ReadsBounds
    <3> QED
      BY <3>1
  <2> QED
    BY <2>1, <2>2, <2>3, <2>4, Zenon
<1>3. CASE \E row \in Rows(t), w \in 0 .. Two[WordBits] - 1 : chunk = <<Tag(row)>> \o encodeVarint(w)
  BY <1>2, <1>3, TagFirst, EncodeIs
<1>4. CASE \E row \in Rows(t), body \in Seq(Byte) : chunk = Delimited(Tag(row), body)
  BY <1>2, <1>4, TagFirst
<1>5. CASE \E row, body, y, z : Holds(t, chunk, a, x, row, body, y, z)
  BY <1>4, <1>5 DEF Holds
<1> QED
  BY <1>1, <1>3, <1>4, <1>5, Zenon DEF Item, Plain

\* Nothing is left to read.
LEMMA DecodesNothing ==
    ASSUME NEW t \in DOMAIN Message, NEW q, NEW a, NEW b, Decodes(q, t, <<>>, a, b)
    PROVE  a = b
<1>1. CASE Continues(q, t, <<>>, a, b)
  <2>1. PICK chunk, rest, x : /\ chunk \in Seq(Byte) /\ rest \in Seq(Byte)
                              /\ <<>> = chunk \o rest /\ Item(t, chunk, a, x)
    BY <1>1, Zenon DEF Continues, Item
  <2>2. chunk # <<>>
    BY <2>1, ItemTag
  <2>3. Len(chunk \o rest) = Len(chunk) + Len(rest) /\ Len(chunk) \in Nat /\ Len(rest) \in Nat
    BY <2>1
  <2>4. Len(chunk) # 0
    BY <2>1, <2>2, EmptySeq
  <2>5. Len(<<>>) = 0
    OBVIOUS
  <2>6. Len(chunk \o rest) = 0
    BY <2>1, <2>5, Zenon
  <2> QED
    BY <2>3, <2>4, <2>6
<1> QED
  BY <1>1, DecodesGoesOn

\* What is left begins with a field.
LEMMA DecodesField ==
    ASSUME NEW d, Buffer(d), NEW p \in Nat, p < Len(d), NEW tail \in Seq(Byte),
           Buffer(From(d, p) \o tail), NEW q, NEW t, NEW a, NEW b,
           Decodes(q, t, From(d, p) \o tail, a, b)
    PROVE  \E chunk, rest, x : /\ Splice(d, p, tail, chunk, rest) /\ Item(t, chunk, a, x)
                               /\ Decodes(q, t, rest, x, b)
<1>1. p <= Len(d) /\ Len(d) \in Nat
  BY DEF Buffer
<1>2. PICK s : s = From(d, p) \o tail
  OBVIOUS
<1>3. s # <<>>
  <2>1. PICK f : f = From(d, p) /\ f \in Seq(Byte) /\ Len(f) = Len(d) - p
    <3>1. From(d, p) \in Seq(Byte) /\ Len(From(d, p)) = Len(d) - p
      BY <1>1, FromIs DEF Buffer
    <3> QED
      BY <3>1, Zenon
  <2>2. Len(f) > 0
    BY <1>1, <2>1
  <2>3. Len(f \o tail) = Len(f) + Len(tail) /\ Len(f) \in Nat /\ Len(tail) \in Nat
    BY <2>1
  <2>4. Len(s) # 0
    BY <1>2, <2>1, <2>2, <2>3
  <2> QED
    BY <2>4
<1>4. Continues(q, t, s, a, b)
  BY <1>2, <1>3, DecodesGoesOn
<1>5. PICK chunk, rest, x : /\ chunk \in Seq(Byte) /\ rest \in Seq(Byte) /\ s = chunk \o rest
                            /\ Decodes(q, t, rest, x, b) /\ Item(t, chunk, a, x)
  BY <1>4, Zenon DEF Continues, Item
<1>6. Splice(d, p, tail, chunk, rest)
  BY <1>1, <1>2, <1>5 DEF Splice
<1> QED
  BY <1>5, <1>6, Zenon

-----------------------------------------------------------------------------
(***************************************************************************)
(* Unmarshal reads what the bytes stand for.                               *)
(***************************************************************************)
\* Where the call's field begins, and the bytes from there: those of its buffer
\* and the tail that was cut off.
Pos(fr) == IF fr.wire = NoTag THEN fr.iNdEx ELSE fr.preIndex
Ahead(fr, tail) == From(fr.dAtA, Pos(fr)) \o tail

\* They lead from x to b.
Expects(fr, q, tail, x, b) ==
    /\ tail \in Seq(Byte) /\ Buffer(Ahead(fr, tail))
    /\ Decodes(q, fr.type, Ahead(fr, tail), x, b)

LEMMA ExpectsField ==
    ASSUME NEW fr, FrameOk(fr), NEW q, NEW tail, NEW a, NEW b, Expects(fr, q, tail, a, b),
           fr.wire = NoTag => fr.iNdEx < Len(fr.dAtA)
    PROVE  /\ Pos(fr) \in Nat /\ Pos(fr) < Len(fr.dAtA)
           /\ \E chunk, rest, x :
                /\ Splice(fr.dAtA, Pos(fr), tail, chunk, rest) /\ Item(fr.type, chunk, a, x)
                /\ Decodes(q, fr.type, rest, x, b)
<1>1. Buffer(fr.dAtA) /\ fr.iNdEx \in Nat /\ Len(fr.dAtA) \in Nat /\ fr.dAtA \in Seq(Byte)
  BY DEF FrameOk, Buffer
<1>2. Pos(fr) \in Nat /\ Pos(fr) < Len(fr.dAtA)
  <2>1. CASE fr.wire = NoTag
    BY <1>1, <2>1 DEF Pos
  <2>2. CASE fr.wire # NoTag
    <3>1. fr.preIndex \in Nat /\ Reads(fr.dAtA, fr.preIndex, fr.wire, fr.iNdEx)
      BY <2>2 DEF FrameOk
    <3>2. fr.iNdEx \in fr.preIndex + 1 .. Len(fr.dAtA)
      BY <1>1, <3>1, ReadsBounds
    <3>3. fr.preIndex < Len(fr.dAtA)
      BY <1>1, <3>1, <3>2
    <3> QED
      BY <2>2, <3>1, <3>3 DEF Pos
  <2> QED
    BY <2>1, <2>2
<1>3. PICK p \in Nat : p = Pos(fr) /\ p < Len(fr.dAtA)
  BY <1>2
<1>4. /\ tail \in Seq(Byte) /\ Buffer(From(fr.dAtA, p) \o tail)
      /\ Decodes(q, fr.type, From(fr.dAtA, p) \o tail, a, b)
  BY <1>3, Zenon DEF Expects, Ahead
<1>5. \E chunk, rest, x :
        /\ Splice(fr.dAtA, p, tail, chunk, rest) /\ Item(fr.type, chunk, a, x)
        /\ Decodes(q, fr.type, rest, x, b)
  BY <1>1, <1>3, <1>4, DecodesField
<1> QED
  BY <1>2, <1>3, <1>5, Zenon

\* Behind the field the call expects the rest.
LEMMA ExpectsRest ==
    ASSUME NEW fr, FrameOk(fr), NEW p, NEW tail, NEW chunk, NEW rest,
           Splice(fr.dAtA, p, tail, chunk, rest), p + Len(chunk) <= Len(fr.dAtA),
           NEW q, NEW x, NEW b, Decodes(q, fr.type, rest, x, b), NEW m, NEW k
    PROVE  Expects(Moved(fr, p + Len(chunk), NoTag, k, m), q, tail, x, b)
<1>1. PICK i : i = p + Len(chunk) /\ i \in Nat /\ i <= Len(fr.dAtA)
  BY DEF Splice
<1>2. PICK g : g = Moved(fr, i, NoTag, k, m) /\ g.dAtA = fr.dAtA /\ g.type = fr.type
               /\ g.wire = NoTag /\ g.iNdEx = i
  <2>1. PICK g : g = Moved(fr, i, NoTag, k, m)
    OBVIOUS
  <2>2. g.dAtA = fr.dAtA /\ g.type = fr.type /\ g.wire = NoTag /\ g.iNdEx = i
    BY <1>1, <2>1, MovedOk
  <2> QED
    BY <2>1, <2>2
<1>3. rest = From(fr.dAtA, i) \o tail
  BY <1>1, SpliceRest
<1>4. Ahead(g, tail) = rest
  BY <1>2, <1>3, Zenon DEF Ahead, Pos
<1>5. Buffer(rest) /\ tail \in Seq(Byte)
  <2>1. /\ chunk \in Seq(Byte) /\ rest \in Seq(Byte) /\ tail \in Seq(Byte)
    BY DEF Splice
  <2>2. Buffer(chunk \o rest)
    BY SpliceExtends
  <2>3. PICK t \in Nat : t = Two[WordBits - 1]
    BY TwoNat, WidthsAssumption
  <2>4. Len(chunk \o rest) = Len(chunk) + Len(rest) /\ Len(chunk) \in Nat /\ Len(rest) \in Nat
    BY <2>1
  <2>5. Len(chunk \o rest) < t
    BY <2>2, <2>3 DEF Buffer
  <2> QED
    BY <2>1, <2>3, <2>4, <2>5 DEF Buffer
<1>6. Expects(g, q, tail, x, b)
  BY <1>2, <1>4, <1>5, Zenon DEF Expects
<1> QED
  BY <1>1, <1>2, <1>6, Zenon

\* The input ends too early and is rejected; or the innermost call goes on as it
\* should.
Refuses(tail) == tail # <<>> /\ Rejects
Goes(q, tail, b) ==
    \E fr : /\ frames' = Put(frames, Len(frames), fr) /\ fr.row = Top.row
            /\ Expects(fr, q, tail, fr.m, b) /\ UNCHANGED <<input, err, out>>

LEMMA ResumeGoes ==
    ASSUME NEW fr, Resume(fr), fr.row = Top.row, NEW q, NEW tail, NEW b,
           Expects(fr, q, tail, fr.m, b)
    PROVE  Goes(q, tail, b)
<1>1. frames' = Put(frames, Len(frames), fr) /\ UNCHANGED <<input, err, out>>
  BY DEF Resume, Put
<1> QED
  BY <1>1, Zenon DEF Goes

LEMMA ReadTagReads ==
    ASSUME FramesOk(frames), NEW q, NEW tail, NEW b, Expects(Top, q, tail, Top.m, b), ReadTag
    PROVE  Refuses(tail) \/ Goes(q, tail, b)
<1>1. frames # <<>> /\ Top.wire = NoTag /\ Top.iNdEx < Len(Top.dAtA)
  BY ReadTagCases
<1>2. FrameOk(Top) /\ Top.dAtA \in Seq(Byte) /\ Top.iNdEx \in Nat /\ Top.type \in DOMAIN Message
  BY <1>1, TopIs DEF FrameOk, Buffer
<1>3. Pos(Top) = Top.iNdEx
  BY <1>1 DEF Pos
<1>4. PICK d, i, tag : d = Top.dAtA /\ i = Top.iNdEx /\ tag = ReadVarint(d, i)
  OBVIOUS
<1>5. CASE (IsErr(tag) \/ tag.v % 8 = 4 \/ ToInt(tag.v \div 8, IntBits) <= 0) /\ Rejects
  <2>1. PICK chunk, rest, x : Splice(d, i, tail, chunk, rest) /\ Item(Top.type, chunk, Top.m, x)
    BY <1>1, <1>2, <1>3, <1>4, ExpectsField
  <2>2. chunk \in Seq(Byte)
    BY <2>1 DEF Splice
  <2>3. PICK v, k : Reads(chunk, 0, v, k) /\ v % 8 # 4 /\ ToInt(v \div 8, IntBits) > 0
    BY <1>2, <2>1, <2>2, ItemTag
  <2>4. ASSUME tail = <<>> PROVE FALSE
    <3>1. Reads(d, i + 0, v, i + k)
      BY <2>1, <2>3, <2>4, ReadsChunk
    <3>2. Reads(d, i, v, i + k)
      BY <1>2, <1>4, <3>1
    <3>3. ~ IsErr(tag) /\ tag.v = v
      BY <1>4, <3>2, ReadsFields
    <3>4. v \in Int
      BY <1>2, <1>4, <3>2, ReadsBounds, TwoNat, WidthsAssumption
    <3>5. PICK u : u = ToInt(v \div 8, IntBits) /\ u \in Int
      <4>1. v \div 8 \in Int /\ IntBits \in 1 .. WordBits /\ IntBits - 1 \in 0 .. WordBits
        BY <3>4, WidthsAssumption
      <4>2. Two[IntBits - 1] \in Nat
        BY <4>1, TwoNat
      <4>3. ToInt(v \div 8, IntBits) \in Int
        BY <4>1, <4>2, ToIntValue
      <4> QED
        BY <4>3
    <3>6. u > 0 /\ ~ (u <= 0)
      BY <2>3, <3>5
    <3> QED
      BY <1>5, <2>3, <3>3, <3>5, <3>6
  <2> QED
    BY <1>5, <2>4 DEF Refuses
<1>6. CASE /\ ~ IsErr(tag)
           /\ Resume([Top EXCEPT !.iNdEx = tag.next, !.wire = tag.v, !.preIndex = Top.iNdEx])
  <2>1. PICK v, next : Reads(d, i, v, next)
    BY <1>2, <1>4, <1>6, ReadsOrFails
  <2>2. tag.v = v /\ tag.next = next
    BY <1>4, <2>1, ReadsFields
  <2>3. v # NoTag /\ next \in Nat /\ next <= Len(d)
    <3>1. v \in 0 .. Two[WordBits] - 1 /\ next \in i + 1 .. Len(d)
      BY <1>2, <1>4, <2>1, ReadsBounds
    <3>2. Two[WordBits] \in Nat
      BY TwoNat, WidthsAssumption
    <3> QED
      BY <1>2, <1>4, <3>1, <3>2 DEF NoTag
  <2>4. PICK fr : fr = Moved(Top, next, v, i, Top.m)
    OBVIOUS
  <2>5. Resume(fr)
    <3>1. [Top EXCEPT !.iNdEx = next, !.wire = v, !.preIndex = i] = fr
      BY <1>2, <2>4, MovedExcept, ZenonT(60)
    <3> QED
      BY <1>4, <1>6, <2>2, <3>1, Zenon
  <2>6. /\ fr.type = Top.type /\ fr.dAtA = Top.dAtA /\ fr.wire = v /\ fr.preIndex = i
        /\ fr.m = Top.m /\ fr.row = Top.row
    BY <1>2, <1>4, <2>1, <2>3, <2>4, MovedOk
  <2>7. Pos(fr) = i
    BY <2>3, <2>6 DEF Pos
  <2>8. Ahead(fr, tail) = Ahead(Top, tail)
    BY <1>3, <1>4, <2>6, <2>7, Zenon DEF Ahead
  <2>9. Expects(fr, q, tail, fr.m, b)
    BY <2>6, <2>8, Zenon DEF Expects
  <2> QED
    BY <2>5, <2>6, <2>9, ResumeGoes
<1> QED
  BY <1>4, <1>5, <1>6, ReadTagCases

\* At the switch: the field the call has to read.
Facing(q, tail, b, chunk, rest, x) ==
    /\ Splice(Top.dAtA, Top.preIndex, tail, chunk, rest) /\ Item(Top.type, chunk, Top.m, x)
    /\ Decodes(q, Top.type, rest, x, b)

LEMMA SwitchField ==
    ASSUME FramesOk(frames), AtSwitch, NEW q, NEW tail, NEW b, Expects(Top, q, tail, Top.m, b)
    PROVE  \E chunk, rest, x : Facing(q, tail, b, chunk, rest, x)
<1>1. FrameOk(Top) /\ Top.wire # NoTag
  BY AtSwitchIs DEF AtSwitch
<1>2. Pos(Top) = Top.preIndex
  BY <1>1 DEF Pos
<1>3. \E chunk, rest, x :
        /\ Splice(Top.dAtA, Pos(Top), tail, chunk, rest) /\ Item(Top.type, chunk, Top.m, x)
        /\ Decodes(q, Top.type, rest, x, b)
  BY <1>1, ExpectsField
<1> QED
  BY <1>2, <1>3, Zenon DEF Facing

\* The tag that has been read is the field's.
LEMMA SwitchTag ==
    ASSUME FramesOk(frames), AtSwitch, NEW tail, NEW chunk, NEW rest,
           Splice(Top.dAtA, Top.preIndex, tail, chunk, rest), NEW v, NEW k, Reads(chunk, 0, v, k)
    PROVE  Top.wire = v /\ Top.iNdEx = Top.preIndex + k
<1>1. /\ Top.preIndex \in Nat /\ Reads(Top.dAtA, Top.preIndex, Top.wire, Top.iNdEx)
  BY AtSwitchIs
<1>2. PICK d, p, w, i : d = Top.dAtA /\ p = Top.preIndex /\ w = Top.wire /\ i = Top.iNdEx
  OBVIOUS
<1>3. \A u, n : Reads(d, p + 0, u, n) => u = v /\ n = p + k
  BY <1>2, ReadsChunk
<1>4. Reads(d, p + 0, w, i)
  BY <1>1, <1>2
<1> QED
  BY <1>2, <1>3, <1>4

LEMMA SwitchUnknown ==
    ASSUME FramesOk(frames), AtSwitch, NEW tail, NEW chunk, NEW rest,
           Splice(Top.dAtA, Top.preIndex, tail, chunk, rest), UnknownField(Top.type, chunk)
    PROVE  Cases = {}
<1>1. chunk \in Seq(Byte)
  BY DEF Splice
<1>2. PICK r : r = ReadVarint(chunk, 0)
  OBVIOUS
<1>3. ~ IsErr(r) /\ \A row \in Rows(Top.type) : row.num # ToInt(r.v \div 8, IntBits)
  BY <1>2, Zenon DEF UnknownField, Rows
<1>4. PICK v, k : Reads(chunk, 0, v, k)
  BY <1>1, <1>2, <1>3, ReadsOrFails
<1>5. r.v = v
  BY <1>2, <1>4, ReadsFields
<1>6. Top.wire = v
  BY <1>4, SwitchTag
<1>7. \A row \in Rows(Top.type) : row.num # FieldNum
  BY <1>3, <1>5, <1>6, Zenon DEF FieldNum
<1> QED
  BY <1>7, CasesAre

LEMMA SwitchKnown ==
    ASSUME FramesOk(frames), AtSwitch, NEW tail, NEW chunk, NEW rest,
           Splice(Top.dAtA, Top.preIndex, tail, chunk, rest),
           NEW row \in Rows(Top.type), Reads(chunk, 0, Tag(row), 1)
    PROVE  Cases = {row} /\ WireType = row.wireType /\ Top.iNdEx = Top.preIndex + 1
<1>1. Top.wire = Tag(row) /\ Top.iNdEx = Top.preIndex + 1
  BY SwitchTag
<1>2. Top.type \in DOMAIN Message
  BY AtSwitchIs
<1>3. /\ Tag(row) % 8 = row.wireType /\ ToInt(Tag(row) \div 8, IntBits) = row.num
      /\ \A r \in Rows(Top.type) : r.num = row.num => r = row
  BY <1>2, RowTag
<1>4. FieldNum = row.num /\ WireType = row.wireType
  BY <1>1, <1>3, Zenon DEF FieldNum, WireType
<1>5. row \in Cases
  BY <1>4 DEF Cases, Rows
<1>6. \A r \in Cases : r = row
  BY <1>3, <1>4, CasesAre
<1> QED
  BY <1>1, <1>4, <1>5, <1>6

LEMMA AdvanceGoes ==
    ASSUME FramesOk(frames), AtSwitch, NEW tail, NEW chunk, NEW rest,
           Splice(Top.dAtA, Top.preIndex, tail, chunk, rest),
           Top.preIndex + Len(chunk) <= Len(Top.dAtA), NEW q, NEW b, NEW x,
           Decodes(q, Top.type, rest, x, b), Advance(Top.preIndex + Len(chunk), x)
    PROVE  Goes(q, tail, b)
<1>1. FrameOk(Top) /\ Top.preIndex \in Nat
  BY AtSwitchIs
<1>2. PICK i, k : i = Top.preIndex + Len(chunk) /\ k = Top.preIndex
  OBVIOUS
<1>3. PICK fr : fr = Moved(Top, i, NoTag, k, x)
  OBVIOUS
<1>4. Expects(fr, q, tail, x, b)
  BY <1>1, <1>2, <1>3, ExpectsRest
<1>5. fr.m = x /\ fr.row = Top.row
  <2>1. i \in Nat /\ i <= Len(Top.dAtA)
    BY <1>1, <1>2 DEF Splice
  <2> QED
    BY <1>1, <1>3, <2>1, MovedOk
<1>6. Resume(fr)
  <2>1. [Top EXCEPT !.iNdEx = i, !.wire = NoTag, !.m = x] = fr
    BY <1>1, <1>2, <1>3, MovedAhead, Zenon
  <2> QED
    BY <1>2, <2>1, Zenon DEF Advance
<1> QED
  BY <1>4, <1>5, <1>6, ResumeGoes

LEMMA SkipFieldReads ==
    ASSUME FramesOk(frames), NEW q, NEW tail, NEW b, Expects(Top, q, tail, Top.m, b), SkipField
    PROVE  Refuses(tail) \/ Goes(q, tail, b)
<1>1. AtSwitch /\ Cases = {}
  BY SkipFieldCases
<1>2. PICK chunk, rest, x : Facing(q, tail, b, chunk, rest, x)
  BY <1>1, SwitchField
<1>3. PICK d, p, t : d = Top.dAtA /\ p = Top.preIndex /\ t = Top.type
  OBVIOUS
<1>4. /\ Splice(d, p, tail, chunk, rest) /\ Item(t, chunk, Top.m, x) /\ Decodes(q, t, rest, x, b)
      /\ chunk \in Seq(Byte) /\ t \in DOMAIN Message /\ Buffer(d) /\ p \in Nat /\ p <= Len(d)
  <2>1. /\ Splice(d, p, tail, chunk, rest) /\ Item(t, chunk, Top.m, x) /\ Decodes(q, t, rest, x, b)
    BY <1>2, <1>3, Zenon DEF Facing
  <2>2. t \in DOMAIN Message
    BY <1>1, <1>3, AtSwitchIs
  <2> QED
    BY <2>1, <2>2 DEF Splice
<1>5. UnknownField(t, chunk) /\ x = Top.m
  <2>1. ASSUME NEW row \in Rows(t), Reads(chunk, 0, Tag(row), 1) PROVE FALSE
    BY <1>1, <1>3, <1>4, <2>1, SwitchKnown
  <2> QED
    BY <1>4, <2>1, ItemTag
<1>6. PICK n : n = Len(chunk) /\ n \in Nat /\ Skips(chunk, n)
  BY <1>4, <1>5 DEF UnknownField, Skips
<1>7. PICK s, next : s = skip(From(d, p)) /\ next = Index(p + s.next)
  OBVIOUS
<1>8. \/ (IsErr(s) \/ next < 0 \/ next > Len(d)) /\ Rejects
      \/ /\ ~ IsErr(s) /\ ~ (next < 0) /\ ~ (next > Len(d)) /\ Advance(next, x)
  BY <1>3, <1>5, <1>7, SkipFieldCases
<1>9. CASE tail # <<>> /\ Ended(s)
  <2>1. IsErr(s)
    BY <1>9, EndedFields
  <2> QED
    BY <1>8, <1>9, <2>1 DEF Refuses
<1>10. CASE Skips(From(d, p), n)
  <2>1. s = Got(0, n) /\ ~ IsErr(s) /\ s.next = n
    <3>1. s = Got(0, n)
      BY <1>7, <1>10 DEF Skips
    <3> QED
      BY <3>1, GotFields
  <2>2. PICK h \in Nat : h = Two[WordBits - 1]
    BY TwoNat, WidthsAssumption
  <2>3. n < h /\ p < h /\ Len(d) < h /\ Len(d) \in Nat
    <3>1. Buffer(chunk)
      BY <1>4, SpliceExtends
    <3>2. n < h /\ Len(d) < h /\ Len(d) \in Nat
      BY <1>4, <1>6, <2>2, <3>1 DEF Buffer
    <3> QED
      BY <1>4, <2>2, <3>2
  <2>4. /\ next \in Int /\ (p + n < h => next = p + n) /\ (~ (p + n < h) => next < 0)
    BY <1>4, <1>6, <1>7, <2>1, <2>2, <2>3, IndexAhead
  <2>5. tail = <<>> => p + n <= Len(d)
    BY <1>4, <1>6, SpliceBytes
  <2>6. CASE (IsErr(s) \/ next < 0 \/ next > Len(d)) /\ Rejects
    <3>1. ASSUME tail = <<>> PROVE FALSE
      BY <1>4, <1>6, <2>1, <2>2, <2>3, <2>4, <2>5, <2>6, <3>1
    <3> QED
      BY <2>6, <3>1 DEF Refuses
  <2>7. CASE ~ (next < 0) /\ ~ (next > Len(d)) /\ Advance(next, x)
    <3>1. next = p + n /\ p + n <= Len(d)
      BY <1>4, <1>6, <2>2, <2>3, <2>4, <2>7
    <3>2. Advance(Top.preIndex + Len(chunk), x)
      BY <1>3, <1>6, <2>7, <3>1, Zenon
    <3> QED
      BY <1>1, <1>3, <1>4, <1>6, <3>1, <3>2, AdvanceGoes
  <2> QED
    BY <1>8, <2>6, <2>7
<1> QED
  BY <1>4, <1>6, <1>7, <1>9, <1>10, SkipsChunk

LEMMA WrongWireTypeReads ==
    ASSUME FramesOk(frames), NEW q, NEW tail, NEW b, Expects(Top, q, tail, Top.m, b), WrongWireType
    PROVE  FALSE
<1>1. PICK row \in Cases : row.wireType # WireType
  BY DEF WrongWireType
<1>2. AtSwitch
  BY CasesAre
<1>3. PICK chunk, rest, x : Facing(q, tail, b, chunk, rest, x)
  BY <1>2, SwitchField
<1>4. /\ Splice(Top.dAtA, Top.preIndex, tail, chunk, rest) /\ Item(Top.type, chunk, Top.m, x)
      /\ chunk \in Seq(Byte) /\ Top.type \in DOMAIN Message
  BY <1>2, <1>3, AtSwitchIs DEF Facing, Splice
<1>5. CASE UnknownField(Top.type, chunk)
  BY <1>2, <1>4, <1>5, SwitchUnknown
<1>6. ASSUME NEW r \in Rows(Top.type), Reads(chunk, 0, Tag(r), 1) PROVE FALSE
  BY <1>1, <1>2, <1>4, <1>6, SwitchKnown
<1> QED
  BY <1>4, <1>5, <1>6, ItemTag

\* The field is of the kind its row says.
LEMMA SwitchItem ==
    ASSUME FramesOk(frames), NEW row \in Cases, NEW q, NEW tail, NEW b, NEW chunk, NEW rest, NEW x,
           Facing(q, tail, b, chunk, rest, x)
    PROVE  /\ AtSwitch /\ row \in Rows(Top.type) /\ Top.iNdEx = Top.preIndex + 1
           /\ \/ /\ row.kind \in {"uint", "int", "flag"}
                 /\ \E w \in 0 .. Two[WordBits] - 1 :
                      /\ chunk = <<Tag(row)>> \o encodeVarint(w)
                      /\ x = Put(Top.m, row.field, Number(row, w))
              \/ /\ row.kind = "raw"
                 /\ \E bytes \in Seq(Byte) : /\ chunk = Delimited(Tag(row), bytes)
                                             /\ x = Put(Top.m, row.field, bytes)
              \/ \E body, y, z : /\ Holds(Top.type, chunk, Top.m, x, row, body, y, z)
                                 /\ Decodes(<<>>, row.type, body, y, z)
<1>1. AtSwitch /\ row \in Rows(Top.type)
  BY CasesAre
<1>2. PICK t, m : t = Top.type /\ m = Top.m
  OBVIOUS
<1>3. /\ Splice(Top.dAtA, Top.preIndex, tail, chunk, rest) /\ Item(t, chunk, m, x)
      /\ chunk \in Seq(Byte) /\ t \in DOMAIN Message
  BY <1>1, <1>2, AtSwitchIs DEF Facing, Splice
<1>4. ~ UnknownField(t, chunk)
  BY <1>1, <1>2, <1>3, SwitchUnknown
<1>5. ASSUME NEW r \in Rows(t), Reads(chunk, 0, Tag(r), 1)
      PROVE  r = row /\ Top.iNdEx = Top.preIndex + 1
  <2>1. Cases = {r} /\ Top.iNdEx = Top.preIndex + 1
    BY <1>1, <1>2, <1>3, <1>5, SwitchKnown
  <2> QED
    BY <2>1
<1>6. Top.iNdEx = Top.preIndex + 1
  BY <1>3, <1>4, <1>5, ItemTag
<1>7. CASE \E r \in Rows(t), w \in 0 .. Two[WordBits] - 1 :
             /\ r.kind \in {"uint", "int", "flag"} /\ chunk = <<Tag(r)>> \o encodeVarint(w)
             /\ x = Put(m, r.field, Number(r, w))
  <2>1. PICK r, w : /\ r \in Rows(t) /\ w \in 0 .. Two[WordBits] - 1
                    /\ r.kind \in {"uint", "int", "flag"} /\ chunk = <<Tag(r)>> \o encodeVarint(w)
                    /\ x = Put(m, r.field, Number(r, w))
    BY <1>7
  <2>2. encodeVarint(w) \in Seq(Byte)
    BY <2>1, EncodeIs
  <2>3. r = row
    BY <1>3, <1>5, <2>1, <2>2, TagFirst
  <2> QED
    BY <1>1, <1>2, <1>6, <2>1, <2>3, Zenon
<1>8. CASE \E r \in Rows(t), bytes \in Seq(Byte) :
             /\ r.kind = "raw" /\ chunk = Delimited(Tag(r), bytes) /\ x = Put(m, r.field, bytes)
  <2>1. PICK r, bytes : /\ r \in Rows(t) /\ bytes \in Seq(Byte) /\ r.kind = "raw"
                        /\ chunk = Delimited(Tag(r), bytes) /\ x = Put(m, r.field, bytes)
    BY <1>8
  <2>2. r = row
    BY <1>3, <1>5, <2>1, TagFirst
  <2> QED
    BY <1>1, <1>2, <1>6, <2>1, <2>2, Zenon
<1>9. CASE \E r, body, y, z : Holds(t, chunk, m, x, r, body, y, z) /\ Decodes(<<>>, r.type, body, y, z)
  <2>1. PICK r, body, y, z : /\ Holds(t, chunk, m, x, r, body, y, z)
                             /\ Decodes(<<>>, r.type, body, y, z)
    BY <1>9
  <2>2. r \in Rows(t) /\ body \in Seq(Byte) /\ chunk = Delimited(Tag(r), body)
    BY <2>1 DEF Holds
  <2>3. r = row
    BY <1>3, <1>5, <2>2, TagFirst
  <2> QED
    BY <1>1, <1>2, <1>6, <2>1, <2>3, Zenon
<1> QED
  BY <1>3, <1>4, <1>7, <1>8, <1>9, Zenon DEF Item, Plain

LEMMA DecodeNumberReads ==
    ASSUME FramesOk(frames), NEW q, NEW tail, NEW b, Expects(Top, q, tail, Top.m, b),
           NEW row \in Cases, DecodeNumber(row)
    PROVE  Refuses(tail) \/ Goes(q, tail, b)
<1>1. AtSwitch /\ row \in Rows(Top.type) /\ row.kind \in {"uint", "int", "flag"}
  BY CasesAre DEF DecodeNumber
<1>2. PICK chunk, rest, x : Facing(q, tail, b, chunk, rest, x)
  BY <1>1, SwitchField
<1>3. PICK w \in 0 .. Two[WordBits] - 1 : /\ chunk = <<Tag(row)>> \o encodeVarint(w)
                                          /\ x = Put(Top.m, row.field, Number(row, w))
  <2>1. ~ Embeds(row) /\ row.kind # "raw"
    BY <1>1 DEF Embeds
  <2> QED
    BY <1>2, <2>1, SwitchItem DEF Holds
<1>4. PICK d, p, i, m, r : /\ d = Top.dAtA /\ p = Top.preIndex /\ i = p + 1 /\ i = Top.iNdEx /\ m = Top.m
                           /\ r = ReadVarint(d, i)
  BY <1>2, SwitchItem
<1>5. /\ Splice(d, p, tail, chunk, rest) /\ Decodes(q, Top.type, rest, x, b)
      /\ p \in Nat /\ d \in Seq(Byte) /\ chunk \in Seq(Byte) /\ Top.type \in DOMAIN Message
  BY <1>1, <1>2, <1>4, AtSwitchIs DEF Facing, Splice
<1>6. IF IsErr(r) THEN Fail(r.err) ELSE Advance(r.next, Put(m, row.field, Number(row, r.v)))
  BY <1>4, Zenon DEF DecodeNumber, Put
<1>7. PICK v, n : v = encodeVarint(w) /\ n \in Nat /\ v \in Seq(Byte) /\ Len(v) = n /\ n = sov(w)
  BY EncodeIs
<1>8. Reads(chunk, 1, w, 1 + n) /\ Len(chunk) = 1 + n
  <2>1. PICK h \in Byte : h = Tag(row)
    <3>1. Tag(row) \in 0 .. 127
      BY <1>1, <1>5, RowTag
    <3> QED
      BY <3>1 DEF Byte
  <2>2. chunk = <<h>> \o v
    BY <1>3, <1>7, <2>1
  <2>3. Len(chunk) = 1 + n /\ \A k \in 1 .. n : chunk[1 + k] = v[0 + k]
    BY <1>7, <2>2
  <2>4. SameBytes(v, 0, chunk, 1, n)
    BY <2>3 DEF SameBytes
  <2>5. Reads(v, 0, w, 0 + n)
    <3>1. Reads(v, 0, w, n) /\ 0 + n = n
      BY <1>7, EncodeReads
    <3> QED
      BY <3>1
  <2> QED
    BY <1>5, <1>7, <2>3, <2>4, <2>5, ReadsSame
<1>9. /\ tail = <<>> => Reads(d, i, w, p + Len(chunk))
      /\ \A u, k : Reads(d, i, u, k) => u = w /\ k = p + Len(chunk)
  BY <1>4, <1>5, <1>8, ReadsChunk
<1>10. CASE IsErr(r)
  <2>1. tail # <<>>
    BY <1>4, <1>9, <1>10, ReadsFields
  <2>2. Fail(r.err) /\ r.err # ""
    BY <1>6, <1>10, Zenon DEF IsErr
  <2> QED
    BY <2>1, <2>2, Zenon DEF Refuses, Rejects
<1>11. CASE ~ IsErr(r)
  <2>1. i \in Nat
    BY <1>4, <1>5
  <2>2. PICK u, k : Reads(d, i, u, k)
    BY <1>4, <1>5, <1>11, <2>1, ReadsOrFails
  <2>3. u = w /\ k = p + Len(chunk) /\ r.v = w /\ r.next = k
    BY <1>4, <1>9, <2>2, ReadsFields
  <2>4. k <= Len(d)
    BY <1>5, <2>1, <2>2, ReadsBounds
  <2>5. Advance(p + Len(chunk), x)
    BY <1>3, <1>4, <1>6, <1>11, <2>3, Zenon
  <2> QED
    BY <1>1, <1>4, <1>5, <2>3, <2>4, <2>5, AdvanceGoes
<1> QED
  BY <1>10, <1>11

LEMMA DecodeBytesReads ==
    ASSUME FramesOk(frames), NEW q, NEW tail, NEW b, Expects(Top, q, tail, Top.m, b),
           NEW row \in Cases, DecodeBytes(row)
    PROVE  Refuses(tail) \/ Goes(q, tail, b)
<1>1. AtSwitch /\ row \in Rows(Top.type) /\ row.kind = "raw"
  BY CasesAre DEF DecodeBytes
<1>2. PICK chunk, rest, x : Facing(q, tail, b, chunk, rest, x)
  BY <1>1, SwitchField
<1>3. PICK bytes \in Seq(Byte) : /\ chunk = Delimited(Tag(row), bytes)
                                 /\ x = Put(Top.m, row.field, bytes)
  <2>1. ~ Embeds(row) /\ ~ (row.kind \in {"uint", "int", "flag"})
    BY <1>1 DEF Embeds
  <2>2. ~ \E body, y, z : Holds(Top.type, chunk, Top.m, x, row, body, y, z)
    BY <2>1 DEF Holds
  <2> QED
    BY <1>2, <2>1, <2>2, SwitchItem
<1>4. PICK d, p, i, m, r : /\ d = Top.dAtA /\ p = Top.preIndex /\ i = p + 1 /\ i = Top.iNdEx /\ m = Top.m
                           /\ r = ReadDelimited(d, i)
  BY <1>2, SwitchItem
<1>5. /\ Splice(d, p, tail, chunk, rest) /\ Decodes(q, Top.type, rest, x, b)
      /\ Top.type \in DOMAIN Message
  BY <1>1, <1>2, <1>4, AtSwitchIs DEF Facing
<1>6. IF IsErr(r) THEN Fail(r.err)
      ELSE Advance(r.next, Put(m, row.field, SubSeq(d, r.v + 1, r.next)))
  BY <1>4, Zenon DEF DecodeBytes, Put
<1>7. Tag(row) \in Byte
  <2>1. Tag(row) \in 0 .. 127
    BY <1>1, <1>5, RowTag
  <2> QED
    BY <2>1 DEF Byte
<1>8. (tail # <<>> /\ IsErr(r)) \/ Found(d, i, bytes, p + Len(chunk))
  BY <1>3, <1>4, <1>5, <1>7, DelimitsChunk
<1>9. CASE tail # <<>> /\ IsErr(r)
  <2>1. Fail(r.err) /\ r.err # ""
    BY <1>6, <1>9, Zenon DEF IsErr
  <2> QED
    BY <1>9, <2>1, Zenon DEF Refuses, Rejects
<1>10. CASE Found(d, i, bytes, p + Len(chunk))
  <2>1. PICK c : Delimits(d, i, c, p + Len(chunk)) /\ p + Len(chunk) <= Len(d)
                 /\ SubSeq(d, c + 1, p + Len(chunk)) = bytes
    BY <1>10 DEF Found
  <2>2. ~ IsErr(r) /\ r.v = c /\ r.next = p + Len(chunk)
    BY <1>4, <2>1, DelimitsFields
  <2>3. Advance(p + Len(chunk), x)
    BY <1>3, <1>4, <1>6, <2>1, <2>2, Zenon
  <2> QED
    BY <1>1, <1>4, <1>5, <2>1, <2>3, AdvanceGoes
<1> QED
  BY <1>8, <1>9, <1>10

\* The innermost call makes another one, for what a field holds.
Enters(q, tail, b) ==
    \E fr, callee, z :
      /\ frames' = Append(Put(frames, Len(frames), fr), callee) /\ fr.row = Top.row
      /\ Expects(fr, q, tail, Put(fr.m, callee.row.field,
                                  Stored(callee.row, fr.m[callee.row.field], z)), b)
      /\ Expects(callee, <<>>, <<>>, callee.m, z) /\ UNCHANGED <<input, err, out>>

LEMMA EnterMessageReads ==
    ASSUME FramesOk(frames), NEW q, NEW tail, NEW b, Expects(Top, q, tail, Top.m, b),
           NEW row \in Cases, EnterMessage(row)
    PROVE  Refuses(tail) \/ Enters(q, tail, b)
<1>1. AtSwitch /\ row \in Rows(Top.type) /\ row.kind \in {"sub", "ptr", "rep"}
  BY CasesAre DEF EnterMessage
<1>2. PICK chunk, rest, x : Facing(q, tail, b, chunk, rest, x)
  BY <1>1, SwitchField
<1>3. PICK body, y, z : /\ Holds(Top.type, chunk, Top.m, x, row, body, y, z)
                        /\ Decodes(<<>>, row.type, body, y, z)
  <2>1. ~ (row.kind = "raw") /\ ~ (row.kind \in {"uint", "int", "flag"})
    BY <1>1
  <2> QED
    BY <1>2, <2>1, SwitchItem
<1>4. PICK d, p, i, m, r : /\ d = Top.dAtA /\ p = Top.preIndex /\ i = p + 1 /\ i = Top.iNdEx /\ m = Top.m
                           /\ r = ReadDelimited(d, i)
  BY <1>2, SwitchItem
<1>5. /\ Splice(d, p, tail, chunk, rest) /\ Decodes(q, Top.type, rest, x, b)
      /\ Top.type \in DOMAIN Message /\ frames # <<>> /\ FrameOk(Top)
  BY <1>1, <1>2, <1>4, AtSwitchIs DEF Facing
<1>6. /\ body \in Seq(Byte) /\ chunk = Delimited(Tag(row), body) /\ y = Filled(row, m[row.field])
      /\ x = Put(m, row.field, Stored(row, m[row.field], z))
  BY <1>3, <1>4, Zenon DEF Holds
<1>7. IF IsErr(r) THEN Fail(r.err) ELSE Call(row, r, y)
  BY <1>4, <1>6, Zenon DEF EnterMessage
<1>8. Tag(row) \in Byte /\ row.type \in DOMAIN Message
  <2>1. Tag(row) \in 0 .. 127
    BY <1>1, <1>5, RowTag
  <2>2. Embeds(row)
    BY <1>1 DEF Embeds
  <2>3. row.type \in DOMAIN Message
    BY <1>1, <1>5, <2>2, Levels
  <2> QED
    BY <2>1, <2>3 DEF Byte
<1>9. (tail # <<>> /\ IsErr(r)) \/ Found(d, i, body, p + Len(chunk))
  BY <1>4, <1>5, <1>6, <1>8, DelimitsChunk
<1>10. CASE tail # <<>> /\ IsErr(r)
  <2>1. Fail(r.err) /\ r.err # ""
    BY <1>7, <1>10, Zenon DEF IsErr
  <2> QED
    BY <1>10, <2>1, Zenon DEF Refuses, Rejects
<1>11. CASE Found(d, i, body, p + Len(chunk))
  <2>1. PICK c, e : /\ e = p + Len(chunk) /\ Delimits(d, i, c, e) /\ c \in Nat /\ e \in Nat
                    /\ i < c /\ c <= e /\ e <= Len(d) /\ SubSeq(d, c + 1, e) = body
    BY <1>11, Zenon DEF Found
  <2>2. ~ IsErr(r) /\ r.v = c /\ r.next = e
    BY <1>4, <2>1, DelimitsFields
  <2>3. Call(row, r, y)
    BY <1>7, <2>2, Zenon
  <2>4. PICK fr, callee : /\ fr = Moved(Top, e, NoTag, Top.preIndex, Top.m)
                          /\ callee = Frame(row.type, SubSeq(Top.dAtA, c + 1, e), y, row)
    OBVIOUS
  <2>5. /\ FrameOk(callee) /\ callee.dAtA = SubSeq(Top.dAtA, c + 1, e)
        /\ frames' = Append(Put(frames, Len(frames), fr), callee)
    <3>1. e <= Len(Top.dAtA) /\ Top.iNdEx < c
      BY <1>4, <2>1
    <3>2. /\ FrameOk(Frame(row.type, SubSeq(Top.dAtA, c + 1, e), y, row))
          /\ Frame(row.type, SubSeq(Top.dAtA, c + 1, e), y, row).dAtA = SubSeq(Top.dAtA, c + 1, e)
          /\ frames' = Append(Put(frames, Len(frames), Moved(Top, e, NoTag, Top.preIndex, Top.m)),
                              Frame(row.type, SubSeq(Top.dAtA, c + 1, e), y, row))
      BY <1>5, <1>8, <2>1, <2>2, <2>3, <3>1, CallIs, SMTT(40)
    <3> QED
      BY <2>4, <3>2, Zenon
  <2>6. fr.m = m /\ fr.row = Top.row
    <3>1. e <= Len(Top.dAtA)
      BY <1>4, <2>1
    <3> QED
      BY <1>4, <1>5, <2>1, <2>4, <3>1, MovedOk
  <2>7. /\ callee.dAtA = body /\ callee.row = row /\ callee.m = y /\ callee.type = row.type
        /\ callee.wire = NoTag /\ callee.iNdEx = 0
    <3>1. /\ callee.row = row /\ callee.m = y /\ callee.type = row.type
          /\ callee.wire = NoTag /\ callee.iNdEx = 0
      BY <2>4 DEF Frame
    <3> QED
      BY <1>4, <2>1, <2>5, <3>1
  <2>8. Expects(fr, q, tail, x, b)
    <3>1. p + Len(chunk) <= Len(Top.dAtA)
      BY <1>4, <2>1
    <3>2. fr = Moved(Top, p + Len(chunk), NoTag, p, m)
      BY <1>4, <2>1, <2>4, Zenon
    <3>3. Splice(Top.dAtA, p, tail, chunk, rest)
      BY <1>4, <1>5
    <3> QED
      BY <1>5, <3>1, <3>2, <3>3, ExpectsRest
  <2>9. Ahead(callee, <<>>) = body
    <3>1. Pos(callee) = 0
      BY <2>7 DEF Pos
    <3>2. SubSeq(body, 0 + 1, Len(body)) \o <<>> = body
      BY <1>6
    <3> QED
      BY <2>7, <3>1, <3>2, Zenon DEF Ahead, From
  <2>10. Expects(callee, <<>>, <<>>, callee.m, z)
    <3>1. Buffer(body)
      BY <2>5, <2>7 DEF FrameOk
    <3>2. <<>> \in Seq(Byte)
      OBVIOUS
    <3> QED
      BY <1>3, <2>7, <2>9, <3>1, <3>2, Zenon DEF Expects
  <2>11. UNCHANGED <<input, err, out>>
    BY <2>3 DEF Call
  <2>12. Expects(fr, q, tail, Put(fr.m, callee.row.field,
                   Stored(callee.row, fr.m[callee.row.field], z)), b)
    BY <1>6, <2>6, <2>7, <2>8, Zenon
  <2> QED
    BY <2>5, <2>6, <2>10, <2>11, <2>12, Zenon DEF Enters
<1> QED
  BY <1>9, <1>10, <1>11

\* The calls, one inside the other: what the outermost is asked, and what the
\* buffer lacks, is so for that one alone; a caller's message will have the
\* callee's result res[i + 1] stored in its field.
Outermost(i, u) == IF i = 1 THEN u ELSE <<>>
Current(fs, res, i) ==
    IF i = Len(fs) THEN fs[i].m
    ELSE LET row == fs[i + 1].row
         IN  Put(fs[i].m, row.field, Stored(row, fs[i].m[row.field], res[i + 1]))
Chain(fs, q, tail, goal, res) ==
    /\ res[1] = goal
    /\ \A i \in 1 .. Len(fs) :
         Expects(fs[i], Outermost(i, q), Outermost(i, tail), Current(fs, res, i), res[i])

LEMMA ChainTop ==
    ASSUME NEW fs, NEW n \in Nat, n >= 1, Len(fs) = n, NEW q, NEW tail, NEW goal, NEW res,
           Chain(fs, q, tail, goal, res)
    PROVE  Expects(fs[n], Outermost(n, q), Outermost(n, tail), fs[n].m, res[n])
<1>1. n \in 1 .. Len(fs)
  OBVIOUS
<1>2. Expects(fs[n], Outermost(n, q), Outermost(n, tail), Current(fs, res, n), res[n])
  BY <1>1, Zenon DEF Chain
<1>3. Current(fs, res, n) = fs[n].m
  BY Zenon DEF Current
<1> QED
  BY <1>2, <1>3, Zenon

\* Calls that differ in the innermost alone, and not in what it is for.
LEMMA ChainMoves ==
    ASSUME NEW fs, NEW gs, NEW n \in Nat, n >= 1, Len(fs) = n, Len(gs) = n,
           \A i \in 1 .. n : i # n => gs[i] = fs[i], gs[n].row = fs[n].row,
           NEW q, NEW tail, NEW goal, NEW res, Chain(fs, q, tail, goal, res),
           Expects(gs[n], Outermost(n, q), Outermost(n, tail), gs[n].m, res[n])
    PROVE  Chain(gs, q, tail, goal, res)
<1>1. \A i \in 1 .. n :
        Expects(fs[i], Outermost(i, q), Outermost(i, tail), Current(fs, res, i), res[i])
  BY DEF Chain
<1>2. ASSUME NEW i \in 1 .. n
      PROVE  Expects(gs[i], Outermost(i, q), Outermost(i, tail), Current(gs, res, i), res[i])
  <2>1. CASE i = n
    <3>1. Current(gs, res, n) = gs[n].m
      BY Zenon DEF Current
    <3> QED
      BY <2>1, <3>1, Zenon
  <2>2. CASE i # n
    <3>1. gs[i] = fs[i]
      BY <2>2
    <3>2. PICK j : j = i + 1 /\ j \in 1 .. n
      BY <2>2
    <3>3. gs[j].row = fs[j].row
      <4>1. CASE j = n
        BY <4>1
      <4>2. CASE j # n
        BY <3>2, <4>2
      <4> QED
        BY <4>1, <4>2
    <3>4. /\ Current(gs, res, i) = Put(gs[i].m, gs[j].row.field,
                                       Stored(gs[j].row, gs[i].m[gs[j].row.field], res[j]))
          /\ Current(fs, res, i) = Put(fs[i].m, fs[j].row.field,
                                       Stored(fs[j].row, fs[i].m[fs[j].row.field], res[j]))
      BY <2>2, <3>2, Zenon DEF Current
    <3>5. Current(gs, res, i) = Current(fs, res, i)
      BY <3>1, <3>3, <3>4, Zenon
    <3> QED
      BY <1>1, <3>1, <3>5, Zenon
  <2> QED
    BY <2>1, <2>2
<1> QED
  BY <1>2 DEF Chain

\* A call more.
LEMMA ChainCalls ==
    ASSUME NEW fs, NEW gs, NEW n \in Nat, n >= 1, Len(fs) = n, Len(gs) = n + 1,
           \A i \in 1 .. n : i # n => gs[i] = fs[i], gs[n].row = fs[n].row,
           NEW q, NEW tail, NEW goal, NEW res, Chain(fs, q, tail, goal, res), NEW z,
           Expects(gs[n], Outermost(n, q), Outermost(n, tail),
                   Put(gs[n].m, gs[n + 1].row.field,
                       Stored(gs[n + 1].row, gs[n].m[gs[n + 1].row.field], z)), res[n]),
           Expects(gs[n + 1], <<>>, <<>>, gs[n + 1].m, z)
    PROVE  \E more : Chain(gs, q, tail, goal, more)
<1>1. PICK more : more = [i \in 1 .. n + 1 |-> IF i = n + 1 THEN z ELSE res[i]]
  OBVIOUS
<1>2. more[n + 1] = z /\ \A i \in 1 .. n : more[i] = res[i]
  <2>1. n + 1 \in 1 .. n + 1 /\ \A i \in 1 .. n : i \in 1 .. n + 1 /\ i # n + 1
    OBVIOUS
  <2> QED
    BY <1>1, <2>1
<1>3. res[1] = goal /\ \A i \in 1 .. n :
        Expects(fs[i], Outermost(i, q), Outermost(i, tail), Current(fs, res, i), res[i])
  BY DEF Chain
<1>4. ASSUME NEW i \in 1 .. n + 1
      PROVE  Expects(gs[i], Outermost(i, q), Outermost(i, tail), Current(gs, more, i), more[i])
  <2>1. CASE i = n + 1
    <3>1. Current(gs, more, i) = gs[i].m
      BY <2>1 DEF Current
    <3>2. Outermost(i, q) = <<>> /\ Outermost(i, tail) = <<>>
      BY <2>1 DEF Outermost
    <3>3. more[i] = z
      BY <1>2, <2>1
    <3> QED
      BY <2>1, <3>1, <3>2, <3>3, Zenon
  <2>2. CASE i = n
    <3>1. i # n + 1
      BY <2>2
    <3>2. Current(gs, more, i) = Put(gs[n].m, gs[n + 1].row.field,
            Stored(gs[n + 1].row, gs[n].m[gs[n + 1].row.field], more[n + 1]))
      BY <2>2, <3>1, Zenon DEF Current
    <3>3. more[i] = res[n]
      BY <1>2, <2>2
    <3> QED
      BY <1>2, <2>2, <3>2, <3>3, Zenon
  <2>3. CASE i # n + 1 /\ i # n
    <3>1. i \in 1 .. n /\ gs[i] = fs[i]
      BY <2>3
    <3>2. PICK j : j = i + 1 /\ j \in 1 .. n
      BY <2>3
    <3>3. gs[j].row = fs[j].row
      <4>1. CASE j = n
        BY <4>1
      <4>2. CASE j # n
        BY <3>2, <4>2
      <4> QED
        BY <4>1, <4>2
    <3>4. /\ Current(gs, more, i) = Put(gs[i].m, gs[j].row.field,
                                        Stored(gs[j].row, gs[i].m[gs[j].row.field], more[j]))
          /\ Current(fs, res, i) = Put(fs[i].m, fs[j].row.field,
                                       Stored(fs[j].row, fs[i].m[fs[j].row.field], res[j]))
      BY <2>3, <3>2, Zenon DEF Current
    <3>5. more[j] = res[j] /\ more[i] = res[i]
      BY <1>2, <3>1, <3>2
    <3>6. Current(gs, more, i) = Current(fs, res, i)
      BY <3>1, <3>3, <3>4, <3>5, Zenon
    <3> QED
      BY <1>3, <3>1, <3>5, <3>6, Zenon
  <2> QED
    BY <2>1, <2>2, <2>3
<1>5. more[1] = goal
  BY <1>2, <1>3
<1> QED
  BY <1>4, <1>5 DEF Chain

\* A call less: its message is the result, and has been stored.
LEMMA ChainPops ==
    ASSUME NEW fs, NEW gs, NEW n \in Nat, n >= 1, Len(fs) = n + 1, Len(gs) = n,
           \A i \in 1 .. n : i # n => gs[i] = fs[i], gs[n].row = fs[n].row,
           gs[n].type = fs[n].type, NEW q, NEW tail, NEW goal, NEW res,
           Chain(fs, q, tail, goal, res), fs[n + 1].m = res[n + 1],
           \A u : Ahead(gs[n], u) = Ahead(fs[n], u),
           gs[n].m = Put(fs[n].m, fs[n + 1].row.field,
                         Stored(fs[n + 1].row, fs[n].m[fs[n + 1].row.field], fs[n + 1].m))
    PROVE  Chain(gs, q, tail, goal, res)
<1>1. res[1] = goal /\ \A i \in 1 .. n + 1 :
        Expects(fs[i], Outermost(i, q), Outermost(i, tail), Current(fs, res, i), res[i])
  BY DEF Chain
<1>2. ASSUME NEW i \in 1 .. n
      PROVE  Expects(gs[i], Outermost(i, q), Outermost(i, tail), Current(gs, res, i), res[i])
  <2>0. i \in 1 .. n + 1 /\ i # n + 1
    OBVIOUS
  <2>1. CASE i = n
    <3>1. Current(gs, res, i) = gs[n].m
      BY <2>1, Zenon DEF Current
    <3>2. Current(fs, res, i) = Put(fs[n].m, fs[n + 1].row.field,
            Stored(fs[n + 1].row, fs[n].m[fs[n + 1].row.field], res[n + 1]))
      BY <2>0, <2>1, Zenon DEF Current
    <3>3. Current(gs, res, i) = Current(fs, res, i)
      BY <3>1, <3>2, Zenon
    <3>4. Expects(fs[n], Outermost(i, q), Outermost(i, tail), Current(gs, res, i), res[i])
      BY <1>1, <2>0, <2>1, <3>3, Zenon
    <3> QED
      BY <2>1, <3>4, Zenon DEF Expects
  <2>2. CASE i # n
    <3>1. gs[i] = fs[i]
      BY <2>2
    <3>2. PICK j : j = i + 1 /\ j \in 1 .. n
      BY <2>2
    <3>3. gs[j].row = fs[j].row
      <4>1. CASE j = n
        BY <4>1
      <4>2. CASE j # n
        BY <3>2, <4>2
      <4> QED
        BY <4>1, <4>2
    <3>4. /\ Current(gs, res, i) = Put(gs[i].m, gs[j].row.field,
                                       Stored(gs[j].row, gs[i].m[gs[j].row.field], res[j]))
          /\ Current(fs, res, i) = Put(fs[i].m, fs[j].row.field,
                                       Stored(fs[j].row, fs[i].m[fs[j].row.field], res[j]))
      BY <2>0, <2>2, <3>2, Zenon DEF Current
    <3>5. Current(gs, res, i) = Current(fs, res, i)
      BY <3>1, <3>3, <3>4, Zenon
    <3> QED
      BY <1>1, <2>0, <3>1, <3>5, Zenon
  <2> QED
    BY <2>1, <2>2
<1> QED
  BY <1>1, <1>2 DEF Chain

\* What the call is asked: for a message that was cut, nothing but what lies
\* between the zero message and that one.
Asked(in) == IF in.origin = "cut" THEN <<in.type, Zero(in.type), in.parts[1].value>> ELSE <<>>

\* The goal of the call, and the tail its buffer lacks.
Aims(in, tail, goal) ==
    /\ tail \in Seq(Byte) /\ Buffer(in.dAtA \o tail)
    /\ Decodes(Asked(in), in.type, in.dAtA \o tail, Zero(in.type), goal)
    /\ in.origin # "cut" => tail = <<>> /\ goal = Result(in.type, in.parts)

Origins == {"whole", "concatenated", "extended", "cut"}

\* A beginning, and the rest.
LEMMA PrefixRest ==
    ASSUME NEW s \in Seq(Byte), NEW w \in Seq(Byte), IsPrefix(s, w)
    PROVE  \E tail \in Seq(Byte) : s \o tail = w
<1>1. PICK n \in Nat, m \in Nat : n = Len(s) /\ m = Len(w) /\ n <= m
  BY DEF IsPrefix
<1>2. SubSeq(s, 1, n) = s /\ SubSeq(w, 1, n) = SubSeq(s, 1, n)
  BY <1>1, SubSeqFull DEF IsPrefix
<1>3. PICK tail : tail = SubSeq(w, n + 1, m)
  OBVIOUS
<1>4. tail \in Seq(Byte)
  BY <1>1, <1>3
<1>5. SubSeq(w, 1, n) \o SubSeq(w, n + 1, m) = SubSeq(w, 1, m)
  <2>1. 1 \in 1 .. Len(w) + 1 /\ n \in 1 - 1 .. Len(w) /\ m \in n .. Len(w)
    BY <1>1
  <2> QED
    BY <2>1, ConcatAdjacentSubSeq
<1>6. SubSeq(w, 1, m) = w
  BY <1>1, SubSeqFull
<1> QED
  BY <1>2, <1>3, <1>4, <1>5, <1>6

LEMMA InputAims ==
    ASSUME NEW in \in Inputs, in.origin \in Origins
    PROVE  \E tail, goal : Aims(in, tail, goal)
<1>1. CASE in.origin # "cut"
  <2>1. in.origin \in {"whole", "concatenated", "extended"}
    BY <1>1 DEF Origins
  <2>2. /\ in.dAtA = Joined(in.type, in.parts) /\ Buffer(in.dAtA) /\ in.dAtA \in Seq(Byte)
    BY <2>1, InputsAssumption DEF Buffer
  <2>3. Decodes(<<>>, in.type, in.dAtA, Zero(in.type), Result(in.type, in.parts))
    BY <2>2, PartsDecode, Zenon
  <2>4. in.dAtA \o <<>> = in.dAtA /\ <<>> \in Seq(Byte)
    BY <2>2
  <2>5. Asked(in) = <<>>
    BY <1>1 DEF Asked
  <2>6. Aims(in, <<>>, Result(in.type, in.parts))
    BY <2>2, <2>3, <2>4, <2>5, Zenon DEF Aims
  <2> QED
    BY <2>6, Zenon
<1>2. CASE in.origin = "cut"
  <2>1. PICK t, m, w : /\ t = in.type /\ m = in.parts[1].value /\ w = Marshal(t, m)
                       /\ t \in DOMAIN Message /\ IsMessage(t, m) /\ w \in Seq(Byte)
                       /\ Joined(t, in.parts) = w
    <3>1. /\ in.type \in DOMAIN Message /\ IsMessage(in.type, in.parts[1].value)
          /\ Joined(in.type, in.parts) = Marshal(in.type, in.parts[1].value)
          /\ Marshal(in.type, in.parts[1].value) \in Seq(Byte)
      BY <1>2, OnePart
    <3> QED
      BY <3>1, Zenon
  <2>2. /\ IsPrefix(in.dAtA, w) /\ Len(w) < Two[WordBits - 1] /\ in.dAtA \in Seq(Byte)
    BY <1>2, <2>1, InputsAssumption
  <2>3. PICK tail \in Seq(Byte) : in.dAtA \o tail = w
    BY <2>1, <2>2, PrefixRest
  <2>4. PICK q : q = Asked(in) /\ q = <<t, Zero(t), m>>
    BY <1>2, <2>1 DEF Asked
  <2>5. \A x : Between(t, Zero(t), m, x) => Fits(q, x)
    <3>1. q[1] = t /\ q[2] = Zero(t) /\ q[3] = m
      BY <2>4
    <3> QED
      BY <3>1, Zenon DEF Fits
  <2>6. IsMessage(t, Zero(t))
    BY <2>1, AllMerge DEF Merges
  <2>7. Decodes(q, t, w, Zero(t), Merge(t, Zero(t), m))
    BY <2>1, <2>5, <2>6, AllDecoded, Zenon DEF Decoded
  <2>8. Buffer(w)
    BY <2>1, <2>2 DEF Buffer
  <2>9. Aims(in, tail, Merge(t, Zero(t), m))
    BY <1>2, <2>1, <2>3, <2>4, <2>7, <2>8, Zenon DEF Aims
  <2> QED
    BY <2>9, Zenon
<1> QED
  BY <1>1, <1>2

\* Where the call is: the frames lead to the goal; it has returned the goal, or
\* what there is of it; or a tail is missing and it has returned an error.
Reading(fs, e, o, q, tail, goal) ==
    IF fs = <<>>
    THEN \/ e = "" /\ Fits(q, o) /\ (tail = <<>> => o = goal)
         \/ e # "" /\ tail # <<>>
    ELSE e = "" /\ \E res : Chain(fs, q, tail, goal, res)

DecInv ==
    input.origin \in Origins =>
        \E tail, goal : /\ Aims(input, tail, goal)
                        /\ Reading(frames, err, out, Asked(input), tail, goal)

LEMMA InitReads == ASSUME Init PROVE DecInv
<1> SUFFICES ASSUME input.origin \in Origins
             PROVE  \E tail, goal : /\ Aims(input, tail, goal)
                                    /\ Reading(frames, err, out, Asked(input), tail, goal)
  BY DEF DecInv
<1>1. PICK in \in Inputs : in = input /\ in.origin \in Origins
  BY Zenon DEF Init
<1>2. PICK tail, goal : Aims(in, tail, goal)
  BY <1>1, InputAims
<1>3. PICK fr : fr = Frame(in.type, in.dAtA, Zero(in.type), <<>>)
  OBVIOUS
<1>4. frames = <<fr>> /\ err = ""
  BY <1>1, <1>3, Zenon DEF Init
<1>5. /\ fr.type = in.type /\ fr.dAtA = in.dAtA /\ fr.iNdEx = 0 /\ fr.wire = NoTag
      /\ fr.m = Zero(in.type)
  BY <1>3 DEF Frame
<1>6. Ahead(fr, tail) = in.dAtA \o tail
  <2>1. in.dAtA \in Seq(Byte)
    BY InputsAssumption
  <2>2. SubSeq(in.dAtA, 0 + 1, Len(in.dAtA)) = in.dAtA
    BY <2>1, SubSeqFull
  <2> QED
    BY <1>5, <2>2, Zenon DEF Ahead, From, Pos
<1>7. Expects(fr, Asked(in), tail, fr.m, goal)
  BY <1>2, <1>5, <1>6, Zenon DEF Aims, Expects
<1>8. PICK res : res = [i \in 1 .. 1 |-> goal]
  OBVIOUS
<1>9. res[1] = goal
  BY <1>8
<1>10. Len(frames) = 1 /\ frames[1] = fr /\ frames # <<>>
  BY <1>4, Zenon
<1>11. Chain(frames, Asked(in), tail, goal, res)
  <2> SUFFICES ASSUME NEW i \in 1 .. Len(frames)
               PROVE  Expects(frames[i], Outermost(i, Asked(in)), Outermost(i, tail),
                              Current(frames, res, i), res[i])
    BY <1>9 DEF Chain
  <2>1. i = 1
    BY <1>10
  <2>2. Current(frames, res, 1) = fr.m
    BY <1>10 DEF Current
  <2>3. Outermost(1, Asked(in)) = Asked(in) /\ Outermost(1, tail) = tail
    BY Zenon DEF Outermost
  <2> QED
    BY <1>7, <1>9, <1>10, <2>1, <2>2, <2>3, Zenon
<1>12. Reading(frames, err, out, Asked(in), tail, goal)
  BY <1>4, <1>10, <1>11, Zenon DEF Reading
<1> QED
  BY <1>1, <1>2, <1>12, Zenon

\* Every step goes on towards the goal.
LEMMA RefusesReads ==
    ASSUME NEW n, NEW q, NEW tail, NEW goal, Refuses(Outermost(n, tail))
    PROVE  Reading(frames', err', out', q, tail, goal) /\ input' = input
<1>1. PICK e : e # "" /\ Fail(e)
  BY Zenon DEF Refuses, Rejects
<1>2. frames' = <<>> /\ err' # "" /\ input' = input
  BY <1>1, Zenon DEF Fail
<1>3. tail # <<>>
  BY DEF Refuses, Outermost
<1> QED
  BY <1>2, <1>3, Zenon DEF Reading

LEMMA GoesReads ==
    ASSUME FramesOk(frames), frames # <<>>, err = "", NEW q, NEW tail, NEW goal, NEW res,
           Chain(frames, q, tail, goal, res), NEW n, n = Len(frames),
           Goes(Outermost(n, q), Outermost(n, tail), res[n])
    PROVE  Reading(frames', err', out', q, tail, goal) /\ input' = input
<1>1. PICK fr : /\ frames' = Put(frames, n, fr) /\ fr.row = Top.row
                /\ Expects(fr, Outermost(n, q), Outermost(n, tail), fr.m, res[n])
                /\ UNCHANGED <<input, err, out>>
  BY Zenon DEF Goes
<1>2. n \in Nat /\ n >= 1 /\ Top = frames[n]
  BY TopIs, Zenon
<1>3. PICK fs, gs : fs = frames /\ gs = frames'
  BY Zenon
<1>4. Len(gs) = n /\ gs[n] = fr /\ gs # <<>> /\ \A i \in 1 .. n : i # n => gs[i] = fs[i]
  BY <1>1, <1>2, <1>3, PutLast, ZenonT(60)
<1>5. Chain(gs, q, tail, goal, res)
  <2>1. gs[n].row = fs[n].row
    BY <1>1, <1>2, <1>3, <1>4, Zenon
  <2>2. Expects(gs[n], Outermost(n, q), Outermost(n, tail), gs[n].m, res[n])
    BY <1>1, <1>4, Zenon
  <2> QED
    BY <1>2, <1>3, <1>4, <2>1, <2>2, ChainMoves, Zenon
<1> QED
  BY <1>1, <1>3, <1>4, <1>5, Zenon DEF Reading

\* The calls with one more, and what they are.
Pushed(fs, n, fr, callee) == Append(Put(fs, n, fr), callee)
Longer(fs, gs, n, fr, callee) ==
    /\ Len(gs) = n + 1 /\ gs[n + 1] = callee /\ gs[n] = fr /\ gs # <<>>
    /\ \A i \in 1 .. n : i # n => gs[i] = fs[i]

LEMMA PushIs ==
    ASSUME NEW fs, FramesOk(fs), fs # <<>>, NEW n, n = Len(fs), NEW fr, NEW callee,
           NEW gs, gs = Pushed(fs, n, fr, callee)
    PROVE  Longer(fs, gs, n, fr, callee)
<1>1. PICK hs : hs = Put(fs, n, fr)
  OBVIOUS
<1>2. Len(hs) = n /\ hs[n] = fr /\ \A i \in 1 .. n : i # n => hs[i] = fs[i]
  BY <1>1, PutLast
<1>3. fs \in Seq(Range(fs)) /\ n \in Nat /\ n >= 1
  <2>1. fs \in Seq(Range(fs))
    BY DEF FramesOk
  <2> QED
    BY <2>1
<1>4. PICK S : fs \in Seq(S) /\ fr \in S /\ callee \in S
  <2>1. /\ fs \in Seq(Range(fs) \cup {fr, callee})
        /\ fr \in Range(fs) \cup {fr, callee} /\ callee \in Range(fs) \cup {fr, callee}
    BY <1>3
  <2> QED
    BY <2>1, Zenon
<1>5. hs \in Seq(S)
  <2>1. [fs EXCEPT ![n] = fr] \in Seq(S)
    BY <1>3, <1>4
  <2> QED
    BY <1>1, <2>1, Zenon DEF Put
<1>6. gs = Append(hs, callee)
  BY <1>1, Zenon DEF Pushed
<1>7. Len(gs) = n + 1 /\ gs[n + 1] = callee /\ \A i \in 1 .. n : gs[i] = hs[i]
  BY <1>2, <1>3, <1>4, <1>5, <1>6
<1>8. gs # <<>>
  BY <1>4, <1>5, <1>6
<1> QED
  BY <1>2, <1>3, <1>7, <1>8 DEF Longer

LEMMA CallChain ==
    ASSUME NEW fs, FramesOk(fs), fs # <<>>, NEW n, n = Len(fs), NEW fr, NEW callee,
           NEW gs, gs = Pushed(fs, n, fr, callee), fr.row = fs[n].row,
           NEW q, NEW tail, NEW goal, NEW res, Chain(fs, q, tail, goal, res), NEW z,
           Expects(fr, Outermost(n, q), Outermost(n, tail),
                   Put(fr.m, callee.row.field,
                       Stored(callee.row, fr.m[callee.row.field], z)), res[n]),
           Expects(callee, <<>>, <<>>, callee.m, z)
    PROVE  gs # <<>> /\ \E more : Chain(gs, q, tail, goal, more)
<1>1. /\ Len(gs) = n + 1 /\ gs[n + 1] = callee /\ gs[n] = fr /\ gs # <<>>
      /\ \A i \in 1 .. n : i # n => gs[i] = fs[i]
  <2>1. Longer(fs, gs, n, fr, callee)
    BY PushIs, Zenon
  <2> QED
    BY <2>1 DEF Longer
<1>2. n \in Nat /\ n >= 1
  <2>1. fs \in Seq(Range(fs))
    BY DEF FramesOk
  <2> QED
    BY <2>1
<1>3. gs[n].row = fs[n].row
  BY <1>1
<1>4. /\ Expects(gs[n], Outermost(n, q), Outermost(n, tail),
                 Put(gs[n].m, gs[n + 1].row.field,
                     Stored(gs[n + 1].row, gs[n].m[gs[n + 1].row.field], z)), res[n])
      /\ Expects(gs[n + 1], <<>>, <<>>, gs[n + 1].m, z)
  BY <1>1, Zenon
<1> QED
  BY <1>1, <1>2, <1>3, <1>4, ChainCalls

LEMMA EntersReads ==
    ASSUME FramesOk(frames), frames # <<>>, err = "", NEW q, NEW tail, NEW goal, NEW res,
           Chain(frames, q, tail, goal, res), NEW n, n = Len(frames),
           Enters(Outermost(n, q), Outermost(n, tail), res[n])
    PROVE  Reading(frames', err', out', q, tail, goal) /\ input' = input
<1>1. PICK fr, callee, z :
        /\ frames' = Append(Put(frames, n, fr), callee) /\ fr.row = Top.row
        /\ Expects(fr, Outermost(n, q), Outermost(n, tail),
                   Put(fr.m, callee.row.field,
                       Stored(callee.row, fr.m[callee.row.field], z)), res[n])
        /\ Expects(callee, <<>>, <<>>, callee.m, z) /\ UNCHANGED <<input, err, out>>
  BY Zenon DEF Enters
<1>2. Top = frames[n]
  BY TopIs, Zenon
<1>3. PICK fs, gs : fs = frames /\ gs = frames'
  BY Zenon
<1>4. /\ FramesOk(fs) /\ fs # <<>> /\ n = Len(fs) /\ gs = Pushed(fs, n, fr, callee)
      /\ fr.row = fs[n].row /\ Chain(fs, q, tail, goal, res)
  BY <1>1, <1>2, <1>3, Zenon DEF Pushed
<1>5. gs # <<>> /\ \E more : Chain(gs, q, tail, goal, more)
  BY <1>1, <1>4, CallChain, Zenon
<1> QED
  BY <1>1, <1>3, <1>5, Zenon DEF Reading

\* At the end of the buffer nothing is left, but the tail.
LEMMA EndAhead ==
    ASSUME NEW fr, FrameOk(fr), fr.wire = NoTag, fr.iNdEx = Len(fr.dAtA), NEW tail \in Seq(Byte)
    PROVE  Ahead(fr, tail) = tail
<1>1. PICK d : d = fr.dAtA /\ d \in Seq(Byte)
  BY DEF FrameOk, Buffer
<1>2. SubSeq(d, Len(d) + 1, Len(d)) = <<>>
  BY <1>1, SubSeqProperties
<1>3. From(fr.dAtA, Pos(fr)) = <<>>
  BY <1>1, <1>2, Zenon DEF From, Pos
<1>4. <<>> \o tail = tail
  BY ConcatProperties
<1> QED
  BY <1>3, <1>4, Zenon DEF Ahead

LEMMA EndDecodes ==
    ASSUME NEW fr, FrameOk(fr), fr.wire = NoTag, fr.iNdEx = Len(fr.dAtA),
           NEW q, NEW tail, NEW x, NEW b, Expects(fr, q, tail, x, b)
    PROVE  tail \in Seq(Byte) /\ Decodes(q, fr.type, tail, x, b) /\ (tail = <<>> => x = b)
<1>1. tail \in Seq(Byte) /\ Decodes(q, fr.type, Ahead(fr, tail), x, b)
  BY DEF Expects
<1>2. Ahead(fr, tail) = tail
  BY <1>1, EndAhead
<1>3. Decodes(q, fr.type, tail, x, b)
  BY <1>1, <1>2, Zenon
<1>4. fr.type \in DOMAIN Message
  BY DEF FrameOk
<1>5. ASSUME tail = <<>> PROVE x = b
  <2>1. Decodes(q, fr.type, <<>>, x, b)
    BY <1>3, <1>5, Zenon
  <2> QED
    BY <1>4, <2>1, DecodesNothing, Zenon
<1> QED
  BY <1>1, <1>3, <1>5

\* A callee has returned, and its caller goes on.
Popped(fs, n, fr) == Put(SubSeq(fs, 1, n), n, fr)
Shorter(fs, gs, n, fr) ==
    /\ Len(gs) = n /\ gs[n] = fr /\ gs # <<>>
    /\ \A i \in 1 .. n : i # n => gs[i] = fs[i]

LEMMA ShorterIs ==
    ASSUME NEW fs, FramesOk(fs), NEW n \in Nat, n >= 1, Len(fs) = n + 1, NEW fr,
           NEW gs, gs = Popped(fs, n, fr)
    PROVE  Shorter(fs, gs, n, fr)
<1>1. PICK hs : hs = SubSeq(fs, 1, n)
  OBVIOUS
<1>2. Len(fs) - 1 = n /\ Len(fs) > 1
  OBVIOUS
<1>3. FramesOk(hs) /\ hs # <<>> /\ Len(hs) = n /\ \A i \in 1 .. n : hs[i] = fs[i]
  BY <1>1, <1>2, PopFrame
<1>4. gs = Put(hs, n, fr)
  BY <1>1, Zenon DEF Popped
<1>5. Len(gs) = n /\ gs[n] = fr /\ gs # <<>> /\ \A i \in 1 .. n : i # n => gs[i] = hs[i]
  BY <1>3, <1>4, PutLast, SMTT(40)
<1> QED
  BY <1>3, <1>5 DEF Shorter

\* What changes with that, if the message is the result.
Returns(fs, gs, n, res) ==
    /\ Len(gs) = n /\ \A i \in 1 .. n : i # n => gs[i] = fs[i]
    /\ gs[n].row = fs[n].row /\ gs[n].type = fs[n].type
    /\ \A u : Ahead(gs[n], u) = Ahead(fs[n], u)
    /\ gs[n].m = Put(fs[n].m, fs[n + 1].row.field,
                     Stored(fs[n + 1].row, fs[n].m[fs[n + 1].row.field], fs[n + 1].m))
    /\ fs[n + 1].m = res[n + 1]

LEMMA ReturnsChain ==
    ASSUME NEW fs, NEW n \in Nat, n >= 1, Len(fs) = n + 1, NEW gs,
           NEW q, NEW tail, NEW goal, NEW res, Chain(fs, q, tail, goal, res),
           Returns(fs, gs, n, res)
    PROVE  Chain(gs, q, tail, goal, res)
BY ChainPops DEF Returns

\* A callee at the end of its buffer returns: its message is stored.
Popping(fs, gs, n) ==
    LET top == fs[n + 1]
        caller == fs[n]
        x == Stored(top.row, caller.m[top.row.field], top.m)
    IN  /\ n \in Nat /\ n >= 1 /\ Len(fs) = n + 1
        /\ top.wire = NoTag /\ top.iNdEx = Len(top.dAtA)
        /\ gs = Popped(fs, n, Moved(caller, caller.iNdEx, caller.wire, caller.preIndex,
                                    Put(caller.m, top.row.field, x)))

LEMMA PopChain ==
    ASSUME NEW fs, FramesOk(fs), NEW gs, NEW n, Popping(fs, gs, n),
           NEW q, NEW tail, NEW goal, NEW res, Chain(fs, q, tail, goal, res)
    PROVE  gs # <<>> /\ Chain(gs, q, tail, goal, res)
<1>1. PICK top, caller : top = fs[n + 1] /\ caller = fs[n]
  OBVIOUS
<1>2. PICK m : m = Put(caller.m, top.row.field, Stored(top.row, caller.m[top.row.field], top.m))
  OBVIOUS
<1>3. PICK fr : fr = Moved(caller, caller.iNdEx, caller.wire, caller.preIndex, m)
  OBVIOUS
<1>4. /\ n \in Nat /\ n >= 1 /\ Len(fs) = n + 1
      /\ top.wire = NoTag /\ top.iNdEx = Len(top.dAtA) /\ gs = Popped(fs, n, fr)
  BY <1>1, <1>2, <1>3, Zenon DEF Popping
<1>5. /\ Len(gs) = n /\ gs[n] = fr /\ gs # <<>>
      /\ \A i \in 1 .. n : i # n => gs[i] = fs[i]
  <2>1. Shorter(fs, gs, n, fr)
    BY <1>4, ShorterIs, Zenon
  <2> QED
    BY <2>1 DEF Shorter
<1>6. /\ fr.row = caller.row /\ fr.type = caller.type /\ fr.m = m /\ fr.dAtA = caller.dAtA
      /\ fr.iNdEx = caller.iNdEx /\ fr.wire = caller.wire /\ fr.preIndex = caller.preIndex
  BY <1>3 DEF Moved
<1>7. \A u : Ahead(fr, u) = Ahead(caller, u)
  BY <1>6, Zenon DEF Ahead, Pos
<1>8. FrameOk(top)
  BY <1>1, <1>4 DEF FramesOk
<1>9. n + 1 \in Nat /\ n + 1 >= 1 /\ n + 1 # 1
  BY <1>4
<1>10. Expects(top, Outermost(n + 1, q), Outermost(n + 1, tail), top.m, res[n + 1])
  BY <1>1, <1>4, <1>9, ChainTop
<1>11. Outermost(n + 1, tail) = <<>>
  BY <1>9 DEF Outermost
<1>12. top.m = res[n + 1]
  <2>1. PICK p, u, z : p = Outermost(n + 1, q) /\ u = Outermost(n + 1, tail) /\ z = res[n + 1]
    OBVIOUS
  <2>2. Expects(top, p, u, top.m, z) /\ u = <<>>
    BY <1>10, <1>11, <2>1, Zenon
  <2>3. top.m = z
    BY <1>4, <1>8, <2>2, EndDecodes
  <2> QED
    BY <2>1, <2>3
<1>13. Returns(fs, gs, n, res)
  <2>1. /\ gs[n].row = fs[n].row /\ gs[n].type = fs[n].type
        /\ \A u : Ahead(gs[n], u) = Ahead(fs[n], u)
        /\ gs[n].m = Put(fs[n].m, fs[n + 1].row.field,
                         Stored(fs[n + 1].row, fs[n].m[fs[n + 1].row.field], fs[n + 1].m))
        /\ fs[n + 1].m = res[n + 1]
    BY <1>1, <1>2, <1>5, <1>6, <1>7, <1>12, Zenon
  <2> QED
    BY <1>5, <2>1, Zenon DEF Returns
<1> QED
  BY <1>5, <1>4, <1>13, ReturnsChain, Zenon

LEMMA ReturnToCallerReads ==
    ASSUME FramesOk(frames), frames # <<>>, NEW q, NEW tail, NEW goal, NEW res,
           Chain(frames, q, tail, goal, res), ReturnToCaller
    PROVE  (err = "" => Reading(frames', err', out', q, tail, goal)) /\ input' = input
<1>1. PICK n : /\ n \in Nat /\ n >= 1 /\ Len(frames) = n + 1 /\ Top.iNdEx = Len(Top.dAtA)
               /\ Top.wire = NoTag
               /\ LET caller == frames[n]
                      x == Stored(Top.row, caller.m[Top.row.field], Top.m)
                  IN  frames' = Put(SubSeq(frames, 1, n), n,
                                    Moved(caller, caller.iNdEx, caller.wire, caller.preIndex,
                                          Put(caller.m, Top.row.field, x)))
  BY ReturnToCallerIs, Zenon
<1>2. Top = frames[Len(frames)]
  BY TopIs, Zenon
<1>3. PICK fs, gs : fs = frames /\ gs = frames'
  OBVIOUS
<1>4. Top = fs[n + 1]
  BY <1>1, <1>2, <1>3, Zenon
<1>5. Popping(fs, gs, n)
  BY <1>1, <1>3, <1>4, Zenon DEF Popping, Popped
<1>8. gs # <<>> /\ Chain(gs, q, tail, goal, res)
  BY <1>3, <1>5, PopChain, Zenon
<1>9. UNCHANGED <<input, err, out>>
  BY Zenon DEF ReturnToCaller
<1> QED
  BY <1>3, <1>8, <1>9, Zenon DEF Reading

LEMMA OnlyTop ==
    ASSUME NEW fs, Len(fs) = 1, NEW q, NEW tail, NEW goal, NEW res,
           Chain(fs, q, tail, goal, res)
    PROVE  Expects(fs[1], Outermost(1, q), Outermost(1, tail), fs[1].m, res[1])
<1>1. 1 \in Nat /\ 1 >= 1
  OBVIOUS
<1> QED
  BY <1>1, ChainTop, Zenon

LEMMA ReturnReads ==
    ASSUME FramesOk(frames), frames # <<>>, NEW q, NEW tail, NEW goal, NEW res,
           Chain(frames, q, tail, goal, res), Return
    PROVE  (err = "" => Reading(frames', err', out', q, tail, goal)) /\ input' = input
<1>1. Len(frames) = 1 /\ Top = frames[Len(frames)] /\ FrameOk(Top)
  BY TopIs, Zenon DEF Return
<1>2. PICK fs, top : fs = frames /\ top = fs[1] /\ top = Top /\ Len(fs) = 1
  BY <1>1, Zenon
<1>3. Expects(top, q, tail, top.m, goal)
  <2>1. Chain(fs, q, tail, goal, res)
    BY <1>2, Zenon
  <2>2. Expects(fs[1], Outermost(1, q), Outermost(1, tail), fs[1].m, res[1])
    BY <1>2, <2>1, OnlyTop, Zenon
  <2>3. Outermost(1, q) = q /\ Outermost(1, tail) = tail
    BY Zenon DEF Outermost
  <2>4. res[1] = goal
    BY <2>1, Zenon DEF Chain
  <2> QED
    BY <1>2, <2>2, <2>3, <2>4, Zenon
<1>4. FrameOk(top) /\ top.wire = NoTag /\ top.iNdEx = Len(top.dAtA)
  <2>1. top.wire = NoTag /\ top.iNdEx >= Len(top.dAtA)
    BY <1>2, Zenon DEF Return, AtLoop
  <2>2. FrameOk(top)
    BY <1>1, <1>2, Zenon
  <2>3. top.iNdEx \in Nat /\ top.iNdEx <= Len(top.dAtA) /\ Len(top.dAtA) \in Nat
    BY <2>2 DEF FrameOk, Buffer
  <2> QED
    BY <2>1, <2>2, <2>3
<1>5. Decodes(q, top.type, tail, top.m, goal) /\ (tail = <<>> => top.m = goal)
  BY <1>3, <1>4, EndDecodes
<1>6. Fits(q, top.m)
  BY <1>5, DecodesTyped, Zenon
<1>7. frames' = <<>> /\ out' = top.m /\ err' = err /\ input' = input
  BY <1>2, Zenon DEF Return
<1> QED
  BY <1>5, <1>6, <1>7, Zenon DEF Reading

\* No call is left: nothing happens any more.
LEMMA ReturnedStays ==
    ASSUME frames = <<>>, Next
    PROVE  UNCHANGED vars
<1>1. ~ AtLoop /\ ~ AtSwitch
  BY Zenon DEF AtLoop, AtSwitch
<1>2. Cases = {}
  BY <1>1, Zenon DEF Cases
<1> QED
  BY <1>1, <1>2, Zenon DEF Next, ReadTag, SkipField, WrongWireType, ReturnToCaller, Return, Returned

\* The innermost call goes on towards its result, or rejects an input that is cut.
LEMMA CallReads ==
    ASSUME FramesOk(frames), frames # <<>>, NEW q, NEW tail, NEW goal, NEW res,
           Chain(frames, q, tail, goal, res), NEW n, n = Len(frames), Next
    PROVE  \/ Refuses(Outermost(n, tail))
           \/ Goes(Outermost(n, q), Outermost(n, tail), res[n])
           \/ Enters(Outermost(n, q), Outermost(n, tail), res[n])
           \/ ReturnToCaller \/ Return
<1>1. PICK p, u, z : p = Outermost(n, q) /\ u = Outermost(n, tail) /\ z = res[n]
  OBVIOUS
<1>2. Expects(Top, p, u, Top.m, z)
  <2>1. PICK fs : fs = frames /\ Len(fs) = n /\ Chain(fs, q, tail, goal, res) /\ Top = fs[n]
    BY TopIs, Zenon
  <2>2. n \in Nat /\ n >= 1
    BY TopIs, Zenon
  <2>3. Expects(fs[n], Outermost(n, q), Outermost(n, tail), fs[n].m, res[n])
    BY <2>1, <2>2, ChainTop, Zenon
  <2> QED
    BY <1>1, <2>1, <2>3, Zenon
<1> SUFFICES \/ Refuses(u) \/ Goes(p, u, z) \/ Enters(p, u, z) \/ ReturnToCaller \/ Return
  BY <1>1, Zenon
<1>3. CASE ReadTag
  BY <1>2, <1>3, ReadTagReads, Zenon
<1>4. CASE SkipField
  BY <1>2, <1>4, SkipFieldReads, Zenon
<1>5. CASE WrongWireType
  BY <1>2, <1>5, WrongWireTypeReads, Zenon
<1>6. ASSUME NEW row \in Cases, DecodeNumber(row) \/ DecodeBytes(row) \/ EnterMessage(row)
      PROVE  Refuses(u) \/ Goes(p, u, z) \/ Enters(p, u, z)
  BY <1>2, <1>6, DecodeNumberReads, DecodeBytesReads, EnterMessageReads, Zenon
<1>7. ~ Returned
  BY Zenon DEF Returned
<1> QED
  BY <1>3, <1>4, <1>5, <1>6, <1>7, Zenon DEF Next

LEMMA NextReads ==
    ASSUME FramesOk(frames), NEW q, NEW tail, NEW goal, Next,
           Reading(frames, err, out, q, tail, goal)
    PROVE  Reading(frames', err', out', q, tail, goal) /\ input' = input
<1>1. CASE frames = <<>>
  <2>1. UNCHANGED vars
    BY <1>1, ReturnedStays, Zenon
  <2> QED
    BY <2>1, Zenon DEF vars
<1>2. CASE frames # <<>>
  <2>1. err = "" /\ \E res : Chain(frames, q, tail, goal, res)
    BY <1>2, Zenon DEF Reading
  <2>2. PICK res : Chain(frames, q, tail, goal, res)
    BY <2>1, Zenon
  <2>3. PICK n : n = Len(frames)
    OBVIOUS
  <2>4. \/ Refuses(Outermost(n, tail))
        \/ Goes(Outermost(n, q), Outermost(n, tail), res[n])
        \/ Enters(Outermost(n, q), Outermost(n, tail), res[n])
        \/ ReturnToCaller \/ Return
    BY <1>2, <2>2, <2>3, CallReads, Zenon
  <2>5. CASE Refuses(Outermost(n, tail))
    BY <2>5, RefusesReads, Zenon
  <2>6. CASE Goes(Outermost(n, q), Outermost(n, tail), res[n])
    BY <1>2, <2>1, <2>2, <2>3, <2>6, GoesReads, Zenon
  <2>7. CASE Enters(Outermost(n, q), Outermost(n, tail), res[n])
    BY <1>2, <2>1, <2>2, <2>3, <2>7, EntersReads, Zenon
  <2>8. CASE ReturnToCaller
    BY <1>2, <2>1, <2>2, <2>8, ReturnToCallerReads, Zenon
  <2>9. CASE Return
    BY <1>2, <2>1, <2>2, <2>9, ReturnReads, Zenon
  <2> QED
    BY <2>4, <2>5, <2>6, <2>7, <2>8, <2>9, Zenon
<1> QED
  BY <1>1, <1>2, Zenon

LEMMA NextDecodes == IndInv /\ DecInv /\ [Next]_vars => DecInv'
<1> SUFFICES ASSUME IndInv, DecInv, [Next]_vars PROVE DecInv'
  OBVIOUS
<1>1. CASE UNCHANGED vars
  BY <1>1, Zenon DEF vars, DecInv
<1>2. CASE Next
  <2> SUFFICES ASSUME input'.origin \in Origins
               PROVE  \E tail, goal : /\ Aims(input', tail, goal)
                                      /\ Reading(frames', err', out', Asked(input'), tail, goal)
    BY DEF DecInv
  <2>1. input' = input /\ FramesOk(frames)
    BY <1>2, StepForms, Zenon DEF IndInv
  <2>2. PICK tail, goal : /\ Aims(input, tail, goal)
                          /\ Reading(frames, err, out, Asked(input), tail, goal)
    BY <2>1, Zenon DEF DecInv
  <2>3. PICK q : q = Asked(input)
    OBVIOUS
  <2>4. Reading(frames', err', out', q, tail, goal)
    BY <1>2, <2>1, <2>2, <2>3, NextReads, Zenon
  <2> QED
    BY <2>1, <2>2, <2>3, <2>4, Zenon
<1> QED
  BY <1>1, <1>2

LEMMA Decoding == Spec => []DecInv
<1>1. Init => DecInv
  BY InitReads
<1> QED
  BY <1>1, Framed, NextDecodes, PTL DEF Spec

\* Whatever messages were marshalled one after the other, and whatever fields of
\* unknown numbers lie among them, Unmarshal succeeds and yields their merge: for
\* every message type, every value of its fields and every width of a word.
THEOREM UnmarshalMerges == Spec => []DecodesAsMerge
<1>1. DecInv => DecodesAsMerge
  <2> SUFFICES ASSUME DecInv, input.origin \in {"whole", "concatenated", "extended"},
                      frames = <<>>
               PROVE  err = "" /\ out = Result(input.type, input.parts)
    BY Zenon DEF DecodesAsMerge
  <2>1. PICK in : in = input
    OBVIOUS
  <2>2. in.origin \in Origins /\ in.origin # "cut"
    BY <2>1, Zenon DEF Origins
  <2>3. PICK tail, goal : /\ Aims(in, tail, goal)
                          /\ Reading(frames, err, out, Asked(in), tail, goal)
    BY <2>1, <2>2, Zenon DEF DecInv
  <2>4. tail = <<>> /\ goal = Result(in.type, in.parts)
    BY <2>2, <2>3, Zenon DEF Aims
  <2> QED
    BY <2>1, <2>3, <2>4, Zenon DEF Reading
<1> QED
  BY <1>1, Decoding, PTL

\* What is accepted of a message that was cut: the property's own words, for a
\* type, a message m and what was read of it.
KeepsPrefix(t, m, x) ==
    LET table == Message[t].Marshal
        Same(i) == x[table[i].field] = m[table[i].field]
        None(i) == x[table[i].field] = Zero(t)[table[i].field]
        Short(i) == table[i].kind = "rep" /\
                    IsPrefix(x[table[i].field], m[table[i].field])
    IN  \E k \in 1 .. (Len(table) + 1) :
          /\ \A i \in DOMAIN table : i < k => Same(i)
          /\ \A i \in DOMAIN table : i > k => None(i)
          /\ k \in DOMAIN table => None(k) \/ Short(k)

\* The first elements of a repeated field.
LEMMA FirstElements ==
    ASSUME NEW v, v \in Seq(Range(v)), NEW j \in 0 .. Len(v), NEW w, w = <<>> \o SubSeq(v, 1, j)
    PROVE  IsPrefix(w, v)
<1>1. PICK S : v \in Seq(S)
  BY Zenon
<1>2. SubSeq(v, 1, j) \in Seq(S) /\ Len(SubSeq(v, 1, j)) = j /\ j \in Nat /\ Len(v) \in Nat
  BY <1>1
<1>3. w = SubSeq(v, 1, j)
  BY <1>2, ConcatProperties
<1>4. Len(w) = j /\ w \in Seq(S)
  BY <1>2, <1>3
<1>5. SubSeq(w, 1, j) = w
  BY <1>4, SubSeqFull
<1> QED
  BY <1>2, <1>3, <1>4, <1>5 DEF IsPrefix

LEMMA BegunKeeps ==
    ASSUME NEW t \in DOMAIN Message, NEW m, IsMessage(t, m), NEW x,
           NEW k \in DOMAIN Message[t].Unmarshal, NEW u, u = Message[t].Unmarshal[k], u \in Rows(t),
           Begun(u, Zero(t), m, x)
    PROVE  \/ x[u.field] = Zero(t)[u.field]
           \/ u.kind = "rep" /\ IsPrefix(x[u.field], m[u.field])
<1>1. SUFFICES ASSUME u.kind = "rep", NEW j \in 0 .. Len(m[u.field]),
                      x[u.field] = Zero(t)[u.field] \o SubSeq(m[u.field], 1, j)
               PROVE  IsPrefix(x[u.field], m[u.field])
  BY Zenon DEF Begun
<1>2. TypeOf(u, m[u.field])
  BY IsMessageIs, ZenonT(60)
<1>3. m[u.field] \in Seq(Range(m[u.field]))
  BY <1>1, <1>2 DEF TypeOf
<1>4. Zero(t)[u.field] = ZeroOf(u)
  BY ZeroAt, ZenonT(60)
<1>5. ZeroOf(u) = <<>>
  BY <1>1 DEF ZeroOf
<1>6. PICK v, w : v = m[u.field] /\ w = x[u.field]
  OBVIOUS
<1>7. v \in Seq(Range(v)) /\ j \in 0 .. Len(v) /\ w = <<>> \o SubSeq(v, 1, j)
  BY <1>1, <1>3, <1>4, <1>5, <1>6, Zenon
<1> QED
  BY <1>6, <1>7, FirstElements, Zenon

\* The fields that Marshal writes are those that Unmarshal reads, in that order.
LEMMA SameRows ==
    ASSUME NEW t \in DOMAIN Message
    PROVE  \E n \in Nat :
             /\ Len(Message[t].Marshal) = n /\ DOMAIN Message[t].Marshal = 1 .. n
             /\ Len(Message[t].Unmarshal) = n /\ DOMAIN Message[t].Unmarshal = 1 .. n
             /\ \A i \in 1 .. n : LET w == Message[t].Marshal[i]
                                      u == Message[t].Unmarshal[i]
                                  IN  /\ w.field = u.field /\ (u.kind = "rep" => w.kind = "rep")
                                      /\ u \in Rows(t)
<1>1. PICK n \in Nat : /\ Len(Message[t].Marshal) = n /\ Len(Message[t].Unmarshal) = n
                       /\ Message[t].Marshal \in Seq(Range(Message[t].Marshal))
                       /\ Message[t].Unmarshal \in Seq(Range(Message[t].Unmarshal))
                       /\ \A i \in 1 .. n : RowAgrees(Message[t].Marshal[i], Message[t].Size[i],
                                                      Message[t].Unmarshal[i])
  BY AllAgree, Zenon DEF Agree, TablesAgree
<1>2. DOMAIN Message[t].Marshal = 1 .. n /\ DOMAIN Message[t].Unmarshal = 1 .. n
  BY <1>1
<1>3. ASSUME NEW i \in 1 .. n
      PROVE  LET w == Message[t].Marshal[i]
                 u == Message[t].Unmarshal[i]
             IN  w.field = u.field /\ (u.kind = "rep" => w.kind = "rep") /\ u \in Rows(t)
  <2>1. PICK w, c, u : w = Message[t].Marshal[i] /\ u = Message[t].Unmarshal[i] /\ RowAgrees(w, c, u)
    BY <1>1, Zenon
  <2>2. w.field = u.field /\ (u.kind = "rep" => w.kind = "rep")
    BY <2>1 DEF RowAgrees
  <2>3. u \in Rows(t)
    BY <1>2, <2>1, Zenon DEF Rows, Range
  <2> QED
    BY <2>1, <2>2, <2>3
<1> QED
  BY <1>1, <1>2, <1>3, Zenon

LEMMA BetweenKeeps ==
    ASSUME NEW t \in DOMAIN Message, NEW m, IsMessage(t, m), NEW x, Between(t, Zero(t), m, x)
    PROVE  KeepsPrefix(t, m, x)
<1>1. PICK M, U, z : M = Message[t].Marshal /\ U = Message[t].Unmarshal /\ z = Zero(t)
  OBVIOUS
<1>2. PICK n \in Nat : /\ Len(M) = n /\ DOMAIN M = 1 .. n /\ Len(U) = n /\ DOMAIN U = 1 .. n
                       /\ \A i \in 1 .. n : /\ M[i].field = U[i].field
                                            /\ U[i].kind = "rep" => M[i].kind = "rep"
                                            /\ U[i] \in Rows(t)
  BY <1>1, SameRows, Zenon
<1>3. Merge(t, z, m) = m
  BY <1>1, AllMerge, Zenon DEF Merges
<1>4. PICK k \in 1 .. n + 1 : /\ \A i \in 1 .. n : i < k => x[U[i].field] = m[U[i].field]
                              /\ \A i \in 1 .. n : i > k => x[U[i].field] = z[U[i].field]
                              /\ k <= n => Begun(U[k], z, m, x)
  BY <1>1, <1>2, <1>3, ZenonT(60) DEF Between
<1>5. \A i \in 1 .. n : i < k => x[M[i].field] = m[M[i].field]
  <2> SUFFICES ASSUME NEW i \in 1 .. n, i < k PROVE x[M[i].field] = m[M[i].field]
    BY Zenon
  <2>1. M[i].field = U[i].field
    BY <1>2, Zenon
  <2>2. x[U[i].field] = m[U[i].field]
    BY <1>4, Zenon
  <2> QED
    BY <2>1, <2>2, Zenon
<1>6. \A i \in 1 .. n : i > k => x[M[i].field] = z[M[i].field]
  <2> SUFFICES ASSUME NEW i \in 1 .. n, i > k PROVE x[M[i].field] = z[M[i].field]
    BY Zenon
  <2>1. M[i].field = U[i].field
    BY <1>2, Zenon
  <2>2. x[U[i].field] = z[U[i].field]
    BY <1>4, Zenon
  <2> QED
    BY <2>1, <2>2, Zenon
<1>7. ASSUME k \in 1 .. n
      PROVE  \/ x[M[k].field] = z[M[k].field]
             \/ M[k].kind = "rep" /\ IsPrefix(x[M[k].field], m[M[k].field])
  <2>1. k <= n
    BY <1>7
  <2>2. PICK u : u = U[k] /\ u \in Rows(t) /\ Begun(u, z, m, x)
    BY <1>2, <1>4, <1>7, <2>1, Zenon
  <2>3. k \in DOMAIN Message[t].Unmarshal /\ u = Message[t].Unmarshal[k] /\ Begun(u, Zero(t), m, x)
    BY <1>1, <1>2, <1>7, <2>2, Zenon
  <2>4. \/ x[u.field] = Zero(t)[u.field]
        \/ u.kind = "rep" /\ IsPrefix(x[u.field], m[u.field])
    BY <2>2, <2>3, BegunKeeps, Zenon
  <2>5. M[k].field = u.field /\ (u.kind = "rep" => M[k].kind = "rep")
    BY <1>2, <1>7, <2>2, Zenon
  <2> QED
    BY <1>1, <2>4, <2>5, Zenon
<1> QED
  BY <1>1, <1>2, <1>4, <1>5, <1>6, <1>7, ZenonT(60) DEF KeepsPrefix

LEMMA CutRead ==
    ASSUME NEW in \in Inputs, in.origin = "cut", NEW x, Fits(Asked(in), x)
    PROVE  KeepsPrefix(in.type, in.parts[1].value, x)
<1>1. PICK t, m : t = in.type /\ m = in.parts[1].value
  OBVIOUS
<1>2. t \in DOMAIN Message
  BY <1>1, InputsAssumption
<1>3. IsMessage(t, m)
  BY <1>1, OnePart
<1>4. PICK z : z = Zero(t)
  OBVIOUS
<1>5. Asked(in) = <<t, z, m>>
  BY <1>1, <1>4, Zenon DEF Asked
<1>6. /\ <<t, z, m>> # <<>> /\ <<t, z, m>>[1] = t /\ <<t, z, m>>[2] = z /\ <<t, z, m>>[3] = m
  OBVIOUS
<1>7. Fits(<<t, z, m>>, x)
  BY <1>5, Zenon
<1>8. Between(t, z, m, x)
  BY <1>6, <1>7, Zenon DEF Fits
<1> QED
  BY <1>1, <1>2, <1>3, <1>4, <1>8, BetweenKeeps, Zenon

\* Of a message cut short, anywhere, Unmarshal accepts only what ends at a field
\* of the message: the fields before it are the message's, a repeated field has
\* its first elements, and what follows is zero. A cut inside a field is an error.
THEOREM CutsKeepPrefix == Spec => []CutKeepsPrefix
<1>1. IndInv /\ DecInv => CutKeepsPrefix
  <2> SUFFICES ASSUME IndInv, DecInv, input.origin = "cut", frames = <<>>, err = ""
               PROVE  KeepsPrefix(input.type, input.parts[1].value, out)
    BY Zenon DEF CutKeepsPrefix, Ok, KeepsPrefix
  <2>1. PICK in \in Inputs : in = input /\ in.origin = "cut"
    BY Zenon DEF IndInv
  <2>2. in.origin \in Origins
    BY <2>1, Zenon DEF Origins
  <2>3. PICK tail, goal : Reading(frames, err, out, Asked(in), tail, goal)
    BY <2>1, <2>2, Zenon DEF DecInv
  <2>4. PICK x : x = out /\ Fits(Asked(in), x)
    BY <2>3, Zenon DEF Reading
  <2>5. KeepsPrefix(in.type, in.parts[1].value, x)
    BY <2>1, <2>4, CutRead, Zenon
  <2> QED
    BY <2>1, <2>4, <2>5, Zenon
<1> QED
  BY <1>1, Framed, Decoding, PTL
=============================================================================
