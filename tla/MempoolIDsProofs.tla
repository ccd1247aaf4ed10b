--------------------------- MODULE MempoolIDsProofs ---------------------------
(***************************************************************************)
(* Proofs about MempoolIDs, for any set of peers and any width of the ids. *)
(*                                                                         *)
(* UniqueIDs alone is not inductive: a new id is unique because the search *)
(* skips active ids, so every id handed out has to be active, and 0 too.   *)
(* LoopTerminates needs the bound that the guard of nextPeerID keeps.      *)
(***************************************************************************)
EXTENDS MempoolIDs, FiniteSetTheorems, TLAPS

\* The ids handed out are active, as is the reserved id.
HandedOutActive == /\ unknownPeerID \in activeIDs
                   /\ \A p \in DOMAIN peerMap : peerMap[p] \in activeIDs

\* The guard of nextPeerID leaves one id unused.
BelowLimit == Cardinality(activeIDs) <= maxActiveIDs

IndInv == TypeOK /\ UniqueIDs /\ HandedOutActive /\ BelowLimit

-----------------------------------------------------------------------------
\* The ids form a finite set of IDSpace members, and so does activeIDs.
LEMMA IDsFinite ==
    /\ IsFiniteSet(IDs) /\ Cardinality(IDs) = IDSpace
    /\ \A S \in SUBSET IDs : IsFiniteSet(S) /\ Cardinality(S) \in Nat
<1>1. 0 \in Int /\ IDSpace - 1 \in Int /\ 0 <= IDSpace - 1
  BY IDSpaceAssumption
<1>2. IsFiniteSet(IDs) /\ Cardinality(IDs) = IDSpace
  BY <1>1, FS_Interval, IDSpaceAssumption DEF IDs
<1>3. ASSUME NEW S \in SUBSET IDs
      PROVE  IsFiniteSet(S) /\ Cardinality(S) \in Nat
  BY <1>2, FS_Subset, FS_CardinalityType
<1> QED
  BY <1>2, <1>3

\* nextID++ stays within the type of the ids.
LEMMA IncType == \A id \in IDs : Inc(id) \in IDs
BY IDSpaceAssumption DEF Inc, IDs

\* newMempoolIDs establishes the invariant.
LEMMA InitInv == Init => IndInv
<1> SUFFICES ASSUME Init PROVE IndInv
  OBVIOUS
<1>a. DOMAIN peerMap = {}
  BY DEF Init
<1>b. nextID \in IDs /\ activeIDs \subseteq IDs /\ unknownPeerID \in activeIDs
  BY IDSpaceAssumption DEF Init, IDs, unknownPeerID
<1>c. panicked \in BOOLEAN
  BY DEF Init
<1>1. TypeOK /\ UniqueIDs /\ HandedOutActive
  BY <1>a, <1>b, <1>c DEF TypeOK, UniqueIDs, HandedOutActive
<1>2. Cardinality(activeIDs) = 1
  BY FS_Singleton DEF Init
<1>3. BelowLimit
  BY <1>2, IDSpaceAssumption DEF BelowLimit, maxActiveIDs
<1> QED
  BY <1>1, <1>3 DEF IndInv

\* nextPeerID and the assignments after it preserve the invariant.
LEMMA AssignInv ==
    ASSUME IndInv, NEW p \in Peers, Assign(p)
    PROVE  IndInv'
<1>1. CASE /\ TableFull
           /\ panicked' = TRUE
           /\ UNCHANGED <<peerMap, nextID, activeIDs>>
  BY <1>1 DEF IndInv, TypeOK, UniqueIDs, HandedOutActive, BelowLimit
<1>2. CASE ~ TableFull /\ panicked' = panicked
           /\ \E id \in IDs : /\ FirstUnused(id)
                              /\ peerMap' = Bind(p, id)
                              /\ activeIDs' = activeIDs \cup {id}
                              /\ nextID' = Inc(id)
  <2>1. PICK id \in IDs : /\ FirstUnused(id)
                          /\ peerMap' = Bind(p, id)
                          /\ activeIDs' = activeIDs \cup {id}
                          /\ nextID' = Inc(id)
    BY <1>2
  <2>2. id \notin activeIDs
    BY <2>1 DEF FirstUnused
  <2>3. /\ DOMAIN peerMap' = DOMAIN peerMap \cup {p}
        /\ peerMap'[p] = id
        /\ \A q \in DOMAIN peerMap \ {p} : peerMap'[q] = peerMap[q]
    BY <2>1 DEF Bind
  <2>4. TypeOK'
    BY <1>2, <2>1, <2>3, IncType DEF IndInv, TypeOK
  <2>5. UniqueIDs'
    BY <2>2, <2>3 DEF IndInv, UniqueIDs, HandedOutActive
  <2>6. HandedOutActive'
    BY <2>1, <2>3 DEF IndInv, HandedOutActive
  <2>7. BelowLimit'
    <3>1. IsFiniteSet(activeIDs) /\ Cardinality(activeIDs) \in Nat
      BY IDsFinite DEF IndInv, TypeOK
    <3>2. Cardinality(activeIDs') = Cardinality(activeIDs) + 1
      BY <2>1, <2>2, <3>1, FS_AddElement
    <3>3. Cardinality(activeIDs) <= maxActiveIDs /\ Cardinality(activeIDs) # maxActiveIDs
      BY <1>2 DEF IndInv, BelowLimit, TableFull
    <3> QED
      BY <3>1, <3>2, <3>3, IDSpaceAssumption DEF BelowLimit, maxActiveIDs
  <2> QED
    BY <2>4, <2>5, <2>6, <2>7 DEF IndInv
<1> QED
  BY <1>1, <1>2 DEF Assign

\* Reclaim preserves the invariant.
LEMMA ReclaimInv ==
    ASSUME IndInv, NEW p \in Peers, Reclaim(p)
    PROVE  IndInv'
<1>1. /\ DOMAIN peerMap' = DOMAIN peerMap \ {p}
      /\ \A q \in DOMAIN peerMap \ {p} : peerMap'[q] = peerMap[q]
      /\ activeIDs' = activeIDs \ {peerMap[p]}
      /\ p \in DOMAIN peerMap
      /\ nextID' = nextID /\ panicked' = panicked
  BY DEF Reclaim
<1>2. TypeOK' /\ UniqueIDs'
  BY <1>1 DEF IndInv, TypeOK, UniqueIDs
<1>3. HandedOutActive'
  BY <1>1 DEF IndInv, UniqueIDs, HandedOutActive
<1>4. BelowLimit'
  <2>1. IsFiniteSet(activeIDs) /\ Cardinality(activeIDs) \in Nat
    BY IDsFinite DEF IndInv, TypeOK
  <2>2. Cardinality(activeIDs') \in {Cardinality(activeIDs), Cardinality(activeIDs) - 1}
    BY <1>1, <2>1, FS_RemoveElement
  <2> QED
    BY <2>1, <2>2, IDSpaceAssumption DEF IndInv, BelowLimit, maxActiveIDs
<1> QED
  BY <1>2, <1>3, <1>4 DEF IndInv

\* Every step preserves the invariant.
LEMMA NextInv == IndInv /\ [Next]_vars => IndInv'
<1> SUFFICES ASSUME IndInv, [Next]_vars PROVE IndInv'
  OBVIOUS
<1>1. CASE UNCHANGED vars
  BY <1>1 DEF vars, IndInv, TypeOK, UniqueIDs, HandedOutActive, BelowLimit
<1>2. ASSUME NEW p \in Peers, ReserveForPeer(p) PROVE IndInv'
  BY <1>2, AssignInv DEF ReserveForPeer
<1>3. ASSUME NEW p \in Peers, GetForPeer(p) PROVE IndInv'
  BY <1>3, AssignInv DEF GetForPeer
<1>4. ASSUME NEW p \in Peers, Reclaim(p) PROVE IndInv'
  BY <1>4, ReclaimInv
<1> QED
  BY <1>1, <1>2, <1>3, <1>4 DEF Next

\* The limit on active ids leaves an id for the search to find.
LEMMA LimitLeavesID == IndInv => LoopTerminates
<1> SUFFICES ASSUME IndInv, IDs \subseteq activeIDs PROVE FALSE
  BY DEF LoopTerminates
<1>1. activeIDs = IDs
  BY DEF IndInv, TypeOK
<1> QED
  BY <1>1, IDsFinite, IDSpaceAssumption DEF IndInv, BelowLimit, maxActiveIDs

-----------------------------------------------------------------------------
\* The invariant holds in every reachable state of the id table
\* (pkg/adapter/mempool_ids.go).
THEOREM Invariance == Spec => []IndInv
BY InitInv, NextInv, PTL DEF Spec

\* The table stays well-formed: nextID, although it wraps, is always an id.
THEOREM TypeCorrect == Spec => []TypeOK
<1>1. IndInv => TypeOK
  BY DEF IndInv
<1> QED
  BY <1>1, Invariance, PTL

\* No two peers share an id and none has the id 0, for any number of peers
\* and any order of ReserveForPeer, GetForPeer and Reclaim.
THEOREM IDsAreUnique == Spec => []UniqueIDs
<1>1. IndInv => UniqueIDs
  BY DEF IndInv
<1> QED
  BY <1>1, Invariance, PTL

\* The search loop of nextPeerID always has an id to find.
THEOREM SearchEnds == Spec => []LoopTerminates
BY LimitLeavesID, Invariance, PTL
=============================================================================
