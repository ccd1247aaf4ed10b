------------------------------ MODULE MempoolIDs ------------------------------
(***************************************************************************)
(* The table that gives every gossiping peer a small integer id            *)
(* (pkg/adapter/mempool_ids.go).  The transaction validator of the gossip  *)
(* layer asks for the id of the sending peer before each CheckTx, from one *)
(* goroutine per message, so calls of all peers interleave; each method    *)
(* holds the mutex from its first to its last line and is one action here. *)
(*                                                                         *)
(* Ids are uint16 in the code: IDSpace stands for 2^16, and nextID wraps.  *)
(***************************************************************************)
EXTENDS Naturals, FiniteSets

CONSTANTS Peers,     \* the peers that may ever gossip
          IDSpace    \* number of values of the id type (2^16 in the code)

ASSUME IDSpaceAssumption == IDSpace \in Nat /\ IDSpace > 2

VARIABLES peerMap,    \* the ids handed out: a function from some peers to IDs
          nextID,     \* where the search for an unused id starts
          activeIDs,  \* the ids that may not be handed out
          panicked    \* nextPeerID found the table full

vars == <<peerMap, nextID, activeIDs, panicked>>

IDs == 0 .. IDSpace - 1

\* math.MaxUint16: one less than the number of ids.
maxActiveIDs == IDSpace - 1

\* The id 0 stays with the node's own broadcasts.
unknownPeerID == 0

\* nextID++ on a uint16.
Inc(id) == (id + 1) % IDSpace

\* How many increments lead from id a to id b.
Steps(a, b) == IF a <= b THEN b - a ELSE IDSpace - (a - b)

-----------------------------------------------------------------------------
\* A slip in newMempoolIDs: the id 0 is not set aside.
InitWithoutReserve == /\ peerMap = [p \in {} |-> unknownPeerID]
                      /\ activeIDs = {}
                      /\ nextID = 0
                      /\ panicked = FALSE

\* newMempoolIDs
Init == /\ peerMap = [p \in {} |-> unknownPeerID]
        /\ activeIDs = {unknownPeerID}
        /\ nextID = 1
        /\ panicked = FALSE

\* A slip in the guard of nextPeerID: one id too many.
TableFullOffByOne == Cardinality(activeIDs) = maxActiveIDs + 1

\* The guard of nextPeerID.
TableFull == Cardinality(activeIDs) = maxActiveIDs

\* The loop of nextPeerID stops at the first inactive id from nextID on.
FirstUnused(id) == /\ id \in IDs \ activeIDs
                   /\ \A other \in IDs \ activeIDs :
                         Steps(nextID, id) <= Steps(nextID, other)

\* The map peerMap with peer p bound to id.
Bind(p, id) == [q \in DOMAIN peerMap \cup {p} |->
                   IF q = p THEN id ELSE peerMap[q]]

\* nextPeerID and the two assignments that follow each of its calls.
Assign(p) ==
    \/ /\ TableFull
       /\ panicked' = TRUE
       /\ UNCHANGED <<peerMap, nextID, activeIDs>>
    \/ /\ ~ TableFull
       /\ \E id \in IDs :
             /\ FirstUnused(id)
             /\ peerMap' = Bind(p, id)
             /\ activeIDs' = activeIDs \cup {id}
             /\ nextID' = Inc(id)
       /\ UNCHANGED panicked

\* ReserveForPeer always takes a new id, also for a peer that has one.
ReserveForPeer(p) == ~ panicked /\ Assign(p)

\* GetForPeer takes a new id only for a peer that has none; the call for a
\* peer that has one returns it and changes nothing.
GetForPeer(p) == ~ panicked /\ p \notin DOMAIN peerMap /\ Assign(p)

\* Reclaim gives the id of p back.
Reclaim(p) ==
    /\ ~ panicked
    /\ p \in DOMAIN peerMap
    /\ activeIDs' = activeIDs \ {peerMap[p]}
    /\ peerMap' = [q \in DOMAIN peerMap \ {p} |-> peerMap[q]]
    /\ UNCHANGED <<nextID, panicked>>

Next == \E p \in Peers : ReserveForPeer(p) \/ GetForPeer(p) \/ Reclaim(p)

Spec == Init /\ [][Next]_vars

-----------------------------------------------------------------------------
\* The table maps peers to ids and nextID is always an id.
TypeOK == /\ DOMAIN peerMap \subseteq Peers
          /\ \A p \in DOMAIN peerMap : peerMap[p] \in IDs
          /\ nextID \in IDs
          /\ activeIDs \subseteq IDs
          /\ panicked \in BOOLEAN

(***************************************************************************)
(* No two peers ever share an id, whatever the order of reservations,      *)
(* reclaims and wraps of the uint16 counter, and no peer is ever given the *)
(* id 0 that CheckTx takes for the node's own transactions: otherwise the  *)
(* mempool would not send a transaction back to a peer that never sent it. *)
(***************************************************************************)
UniqueIDs ==
    /\ \A p, q \in DOMAIN peerMap : p # q => peerMap[p] # peerMap[q]
    /\ \A p \in DOMAIN peerMap : peerMap[p] # unknownPeerID

(***************************************************************************)
(* nextPeerID spins, holding the mutex, for as long as every id is active. *)
(* The guard against maxActiveIDs keeps one id inactive at all times, so   *)
(* the loop that skips active ids always ends.                             *)
(***************************************************************************)
LoopTerminates == IDs \ activeIDs # {}

=============================================================================
