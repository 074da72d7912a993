----------------------- MODULE EngineMembershipProofs -----------------------
(***************************************************************************)
(* The media loop implements Membership, for every instance.  The mapping  *)
(* needs the invariants of EngineProofs: one seat per identity makes the   *)
(* peers of a room and its occupied seats equinumerous, and no empty room  *)
(* makes "the room is in the table" and "somebody sits in it" the same.    *)
(***************************************************************************)
EXTENDS EngineMembership, EngineProofs

Inv == Shape /\ RoomsKept /\ BooksKept

\* The instance counts as the loop does.
LEMMA SameCardinality == ASSUME NEW S PROVE M!Cardinality(S) = Cardinality(S)
BY DEF M!Cardinality, Cardinality

\* The seats of a room are exactly as many as its peers.
LEMMA SeatsOfRoom ==
  ASSUME Inv, NEW r \in Rooms
  PROVE  /\ M!Occupants(Seats, r) = {<<r, peer[p].user>> : p \in Members(r)}
         /\ IsFiniteSet(Members(r))
         /\ Cardinality(M!Occupants(Seats, r)) = Cardinality(Members(r))
<1>1. \A p \in Live : p \in Members(r) <=> peerRooms[p] = r
  BY DEF Inv, Shape, IndexAgrees, Members
<1>2. Members(r) \in SUBSET Live /\ Live \in SUBSET PeerIds
  BY DEF Inv, Shape, IndexAgrees, TypeOK, Members, Live
<1>3. M!Occupants(Seats, r) = {<<r, peer[p].user>> : p \in Members(r)}
  <2>1. \A s \in M!Occupants(Seats, r) : \E p \in Members(r) : s = <<r, peer[p].user>>
    BY <1>1 DEF M!Occupants, Seats, Seat
  <2>2. \A p \in Members(r) : <<r, peer[p].user>> \in M!Occupants(Seats, r)
    BY <1>1, <1>2 DEF M!Occupants, Seats, Seat
  <2> QED
    BY <2>1, <2>2
<1>4. IsFiniteSet(Members(r))
  BY <1>2, FiniteRooms DEF Inv, Shape
<1>5. Cardinality(M!Occupants(Seats, r)) = Cardinality(Members(r))
  <2> DEFINE S == Members(r)
             T == M!Occupants(Seats, r)
             f == [p \in S |-> <<r, peer[p].user>>]
  <2>1. f \in [S -> T] /\ \A t \in T : \E p \in S : f[p] = t
    BY <1>3
  <2>2. \A p, q \in S : f[p] = f[q] => p = q
    BY <1>1, <1>2 DEF Inv, RoomsKept, OneSeatPerUser, Seat
  <2>3. f \in Bijection(S, T)
    BY <2>1, <2>2 DEF Bijection, Injection, Surjection, IsInjective
  <2>4. ExistsBijection(S, T)
    BY <2>3 DEF ExistsBijection
  <2> QED
    BY <2>4, <1>4, FS_Bijection
<1> QED
  BY <1>3, <1>4, <1>5

LEMMA AdmitImplements ==
  ASSUME Inv, NEW u \in Users, NEW r \in Rooms, JoinAdmit(u, r)
  PROVE  M!Arrive(<<r, u>>) \/ UNCHANGED <<Seats, toldPresent>>
<1> Admitted(u, r)
  BY AdmitFacts DEF Inv
<1> PICK id \in PeerIds : id = nextPeer
  BY DEF Admitted
<1>1. /\ Live' = (Live \ Stale(u, r)) \cup {id} /\ id \notin Live
      /\ Seat(id)' = <<r, u>>
      /\ \A p \in Live \ Stale(u, r) : Seat(p)' = Seat(p)
  <2>1. NewPeer(u).user = u
    BY DEF NewPeer
  <2> QED
    BY <2>1 DEF Admitted, Live, Seat
<1>2. \A p \in Live : p \in Stale(u, r) <=> Seat(p) = <<r, u>>
  BY DEF Seat, Stale, Members, Inv, Shape, IndexAgrees
<1>3. Seats' = Seats \cup {<<r, u>>}
  <2>1. ASSUME NEW s \in Seats' PROVE s \in Seats \cup {<<r, u>>}
    BY <1>1 DEF Seats
  <2>2. ASSUME NEW s \in Seats PROVE s \in Seats'
    <3>1. PICK p \in Live : s = Seat(p)
      BY DEF Seats
    <3> QED
      BY <3>1, <1>1, <1>2 DEF Seats
  <2>3. <<r, u>> \in Seats'
    BY <1>1 DEF Seats
  <2> QED
    BY <2>1, <2>2, <2>3
<1>4. UNCHANGED toldPresent
  BY DEF JoinAdmit, told
<1>5. CASE <<r, u>> \in Seats
  BY <1>3, <1>4, <1>5
<1>6. CASE <<r, u>> \notin Seats
  <2>1. Cardinality(Members(r)) < MaxRoomPeers
    <3>1. CASE r \in DOMAIN rooms
      <4>1. Cardinality(rooms[r]) \in Nat
        BY <3>1, FiniteRooms DEF Inv, Shape, TypeOK
      <4> QED
        BY <3>1, <4>1, EngineAssumption DEF JoinAdmit, Full, Members
    <3>2. CASE r \notin DOMAIN rooms
      BY <3>2, FS_EmptySet, EngineAssumption DEF Members
    <3> QED
      BY <3>1, <3>2
  <2>2. Cardinality(M!Occupants(Seats, r)) < MaxRoomPeers
    BY <2>1, SeatsOfRoom
  <2>3. <<r, u>>[1] = r
    OBVIOUS
  <2>4. ASSUME NEW s, s = <<r, u>>
        PROVE  M!Arrive(s)
    <3>1. s[1] = r
      BY <2>3, <2>4
    <3>2. s \notin Seats /\ Seats' = Seats \cup {s}
      BY <1>3, <1>6, <2>4
    <3> QED
      BY <3>1, <3>2, <2>2, <1>4, SameCardinality DEF M!Arrive
  <2> QED
    BY <2>4
<1> QED
  BY <1>5, <1>6

LEMMA DropImplements ==
  ASSUME Inv, NEW D \in SUBSET Live, Drop(D)
  PROVE  \E S \in SUBSET Seats : \E announced \in SUBSET S : M!Depart(S, announced)
<1> Dropped(D)
  BY DropFacts DEF Inv
<1> DEFINE S == {Seat(p) : p \in D}
           announced == OverByName(D)
<1>1. S \subseteq Seats /\ announced \subseteq S
  BY DEF Seats, OverByName
<1>2. Live' = Live \ D /\ \A p \in Live \ D : Seat(p)' = Seat(p)
  BY DEF Dropped, Live, Seat
<1>3. \A p, q \in Live : Seat(p) = Seat(q) => p = q
  BY DEF Inv, RoomsKept, OneSeatPerUser
<1>4. Seats' = Seats \ S
  <2>1. Seats' = {Seat(p) : p \in Live \ D}
    BY <1>2 DEF Seats
  <2> QED
    BY <2>1, <1>3 DEF Seats
<1>5. \A r \in DOMAIN rooms : r \in Emptied(D) <=> M!Occupants(Seats', r) = {}
  <2>1. ASSUME NEW r \in DOMAIN rooms, NEW p \in rooms[r], p \notin D
        PROVE  Seat(p) \in M!Occupants(Seats', r) /\ r \notin Emptied(D)
    <3>1. p \in Live \ D /\ peerRooms[p] = r
      BY <2>1 DEF Inv, Shape, IndexAgrees
    <3>2. Seat(p) \in Seats'
      BY <3>1, <1>2 DEF Seats
    <3> QED
      BY <2>1, <3>1, <3>2 DEF M!Occupants, Seat, Emptied
  <2>2. ASSUME NEW r \in DOMAIN rooms, rooms[r] \subseteq D
        PROVE  M!Occupants(Seats', r) = {} /\ r \in Emptied(D)
    <3>1. \A p \in Live \ D : peerRooms[p] # r
      BY <2>2 DEF Inv, Shape, IndexAgrees
    <3>2. \A s \in Seats' : s[1] # r
      BY <3>1, <1>2 DEF Seats, Seat
    <3>3. rooms[r] # {}
      BY DEF Inv, RoomsKept, NoEmptyRoom
    <3> QED
      BY <2>2, <3>2, <3>3 DEF M!Occupants, Emptied
  <2> QED
    BY <2>1, <2>2
<1>6. toldPresent' = {s \in toldPresent \ announced : M!Occupants(Seats', s[1]) # {}}
  <2>1. toldPresent' = toldPresent \ Over(D)
    BY DEF Drop
  <2>2. ASSUME NEW s \in toldPresent
        PROVE  s \in Over(D) <=> s \in announced \/ M!Occupants(Seats', s[1]) = {}
    <3>1. s \in Rooms \X Users /\ s[1] \in DOMAIN rooms
      BY DEF Inv, Shape, TypeOK, BooksKept, ToldOnlyOpenRooms
    <3>2. s \in Emptied(D) \X Users <=> s[1] \in Emptied(D)
      BY <3>1
    <3> QED
      BY <3>1, <3>2, <1>5 DEF Over
  <2> QED
    BY <2>1, <2>2
<1>7. M!Depart(S, announced)
  BY <1>1, <1>4, <1>6 DEF M!Depart
<1> QED
  BY <1>1, <1>7

\* Steps that leave everybody seated where they were.
LEMMA SameSeatsSame == ASSUME SameSeats PROVE UNCHANGED Seats
BY DEF SameSeats, Seats, Seat, Live

LEMMA StepImplements ==
  ASSUME Inv, [Next]_vars
  PROVE  [M!Next]_<<Seats, toldPresent>>
<1>1. CASE Refusal \/ Idle
  BY <1>1 DEF Refusal, JoinFull, JoinBadOffer, Idle, tables, told, Seats, Seat, Live
<1>2. CASE Admission
  <2>1. PICK u \in Users, r \in Rooms : JoinAdmit(u, r)
    BY <1>2 DEF Admission
  <2>2. M!Arrive(<<r, u>>) \/ UNCHANGED <<Seats, toldPresent>>
    BY <2>1, AdmitImplements
  <2> QED
    BY <2>2 DEF M!Next
<1>3. CASE StateChange
  <2>1. PICK p \in Live, muted \in BOOLEAN, active \in BOOLEAN : SetState(p, muted, active)
    BY <1>3 DEF StateChange
  <2>2. SameSeats /\ UNCHANGED toldPresent
    BY <2>1, SetStateShape DEF SetState, Inv
  <2> QED
    BY <2>2, SameSeatsSame
<1>4. CASE Departure
  BY <1>4, DropImplements DEF Departure, M!Next
<1>5. CASE TransportStep
  <2>1. UNCHANGED Seats
    BY <1>5, SameSeatsSame DEF TransportStep, TransportOnly
  <2>2. CASE UNCHANGED toldPresent
    BY <2>1, <2>2
  <2>3. CASE ReportConnections
    <3> DEFINE S == {Seat(p) : p \in Arrived}
    <3>1. S \subseteq Seats /\ toldPresent' = toldPresent \cup S
      BY <2>3 DEF ReportConnections, Arrived, Seats
    <3>2. M!Announce(S)
      BY <2>1, <3>1 DEF M!Announce
    <3> QED
      BY <3>1, <3>2 DEF M!Next
  <2> QED
    BY <1>5, <2>2, <2>3 DEF TransportStep
<1> QED
  BY <1>1, <1>2, <1>3, <1>4, <1>5, StepKinds DEF Inv

\* The media loop implements Membership.
THEOREM LoopImplementsMembership == Spec => ImplementsMembership
<1>1. Init => M!Init
  BY DEF Init, M!Init, Seats, Live
<1>2. Inv /\ [Next]_vars => [M!Next]_<<Seats, toldPresent>>
  BY StepImplements
<1>3. Spec => []Inv
  BY BooksInvariant, PTL DEF Inv
<1> QED
  BY <1>1, <1>2, <1>3, PTL DEF Spec, ImplementsMembership, M!Spec, M!vars
=============================================================================
