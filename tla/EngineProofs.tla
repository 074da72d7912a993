---------------------------- MODULE EngineProofs ----------------------------
(***************************************************************************)
(* Proofs about the media loop, for any identities, any rooms, any limit   *)
(* and any number of peers.                                                *)
(*                                                                         *)
(* The invariants are proved in layers, each using the ones before it:     *)
(*   Shape         types, agreement of the two tables, ids below next_peer *)
(*   RoomsKept     no empty room, one seat per identity, the limit         *)
(*   RosterAgrees  what the clients were told of their room                *)
(*   BooksKept     what the host application was told                      *)
(* On Shape alone rest Announced and Swept, the safety halves of the two   *)
(* liveness properties: who goes was announced, and who is dead goes.  The *)
(* last two sections say how far the findings about the host application's *)
(* books go, and that rooms do not hear of each other.                     *)
(* Every step is of one of six kinds (lemma StepKinds): a refused join, an *)
(* admission, a change of mute or screen, a departure of one or several    *)
(* peers, a step of the transports, or one that touches no table.  Each    *)
(* layer is proved kind by kind.                                           *)
(***************************************************************************)
EXTENDS Engine, TLAPS, FiniteSetTheorems

-----------------------------------------------------------------------------
(* Lemmas about the functions the tables are                               *)

LEMMA InsertFacts ==
  ASSUME NEW f, NEW k, NEW v
  PROVE  /\ DOMAIN Insert(f, k, v) = DOMAIN f \cup {k}
         /\ Insert(f, k, v)[k] = v
         /\ \A x \in DOMAIN f \ {k} : Insert(f, k, v)[x] = f[x]
BY DEF Insert

LEMMA InsertType ==
  ASSUME NEW f, NEW k, NEW T, NEW v \in T, f \in [DOMAIN f -> T]
  PROVE  Insert(f, k, v) \in [DOMAIN Insert(f, k, v) -> T]
BY DEF Insert

LEMMA WithoutFacts ==
  ASSUME NEW f, NEW S
  PROVE  /\ DOMAIN Without(f, S) = DOMAIN f \ S
         /\ \A x \in DOMAIN f \ S : Without(f, S)[x] = f[x]
BY DEF Without, Restrict

LEMMA WithoutType ==
  ASSUME NEW f, NEW S, NEW T, f \in [DOMAIN f -> T]
  PROVE  Without(f, S) \in [DOMAIN Without(f, S) -> T]
BY DEF Without, Restrict

-----------------------------------------------------------------------------
(* The shape of the tables                                                 *)

IdsIssued == \A p \in Live : p < nextPeer

Shape == TypeOK /\ IndexAgrees /\ IdsIssued

LEMMA InitShape == Init => Shape
BY EngineAssumption DEF Init, Shape, TypeOK, IndexAgrees, IdsIssued, Live, Phases, Verdict, PeerIds

\* A join refused for want of room, and one refused for its offer, touch no table.
LEMMA RefusalShape ==
  ASSUME Shape, NEW u \in Users, NEW r \in Rooms, JoinFull(u, r) \/ JoinBadOffer(u, r)
  PROVE  Shape'
<1>1. verdict' \in Verdict
  BY DEF JoinFull, JoinBadOffer, Answered, Verdict, Refusals
<1>2. nextPeer' \in 1 .. MaxPeerId + 1 /\ nextPeer' >= nextPeer
  BY EngineAssumption DEF Shape, TypeOK, JoinFull, JoinBadOffer, PeerIds
<1>3. UNCHANGED <<phase, tables, view, told>>
  BY DEF JoinFull, JoinBadOffer
<1> QED
  BY <1>1, <1>2, <1>3, EngineAssumption
  DEF Shape, TypeOK, IndexAgrees, IdsIssued, tables, told, Live, PeerIds

Stay(u, r) == Members(r) \ Stale(u, r)

\* What a join leaves behind.  The newcomer's id is fresh, so it enters both
\* tables without disturbing them.
Admitted(u, r) ==
  /\ nextPeer \in PeerIds /\ nextPeer \notin Live /\ nextPeer' = nextPeer + 1
  /\ Stale(u, r) \subseteq Members(r) /\ Members(r) \subseteq Live
  /\ DOMAIN rooms' = DOMAIN rooms \cup {r}
  /\ rooms'[r] = Stay(u, r) \cup {nextPeer}
  /\ \A q \in DOMAIN rooms \ {r} : rooms'[q] = rooms[q]
  /\ DOMAIN peerRooms' = (Live \ Stale(u, r)) \cup {nextPeer}
  /\ peerRooms'[nextPeer] = r
  /\ \A q \in Live \ Stale(u, r) : peerRooms'[q] = peerRooms[q]
  /\ DOMAIN peer' = (Live \ Stale(u, r)) \cup {nextPeer}
  /\ peer'[nextPeer] = NewPeer(u)
  /\ \A q \in Live \ Stale(u, r) : peer'[q] = peer[q]
  /\ DOMAIN view' = (Live \ Stale(u, r)) \cup {nextPeer}
  /\ view'[nextPeer] = Roster(Stay(u, r))
  /\ \A q \in Stay(u, r) : view'[q] = Insert(Without(view[q], Stale(u, r)), nextPeer, Info(NewPeer(u)))
  /\ \A q \in Live \ Members(r) : view'[q] = view[q]

LEMMA AdmitFacts ==
  ASSUME Shape, NEW u \in Users, NEW r \in Rooms, JoinAdmit(u, r)
  PROVE  Admitted(u, r)
<1>1. nextPeer \in PeerIds /\ nextPeer \notin Live /\ nextPeer' = nextPeer + 1
  BY EngineAssumption DEF Shape, TypeOK, IdsIssued, JoinAdmit, PeerIds, Live
<1>2. Stale(u, r) \subseteq Members(r) /\ Members(r) \subseteq Live
  BY DEF Shape, IndexAgrees, Stale, Members, Live
<1>3. /\ rooms' = Insert(rooms, r, Stay(u, r) \cup {nextPeer})
      /\ peerRooms' = Insert(Without(peerRooms, Stale(u, r)), nextPeer, r)
      /\ peer' = Insert(Without(peer, Stale(u, r)), nextPeer, NewPeer(u))
      /\ view' = [q \in (DOMAIN view \ Stale(u, r)) \cup {nextPeer} |->
                    IF q = nextPeer THEN Roster(Stay(u, r))
                    ELSE IF q \in Stay(u, r)
                         THEN Insert(Without(view[q], Stale(u, r)), nextPeer, Info(NewPeer(u)))
                         ELSE view[q]]
  BY DEF JoinAdmit, Index, NewId, Stay
<1>4. DOMAIN peerRooms = Live /\ DOMAIN peer = Live /\ DOMAIN view = Live
  BY DEF Shape, TypeOK, IndexAgrees, Live
<1>5. /\ DOMAIN rooms' = DOMAIN rooms \cup {r}
      /\ rooms'[r] = Stay(u, r) \cup {nextPeer}
      /\ \A q \in DOMAIN rooms \ {r} : rooms'[q] = rooms[q]
  BY <1>3 DEF Insert
<1>6. /\ DOMAIN peerRooms' = (Live \ Stale(u, r)) \cup {nextPeer}
      /\ peerRooms'[nextPeer] = r
      /\ \A q \in Live \ Stale(u, r) : peerRooms'[q] = peerRooms[q]
  BY <1>1, <1>3, <1>4 DEF Insert, Without, Restrict
<1>7. /\ DOMAIN peer' = (Live \ Stale(u, r)) \cup {nextPeer}
      /\ peer'[nextPeer] = NewPeer(u)
      /\ \A q \in Live \ Stale(u, r) : peer'[q] = peer[q]
  BY <1>1, <1>3, <1>4 DEF Insert, Without, Restrict
<1>8. /\ DOMAIN view' = (Live \ Stale(u, r)) \cup {nextPeer}
      /\ view'[nextPeer] = Roster(Stay(u, r))
      /\ \A q \in Stay(u, r) : view'[q] = Insert(Without(view[q], Stale(u, r)), nextPeer, Info(NewPeer(u)))
      /\ \A q \in Live \ Members(r) : view'[q] = view[q]
  <2>1. Stay(u, r) \subseteq Live \ Stale(u, r)
    BY <1>2 DEF Stay
  <2>2. Live \ Members(r) \subseteq (Live \ Stale(u, r)) /\ Stay(u, r) \subseteq Members(r)
    BY <1>2 DEF Stay
  <2> QED
    BY <1>1, <1>3, <1>4, <2>1, <2>2
<1> QED
  BY <1>1, <1>2, <1>5, <1>6, <1>7, <1>8 DEF Admitted

LEMMA AdmitShape ==
  ASSUME Shape, NEW u \in Users, NEW r \in Rooms, JoinAdmit(u, r)
  PROVE  Shape'
<1> DEFINE id == nextPeer
           stale == Stale(u, r)
           stay == Stay(u, r)
<1>1. /\ nextPeer \in PeerIds /\ nextPeer \notin Live /\ nextPeer' = nextPeer + 1
      /\ stale \subseteq Members(r) /\ Members(r) \subseteq Live
      /\ stay \subseteq Live \ stale
  BY AdmitFacts DEF Admitted, Stay
<1>2. /\ DOMAIN rooms' = DOMAIN rooms \cup {r}
      /\ rooms'[r] = stay \cup {id}
      /\ \A q \in DOMAIN rooms \ {r} : rooms'[q] = rooms[q]
  BY AdmitFacts DEF Admitted
<1>3. /\ DOMAIN peerRooms' = (Live \ stale) \cup {id}
      /\ peerRooms'[id] = r
      /\ \A q \in Live \ stale : peerRooms'[q] = peerRooms[q]
  BY AdmitFacts DEF Admitted
<1>4. /\ DOMAIN peer' = (Live \ stale) \cup {id}
      /\ peer'[id] = NewPeer(u)
      /\ \A q \in Live \ stale : peer'[q] = peer[q]
  BY AdmitFacts DEF Admitted
<1>5. /\ DOMAIN view' = (Live \ stale) \cup {id}
      /\ view'[id] = Roster(stay)
      /\ \A q \in stay : view'[q] = Insert(Without(view[q], stale), id, Info(NewPeer(u)))
      /\ \A q \in Live \ Members(r) : view'[q] = view[q]
  BY AdmitFacts DEF Admitted
<1>6. \A q \in Live : q \in stay <=> q \in Members(r) /\ q \notin stale
  BY DEF Stay
<1>7. NewPeer(u) \in Peer
  BY DEF NewPeer, Peer
<1>8. verdict' \in Verdict /\ UNCHANGED <<phase, told>>
  BY DEF JoinAdmit, Answered, Verdict
<1>9. /\ rooms' = Insert(rooms, r, stay \cup {id})
      /\ peerRooms' = Insert(Without(peerRooms, stale), id, r)
      /\ peer' = Insert(Without(peer, stale), id, NewPeer(u))
  BY DEF JoinAdmit, Index, NewId, Stay
<1> HIDE DEF id, stale, stay
<1>10. /\ rooms' \in [DOMAIN rooms' -> SUBSET PeerIds]
       /\ peerRooms' \in [DOMAIN peerRooms' -> Rooms]
       /\ peer' \in [DOMAIN peer' -> Peer]
  <2>1. rooms' \in [DOMAIN rooms' -> SUBSET PeerIds]
    <3>1. rooms \in [DOMAIN rooms -> SUBSET PeerIds] /\ stay \cup {id} \in SUBSET PeerIds
      BY <1>1 DEF Shape, TypeOK, Live, id
    <3> QED
      BY <3>1, <1>9, InsertType
  <2>2. peerRooms' \in [DOMAIN peerRooms' -> Rooms]
    BY <1>3, <1>9 DEF Insert, Without, Restrict, Shape, TypeOK, IndexAgrees
  <2>3. peer' \in [DOMAIN peer' -> Peer]
    BY <1>4, <1>7, <1>9 DEF Insert, Without, Restrict, Shape, TypeOK, Live
  <2> QED
    BY <2>1, <2>2, <2>3
<1>11. ASSUME NEW q \in DOMAIN view'
       PROVE  view'[q] \in [DOMAIN view'[q] -> PeerInfo]
  <2>1. \A rec \in Peer : Info(rec) \in PeerInfo
    BY DEF Info, Peer, PeerInfo
  <2>2. \A p \in Live : view[p] \in [DOMAIN view[p] -> PeerInfo]
    BY DEF Shape, TypeOK, Live
  <2>3. CASE q = id
    BY <2>3, <2>1, <1>1, <1>5 DEF Roster, Shape, TypeOK, Live
  <2>4. CASE q \in stay
    <3> DEFINE w == Without(view[q], stale)
    <3>1. view'[q] = Insert(w, id, Info(NewPeer(u))) /\ q \in Live
      BY <2>4, <1>1, <1>5
    <3>2. w \in [DOMAIN w -> PeerInfo]
      BY <3>1, <2>2, WithoutType
    <3> HIDE DEF w
    <3> QED
      BY <3>1, <3>2, <1>7, <2>1, InsertType
  <2>5. CASE q \in Live \ Members(r)
    BY <2>5, <2>2, <1>5
  <2> QED
    BY <2>3, <2>4, <2>5, <1>5, <1>6
<1>12. TypeOK'
  <2>1. nextPeer' \in 1 .. MaxPeerId + 1
    BY <1>1, EngineAssumption DEF PeerIds
  <2> QED
    BY <2>1, <1>1, <1>2, <1>3, <1>4, <1>5, <1>8, <1>10, <1>11 DEF Shape, TypeOK, Live, told, id
<1>13. IndexAgrees'
  <2>1. stay = {q \in Live : peerRooms[q] = r /\ q \notin stale}
    BY <1>1, <1>6 DEF Shape, IndexAgrees, Members
  <2>2. Live' = (Live \ stale) \cup {id} /\ DOMAIN peerRooms' = Live'
    BY <1>3, <1>4 DEF Live
  <2>3. \A q \in stale : peerRooms[q] = r /\ q \in Live
    BY <1>1 DEF Shape, IndexAgrees, Members
  <2>4. ASSUME NEW s \in DOMAIN rooms'
        PROVE  rooms'[s] = {q \in Live' : peerRooms'[q] = s}
    <3>1. CASE s = r
      BY <3>1, <2>1, <2>2, <1>2, <1>3
    <3>2. CASE s # r
      <4>1. s \in DOMAIN rooms /\ rooms'[s] = rooms[s]
        BY <3>2, <1>2
      <4>2. rooms[s] = {q \in Live : peerRooms[q] = s}
        BY <4>1 DEF Shape, IndexAgrees
      <4> QED
        BY <3>2, <4>1, <4>2, <2>2, <2>3, <1>3
    <3> QED
      BY <3>1, <3>2
  <2>5. \A q \in Live' : peerRooms'[q] \in DOMAIN rooms'
    BY <2>2, <1>2, <1>3 DEF Shape, IndexAgrees
  <2> QED
    BY <2>2, <2>4, <2>5 DEF IndexAgrees
<1>14. IdsIssued'
  BY <1>1, <1>4 DEF Shape, IdsIssued, TypeOK, Live, PeerIds, id
<1> QED
  BY <1>12, <1>13, <1>14 DEF Shape

\* Steps that rewrite Peer structs in place: nobody comes, nobody goes, and no
\* identity changes.
SameSeats ==
  /\ DOMAIN peer' = Live
  /\ \A p \in Live : peer'[p].user = peer[p].user
  /\ UNCHANGED <<nextPeer, rooms, peerRooms>>

LEMMA SetStateSteps ==
  ASSUME Shape, NEW p \in PeerIds, Mute(p) \/ Screen(p)
  PROVE  /\ p \in Live
         /\ \E muted, active \in BOOLEAN : SetState(p, muted, active)
<1>1. \E muted, active \in BOOLEAN : SetState(p, muted, active) /\ p \in Live
  <2>1. CASE Mute(p)
    <3>1. PICK muted \in BOOLEAN : SetState(p, muted, peer[p].screen)
      BY <2>1 DEF Mute
    <3>2. p \in Live
      BY <3>1 DEF SetState, Shape, IndexAgrees
    <3>3. peer[p].screen \in BOOLEAN
      BY <3>2 DEF Shape, TypeOK, Live, Peer
    <3> QED
      BY <3>1, <3>2, <3>3
  <2>2. CASE Screen(p)
    <3>1. PICK active \in BOOLEAN : SetState(p, peer[p].muted, active)
      BY <2>2 DEF Screen
    <3>2. p \in Live
      BY <3>1 DEF SetState, Shape, IndexAgrees
    <3>3. peer[p].muted \in BOOLEAN
      BY <3>2 DEF Shape, TypeOK, Live, Peer
    <3> QED
      BY <3>1, <3>2, <3>3
  <2> QED
    BY <2>1, <2>2
<1> QED
  BY <1>1

LEMMA SetStateShape ==
  ASSUME Shape, NEW p \in Live, NEW muted \in BOOLEAN, NEW active \in BOOLEAN,
         SetState(p, muted, active)
  PROVE  Shape' /\ SameSeats
<1> DEFINE rec == [peer[p] EXCEPT !.muted = muted, !.screen = active]
<1>0. peer[p] \in Peer
  BY DEF Shape, TypeOK, Live
<1>1. rec \in Peer /\ rec.user = peer[p].user /\ Info(rec) \in PeerInfo
  BY <1>0 DEF Peer, Info, PeerInfo
<1>2. /\ peer' = [peer EXCEPT ![p] = rec]
      /\ view' = [q \in DOMAIN view |-> [x \in DOMAIN view[q] |->
                    IF x = p THEN Info(rec) ELSE view[q][x]]]
      /\ toldSharing' = ScreenReported(p, active)
      /\ verdict' = NoVerdict
      /\ UNCHANGED <<phase, nextPeer, rooms, peerRooms, toldPresent>>
  BY DEF SetState
<1> HIDE DEF rec
<1>3. peer' \in [Live -> Peer] /\ SameSeats
  BY <1>1, <1>2 DEF Shape, TypeOK, Live, SameSeats
<1>4. /\ DOMAIN view' = Live
      /\ \A q \in Live : view'[q] \in [DOMAIN view'[q] -> PeerInfo]
  BY <1>1, <1>2 DEF Shape, TypeOK, Live
<1>5. toldSharing' \subseteq Rooms \X Users
  <2>1. Seat(p) \in Rooms \X Users
    BY DEF Seat, Shape, TypeOK, IndexAgrees, Live, Peer
  <2> QED
    BY <1>2, <2>1 DEF ScreenReported, Shape, TypeOK
<1>6. TypeOK'
  BY <1>2, <1>3, <1>4, <1>5 DEF Shape, TypeOK, Live, Verdict
<1> QED
  BY <1>3, <1>6 DEF SameSeats, Shape, IndexAgrees, IdsIssued, Live

\* What drop_peer leaves behind.
Dropped(D) ==
  /\ DOMAIN rooms' = DOMAIN rooms \ Emptied(D)
  /\ \A r \in DOMAIN rooms' : rooms'[r] = rooms[r] \ D
  /\ DOMAIN peerRooms' = Live \ D
  /\ \A p \in Live \ D : peerRooms'[p] = peerRooms[p]
  /\ DOMAIN peer' = Live \ D
  /\ \A p \in Live \ D : peer'[p] = peer[p]
  /\ DOMAIN view' = Live \ D
  /\ \A p \in Live \ D : view'[p] = Without(view[p], D)

LEMMA DropFacts ==
  ASSUME Shape, NEW D \in SUBSET Live, Drop(D)
  PROVE  Dropped(D)
<1>1. /\ DOMAIN rooms' = DOMAIN rooms \ Emptied(D)
      /\ \A r \in DOMAIN rooms' : rooms'[r] = rooms[r] \ D
  BY DEF Drop
<1>2. /\ DOMAIN peerRooms' = Live \ D
      /\ \A p \in Live \ D : peerRooms'[p] = peerRooms[p]
  BY DEF Drop, Without, Restrict, Shape, IndexAgrees
<1>3. /\ DOMAIN peer' = Live \ D
      /\ \A p \in Live \ D : peer'[p] = peer[p]
  BY DEF Drop, Without, Restrict, Live
<1>4. view' = [q \in Live \ D |-> Without(view[q], D)]
  BY DEF Drop, Forget, Shape, TypeOK, Live
<1> QED
  BY <1>1, <1>2, <1>3, <1>4 DEF Dropped

LEMMA DropShape ==
  ASSUME Shape, NEW D \in SUBSET Live, Drop(D),
         phase' \in Phases, verdict' \in Verdict, UNCHANGED nextPeer
  PROVE  Shape'
<1>1. /\ DOMAIN rooms' = DOMAIN rooms \ Emptied(D)
      /\ \A r \in DOMAIN rooms' : rooms'[r] = rooms[r] \ D
  BY DropFacts DEF Dropped
<1>2. /\ DOMAIN peerRooms' = Live \ D
      /\ \A p \in Live \ D : peerRooms'[p] = peerRooms[p]
  BY DropFacts DEF Dropped
<1>3. /\ DOMAIN peer' = Live \ D
      /\ \A p \in Live \ D : peer'[p] = peer[p]
  BY DropFacts DEF Dropped
<1>4. /\ DOMAIN view' = Live \ D
      /\ \A p \in Live \ D : view'[p] \in [DOMAIN view'[p] -> PeerInfo]
  <2>1. \A q \in Live : view[q] \in [DOMAIN view[q] -> PeerInfo]
    BY DEF Shape, TypeOK, Live
  <2>2. ASSUME NEW p \in Live \ D
        PROVE  view'[p] \in [DOMAIN view'[p] -> PeerInfo]
    <3>1. view'[p] = Without(view[p], D)
      BY DropFacts DEF Dropped
    <3> QED
      BY <2>1, <3>1, WithoutType
  <2> QED
    BY <2>2, DropFacts DEF Dropped
<1>5. toldPresent' \subseteq toldPresent /\ toldSharing' \subseteq toldSharing
  BY DEF Drop
<1>6. rooms' \in [DOMAIN rooms' -> SUBSET PeerIds]
  BY <1>1 DEF Drop, Shape, TypeOK
<1>7. peerRooms' \in [DOMAIN peerRooms' -> Rooms] /\ peer' \in [DOMAIN peer' -> Peer]
  BY <1>2, <1>3 DEF Drop, Without, Restrict, Shape, TypeOK, IndexAgrees, Live
<1>8. TypeOK'
  BY <1>1, <1>2, <1>3, <1>4, <1>5, <1>6, <1>7 DEF Shape, TypeOK, Live
<1>9. IndexAgrees'
  <2>1. \A r \in DOMAIN rooms' : rooms'[r] \subseteq Live'
    BY <1>1, <1>3 DEF Shape, IndexAgrees, Live
  <2>2. ASSUME NEW p \in Live'
        PROVE  /\ peerRooms'[p] \in DOMAIN rooms'
               /\ \A r \in DOMAIN rooms' : p \in rooms'[r] <=> r = peerRooms'[p]
    <3>1. p \in Live /\ p \notin D /\ peerRooms'[p] = peerRooms[p]
      BY <1>2, <1>3 DEF Live
    <3>2. peerRooms[p] \in DOMAIN rooms /\ p \in rooms[peerRooms[p]]
      BY <3>1 DEF Shape, IndexAgrees
    <3>3. peerRooms[p] \notin Emptied(D)
      BY <3>1, <3>2 DEF Emptied
    <3> QED
      BY <1>1, <3>1, <3>2, <3>3 DEF Shape, IndexAgrees
  <2> QED
    BY <1>2, <1>3, <2>1, <2>2 DEF IndexAgrees, Live
<1>10. IdsIssued'
  BY <1>3 DEF Shape, IdsIssued, Live
<1> QED
  BY <1>8, <1>9, <1>10 DEF Shape

\* What the transports do to Peer structs: flags of the transport only.
TransportOnly ==
  /\ SameSeats
  /\ peer' \in [Live -> Peer]
  /\ \A p \in Live : Info(peer'[p]) = Info(peer[p])
  /\ UNCHANGED view

LEMMA TransportShape ==
  ASSUME Shape, TransportOnly, phase' \in Phases, verdict' \in Verdict,
         toldPresent' \subseteq Rooms \X Users, UNCHANGED toldSharing
  PROVE  Shape'
<1>1. TypeOK'
  BY DEF TransportOnly, SameSeats, Shape, TypeOK, Live
<1> QED
  BY <1>1 DEF TransportOnly, SameSeats, Shape, IndexAgrees, IdsIssued, Live

LEMMA PolledSteps ==
  ASSUME Shape, NEW p \in PeerIds, IceUp(p) \/ IceDown(p) \/ TransportFails(p)
  PROVE  TransportOnly /\ UNCHANGED <<phase, verdict, told>>
<1>1. PICK rec \in Peer : Polled(p, rec) /\ Info(rec) = Info(peer[p])
                          /\ rec.user = peer[p].user /\ p \in Live
  <2>1. p \in Live /\ peer[p] \in Peer
    BY DEF IceUp, IceDown, TransportFails, Polled, Shape, TypeOK, Live
  <2>2. CASE IceUp(p)
    BY <2>1, <2>2 DEF IceUp, Peer, Info
  <2>3. CASE IceDown(p)
    BY <2>1, <2>3 DEF IceDown, Peer, Info
  <2>4. CASE TransportFails(p)
    BY <2>1, <2>4 DEF TransportFails, Peer, Info
  <2> QED
    BY <2>2, <2>3, <2>4
<1>2. peer' = [peer EXCEPT ![p] = rec]
      /\ UNCHANGED <<phase, nextPeer, rooms, peerRooms, verdict, view, told>>
  BY <1>1 DEF Polled
<1> QED
  BY <1>1, <1>2 DEF TransportOnly, SameSeats, Shape, TypeOK, Live

LEMMA ReportSteps ==
  ASSUME Shape, ReportConnections
  PROVE  TransportOnly /\ phase' = "reap" /\ verdict' = NoVerdict /\ UNCHANGED toldSharing
         /\ toldPresent' = toldPresent \cup {Seat(p) : p \in Arrived}
<1>1. peer' = [p \in Live |-> [peer[p] EXCEPT !.reported = @ \/ p \in Arrived]]
  BY DEF ReportConnections
<1>2. \A p \in Live : /\ peer'[p] \in Peer
                      /\ Info(peer'[p]) = Info(peer[p])
                      /\ peer'[p].user = peer[p].user
  <2>1. \A p \in Live : peer[p] \in Peer
    BY DEF Shape, TypeOK, Live
  <2> QED BY <1>1, <2>1 DEF Peer, Info
<1> QED
  BY <1>1, <1>2 DEF ReportConnections, Turn, TransportOnly, SameSeats, Live

LEMMA HandleInputSteps ==
  ASSUME Shape, HandleInput
  PROVE  TransportOnly /\ phase' = "drain" /\ verdict' = NoVerdict /\ UNCHANGED told
<1>1. PICK failed \in SUBSET Live :
        peer' = [p \in Live |-> [peer[p] EXCEPT !.alive = @ /\ p \notin failed]]
  BY DEF HandleInput
<1>2. \A p \in Live : /\ peer'[p] \in Peer
                      /\ Info(peer'[p]) = Info(peer[p])
                      /\ peer'[p].user = peer[p].user
  <2>1. \A p \in Live : peer[p] \in Peer
    BY DEF Shape, TypeOK, Live
  <2> QED BY <1>1, <2>1 DEF Peer, Info
<1> QED
  BY <1>1, <1>2 DEF HandleInput, Turn, TransportOnly, SameSeats, Live

\* The kinds of step there are.  Each layer below shows what each kind keeps.
Refusal == \E u \in Users, r \in Rooms : JoinFull(u, r) \/ JoinBadOffer(u, r)
Admission == \E u \in Users, r \in Rooms : JoinAdmit(u, r)
StateChange == \E p \in Live : \E muted, active \in BOOLEAN : SetState(p, muted, active)
Departure ==
  \E D \in SUBSET Live : Drop(D) /\ phase' \in Phases /\ verdict' = NoVerdict
                         /\ UNCHANGED nextPeer
TransportStep ==
  /\ TransportOnly /\ phase' \in Phases /\ verdict' \in Verdict /\ UNCHANGED toldSharing
  /\ \/ /\ UNCHANGED toldPresent
        /\ \A p \in Live : peer'[p].reported = peer[p].reported
     \/ ReportConnections
Idle == phase' \in Phases /\ verdict' \in Verdict /\ UNCHANGED <<nextPeer, tables, view, told>>

LEMMA StepKinds ==
  ASSUME Shape, [Next]_vars
  PROVE  Refusal \/ Admission \/ StateChange \/ Departure \/ TransportStep \/ Idle
<1>1. ASSUME NEW p \in PeerIds, Leave(p) PROVE Departure
  <2>1. {p} \in SUBSET Live
    BY <1>1 DEF Leave, Shape, IndexAgrees
  <2>2. phase' \in Phases
    BY <1>1 DEF Leave, Shape, TypeOK
  <2> QED
    BY <1>1, <2>1, <2>2 DEF Leave, Departure
<1>2. ASSUME Reap PROVE Departure
  <2>1. PICK abandoned \in SUBSET {p \in Live : peer[p].down} : Drop(Dead \cup abandoned)
    BY <1>2 DEF Reap
  <2>2. Dead \cup abandoned \in SUBSET Live
    BY DEF Dead
  <2> QED
    BY <1>2, <2>1, <2>2 DEF Reap, Turn, Phases, Departure
<1>3. ASSUME NEW p \in PeerIds, IceUp(p) \/ IceDown(p) \/ TransportFails(p)
      PROVE  TransportStep
  <2>1. TransportOnly /\ UNCHANGED <<phase, verdict, told>>
    BY <1>3, PolledSteps
  <2>2. \A q \in Live : peer'[q].reported = peer[q].reported
    <3>1. CASE IceUp(p)
      BY <3>1 DEF IceUp, Polled, Shape, TypeOK, Live, Peer
    <3>2. CASE IceDown(p)
      BY <3>2 DEF IceDown, Polled, Shape, TypeOK, Live, Peer
    <3>3. CASE TransportFails(p)
      BY <3>3 DEF TransportFails, Polled, Shape, TypeOK, Live, Peer
    <3> QED
      BY <1>3, <3>1, <3>2, <3>3
  <2> QED
    BY <2>1, <2>2 DEF TransportStep, told, Shape, TypeOK
<1>4. ASSUME ReportConnections PROVE TransportStep
  BY <1>4, ReportSteps DEF TransportStep, Phases, Verdict
<1>5. ASSUME HandleInput PROVE TransportStep
  <2>1. TransportOnly /\ phase' = "drain" /\ verdict' = NoVerdict /\ UNCHANGED told
    BY <1>5, HandleInputSteps
  <2>2. \A q \in Live : peer'[q].reported = peer[q].reported
    BY <1>5 DEF HandleInput, Shape, TypeOK, Live, Peer
  <2> QED
    BY <2>1, <2>2 DEF TransportStep, told, Phases, Verdict
<1>6. ASSUME DrainDone \/ PollDone \/ Stop PROVE Idle
  BY <1>6 DEF DrainDone, PollDone, Stop, Turn, Idle, Phases, Verdict
<1>7. ASSUME NEW p \in PeerIds, Mute(p) \/ Screen(p) PROVE StateChange
  BY <1>7, SetStateSteps DEF StateChange
<1>8. ASSUME UNCHANGED vars PROVE Idle
  BY <1>8 DEF vars, Idle, tables, told, Shape, TypeOK
<1>9. CASE Apply
  <2>1. CASE Join
    BY <2>1 DEF Join, Refusal, Admission
  <2>2. CASE \E p \in PeerIds : Mute(p) \/ Screen(p) \/ Leave(p)
    BY <2>2, <1>1, <1>7
  <2> QED
    BY <1>9, <2>1, <2>2 DEF Apply
<1>10. CASE PollRooms
  BY <1>10, <1>3 DEF PollRooms
<1>11. CASE Loop \/ Stop
  BY <1>11, <1>2, <1>4, <1>5, <1>6 DEF Loop
<1> QED
  BY <1>8, <1>9, <1>10, <1>11 DEF Next

LEMMA NextShape == ASSUME Shape, [Next]_vars PROVE Shape'
<1>1. CASE Refusal
  BY <1>1, RefusalShape DEF Refusal
<1>2. CASE Admission
  BY <1>2, AdmitShape DEF Admission
<1>3. CASE StateChange
  BY <1>3, SetStateShape DEF StateChange
<1>4. CASE Departure
  BY <1>4, DropShape DEF Departure, Verdict
<1>5. CASE TransportStep
  <2>1. toldPresent' \subseteq Rooms \X Users
    <3>1. \A p \in Live : Seat(p) \in Rooms \X Users
      BY DEF Seat, Shape, TypeOK, IndexAgrees, Live, Peer
    <3>2. CASE UNCHANGED toldPresent
      BY <3>2 DEF Shape, TypeOK
    <3>3. CASE ReportConnections
      BY <3>1, <3>3, ReportSteps DEF Arrived, Shape, TypeOK
    <3> QED
      BY <1>5, <3>2, <3>3 DEF TransportStep
  <2> QED
    BY <1>5, <2>1, TransportShape DEF TransportStep
<1>6. CASE Idle
  BY <1>6 DEF Idle, tables, told, Shape, TypeOK, IndexAgrees, IdsIssued, Live
<1> QED
  BY <1>1, <1>2, <1>3, <1>4, <1>5, <1>6, StepKinds

LEMMA ShapeInvariant == Spec => []Shape
BY InitShape, NextShape, PTL DEF Spec

\* Every variable keeps its type, whatever the instance.
THEOREM TypeCorrect == Spec => []TypeOK
BY ShapeInvariant, PTL DEF Shape

\* The engine's two tables always name the same seats (drop_peer, set_state
\* and handle_answer reach a peer only through both).
THEOREM TablesAgree == Spec => []IndexAgrees
BY ShapeInvariant, PTL DEF Shape

-----------------------------------------------------------------------------
(* The rooms: who sits where, and how many                                 *)

RoomsKept == NoEmptyRoom /\ OneSeatPerUser /\ CapacityKept

LEMMA FiniteRooms ==
  ASSUME TypeOK, NEW S \in SUBSET PeerIds
  PROVE  IsFiniteSet(S) /\ Cardinality(S) \in Nat
<1>1. IsFiniteSet(PeerIds)
  BY EngineAssumption, FS_Interval DEF PeerIds
<1> QED
  BY <1>1, FS_Subset, FS_CardinalityType

LEMMA SeatsUntouched ==
  ASSUME Shape, RoomsKept, SameSeats
  PROVE  RoomsKept'
BY DEF RoomsKept, NoEmptyRoom, OneSeatPerUser, CapacityKept, SameSeats, Seat, Live

LEMMA AdmitRooms ==
  ASSUME Shape, RoomsKept, NEW u \in Users, NEW r \in Rooms, JoinAdmit(u, r)
  PROVE  RoomsKept'
<1> DEFINE stale == Stale(u, r)
           stay == Stay(u, r)
<1>1. /\ nextPeer \in PeerIds /\ nextPeer \notin Live
      /\ stale \subseteq Members(r) /\ Members(r) \subseteq Live
      /\ stay = Members(r) \ stale
      /\ stale = {q \in Members(r) : peer[q].user = u}
  BY AdmitFacts DEF Admitted, Stay, Stale
<1>2. /\ DOMAIN rooms' = DOMAIN rooms \cup {r}
      /\ rooms'[r] = stay \cup {nextPeer}
      /\ \A q \in DOMAIN rooms \ {r} : rooms'[q] = rooms[q]
  BY AdmitFacts DEF Admitted
<1>3. /\ peerRooms'[nextPeer] = r
      /\ \A q \in Live \ stale : peerRooms'[q] = peerRooms[q]
  BY AdmitFacts DEF Admitted
<1> NewPeer(u).user = u
  BY DEF NewPeer
<1>4. /\ DOMAIN peer' = (Live \ stale) \cup {nextPeer}
      /\ peer'[nextPeer].user = u
      /\ \A q \in Live \ stale : peer'[q] = peer[q]
  BY AdmitFacts DEF Admitted
<1> HIDE DEF stale, stay
<1>5. NoEmptyRoom'
  BY <1>2 DEF RoomsKept, NoEmptyRoom
<1>6. OneSeatPerUser'
  <2>1. ASSUME NEW p \in Live \ stale, <<peerRooms[p], peer[p].user>> = <<r, u>>
        PROVE  FALSE
    BY <2>1, <1>1 DEF Members, Shape, IndexAgrees
  <2>2. \A p, q \in Live \ stale : <<peerRooms[p], peer[p].user>> = <<peerRooms[q], peer[q].user>> => p = q
    BY DEF RoomsKept, OneSeatPerUser, Seat
  <2> QED
    BY <2>1, <2>2, <1>3, <1>4 DEF OneSeatPerUser, Seat, Live
<1>7. CapacityKept'
  <2>1. Members(r) \in SUBSET PeerIds /\ stay \in SUBSET Members(r) /\ nextPeer \notin stay
    BY <1>1 DEF Shape, TypeOK, Live
  <2>2. IsFiniteSet(Members(r)) /\ Cardinality(Members(r)) \in Nat
    BY <2>1, FiniteRooms DEF Shape
  <2>3. Cardinality(Members(r)) < MaxRoomPeers
    <3>1. CASE r \in DOMAIN rooms
      BY <3>1, <2>2, EngineAssumption DEF JoinAdmit, Full, Members
    <3>2. CASE r \notin DOMAIN rooms
      BY <3>2, FS_EmptySet, EngineAssumption DEF Members
    <3> QED
      BY <3>1, <3>2
  <2>4. /\ IsFiniteSet(stay) /\ Cardinality(stay) \in Nat
        /\ Cardinality(stay) <= Cardinality(Members(r))
    BY <2>1, <2>2, FS_Subset, FS_CardinalityType
  <2>5. Cardinality(stay \cup {nextPeer}) = Cardinality(stay) + 1
    BY <2>1, <2>4, FS_AddElement
  <2>6. Cardinality(stay \cup {nextPeer}) <= MaxRoomPeers
    BY <2>2, <2>3, <2>4, <2>5, EngineAssumption
  <2> QED
    BY <2>6, <1>2 DEF RoomsKept, CapacityKept
<1> QED
  BY <1>5, <1>6, <1>7 DEF RoomsKept

LEMMA DropRooms ==
  ASSUME Shape, RoomsKept, NEW D \in SUBSET Live, Drop(D)
  PROVE  RoomsKept'
<1> Dropped(D)
  BY DropFacts
<1>1. NoEmptyRoom'
  BY DEF Dropped, RoomsKept, NoEmptyRoom, Emptied
<1>2. OneSeatPerUser'
  BY DEF Dropped, RoomsKept, OneSeatPerUser, Seat, Live
<1>3. CapacityKept'
  <2>1. ASSUME NEW r \in DOMAIN rooms'
        PROVE  Cardinality(rooms'[r]) <= MaxRoomPeers
    <3>1. r \in DOMAIN rooms /\ rooms'[r] \in SUBSET rooms[r] /\ rooms[r] \in SUBSET PeerIds
      BY DEF Dropped, Shape, TypeOK
    <3>2. /\ IsFiniteSet(rooms[r]) /\ Cardinality(rooms[r]) \in Nat
          /\ Cardinality(rooms'[r]) \in Nat
      BY <3>1, FiniteRooms DEF Shape
    <3>3. Cardinality(rooms'[r]) <= Cardinality(rooms[r])
      BY <3>1, <3>2, FS_Subset
    <3> QED
      BY <3>1, <3>2, <3>3, EngineAssumption DEF RoomsKept, CapacityKept
  <2> QED
    BY <2>1 DEF CapacityKept
<1> QED
  BY <1>1, <1>2, <1>3 DEF RoomsKept

LEMMA InitRooms == Init => RoomsKept
BY DEF Init, RoomsKept, NoEmptyRoom, OneSeatPerUser, CapacityKept, Live

LEMMA NextRooms == ASSUME Shape, RoomsKept, [Next]_vars PROVE RoomsKept'
<1>1. CASE Refusal \/ Idle
  <2>1. UNCHANGED tables
    BY <1>1 DEF Refusal, JoinFull, JoinBadOffer, Idle
  <2> QED
    BY <2>1 DEF RoomsKept, NoEmptyRoom, OneSeatPerUser, CapacityKept, Seat, Live, tables
<1>2. CASE Admission
  BY <1>2, AdmitRooms DEF Admission
<1>3. CASE StateChange
  BY <1>3, SetStateShape, SeatsUntouched DEF StateChange
<1>4. CASE Departure
  BY <1>4, DropRooms DEF Departure
<1>5. CASE TransportStep
  BY <1>5, SeatsUntouched DEF TransportStep, TransportOnly
<1> QED
  BY <1>1, <1>2, <1>3, <1>4, <1>5, StepKinds

LEMMA RoomsInvariant == Spec => [](Shape /\ RoomsKept)
<1>1. Init => Shape /\ RoomsKept
  BY InitShape, InitRooms
<1>2. Shape /\ RoomsKept /\ [Next]_vars => (Shape /\ RoomsKept)'
  BY NextShape, NextRooms
<1> QED
  BY <1>1, <1>2, PTL DEF Spec

\* A room exists only while somebody is in it.
THEOREM NoStaleRoom == Spec => []NoEmptyRoom
BY RoomsInvariant, PTL DEF RoomsKept

\* Reconnecting replaces: an identity holds at most one seat of a room.
THEOREM ReconnectReplaces == Spec => []OneSeatPerUser
BY RoomsInvariant, PTL DEF RoomsKept

\* No room exceeds config.max_room_peers.
THEOREM CapacityRespected == Spec => []CapacityKept
BY RoomsInvariant, PTL DEF RoomsKept

-----------------------------------------------------------------------------
(* Peer ids                                                                *)

\* An id that was assigned and is no longer live never becomes live again, so
\* a late command of a dead peer's signaling task reaches nobody.
THEOREM IdsAreFresh == Spec => IdsNeverReused
<1>1. ASSUME Shape, [Next]_vars, NEW p \in PeerIds, p < nextPeer, p \notin Live
      PROVE  p \notin DOMAIN peer'
  <2>1. nextPeer \in Nat /\ p \in Nat
    BY <1>1, EngineAssumption DEF Shape, TypeOK, PeerIds
  <2>2. CASE Refusal \/ Idle
    BY <1>1, <2>2 DEF Refusal, JoinFull, JoinBadOffer, Idle, tables, Live
  <2>3. CASE Admission
    <3>1. PICK u \in Users, r \in Rooms : JoinAdmit(u, r)
      BY <2>3 DEF Admission
    <3>2. Admitted(u, r)
      BY <1>1, <3>1, AdmitFacts
    <3> QED
      BY <1>1, <2>1, <3>2 DEF Admitted
  <2>4. CASE StateChange
    BY <1>1, <2>4, SetStateShape DEF StateChange, SameSeats
  <2>5. CASE Departure
    <3>1. PICK D \in SUBSET Live : Drop(D)
      BY <2>5 DEF Departure
    <3> QED
      BY <1>1, <3>1, DropFacts DEF Dropped
  <2>6. CASE TransportStep
    BY <1>1, <2>6 DEF TransportStep, TransportOnly, SameSeats
  <2> QED
    BY <1>1, <2>2, <2>3, <2>4, <2>5, <2>6, StepKinds
<1>2. Shape /\ [Next]_vars =>
        [\A p \in PeerIds : p < nextPeer /\ p \notin Live => p \notin DOMAIN peer']_vars
  BY <1>1
<1> QED
  BY <1>2, ShapeInvariant, PTL DEF Spec, IdsNeverReused

-----------------------------------------------------------------------------
(* What the clients believe                                                *)

LEMMA AdmitRosters ==
  ASSUME Shape, RosterAgrees, NEW u \in Users, NEW r \in Rooms, JoinAdmit(u, r)
  PROVE  RosterAgrees'
<1> DEFINE stale == Stale(u, r)
           stay == Stay(u, r)
<1> Admitted(u, r)
  BY AdmitFacts
<1>1. /\ nextPeer \notin Live /\ stay = Members(r) \ stale
      /\ stale \subseteq Members(r) /\ Members(r) \subseteq Live
      /\ Live' = (Live \ stale) \cup {nextPeer}
      /\ \A q \in Live : q \in Members(r) <=> peerRooms[q] = r
  BY DEF Admitted, Stay, Live, Shape, IndexAgrees, Members
<1>2. /\ rooms'[r] = stay \cup {nextPeer}
      /\ \A q \in DOMAIN rooms \ {r} : rooms'[q] = rooms[q]
      /\ peerRooms'[nextPeer] = r
      /\ \A q \in Live \ stale : peerRooms'[q] = peerRooms[q]
  BY DEF Admitted
<1>3. /\ peer'[nextPeer] = NewPeer(u)
      /\ \A q \in Live \ stale : peer'[q] = peer[q]
  BY DEF Admitted
<1>4. /\ view'[nextPeer] = Roster(stay)
      /\ \A q \in stay : view'[q] = Insert(Without(view[q], stale), nextPeer, Info(NewPeer(u)))
      /\ \A q \in Live \ Members(r) : view'[q] = view[q]
  BY DEF Admitted
<1>5. \A p \in Live : view[p] = [q \in rooms[peerRooms[p]] \ {p} |-> Info(peer[q])]
  BY DEF RosterAgrees
<1>6. Roster(stay) = [q \in stay |-> Info(peer[q])]
  BY DEF Roster
<1> HIDE DEF stale, stay
<1>7. ASSUME NEW p \in Live'
      PROVE  view'[p] = [q \in rooms'[peerRooms'[p]] \ {p} |-> Info(peer'[q])]
  <2>1. CASE p = nextPeer
    <3>1. rooms'[peerRooms'[p]] \ {p} = stay /\ stay \subseteq Live \ stale
      BY <2>1, <1>1, <1>2
    <3>2. \A q \in stay : Info(peer'[q]) = Info(peer[q])
      BY <3>1, <1>3
    <3> QED
      BY <2>1, <3>1, <3>2, <1>4, <1>6
  <2>2. CASE p \in stay
    <3>1. p \in Live \ stale /\ p # nextPeer /\ peerRooms[p] = r /\ peerRooms'[p] = r
      BY <2>2, <1>1, <1>2
    <3>2. rooms[r] = Members(r)
      BY <3>1 DEF Members, Shape, IndexAgrees
    <3>3. view[p] = [q \in Members(r) \ {p} |-> Info(peer[q])]
      BY <3>1, <3>2, <1>5
    <3>4. Without(view[p], stale) = [q \in stay \ {p} |-> Info(peer[q])]
      BY <3>1, <3>3, <1>1 DEF Without, Restrict
    <3>5. rooms'[peerRooms'[p]] \ {p} = (stay \ {p}) \cup {nextPeer}
      BY <3>1, <1>1, <1>2
    <3>6. \A q \in stay : Info(peer'[q]) = Info(peer[q])
      BY <1>1, <1>3
    <3>7. view'[p] = Insert([q \in stay \ {p} |-> Info(peer[q])], nextPeer, Info(NewPeer(u)))
      BY <2>2, <3>4, <1>4
    <3> QED
      BY <3>5, <3>6, <3>7, <1>3 DEF Insert
  <2>3. CASE p \in Live \ Members(r)
    <3>1. p \in Live \ stale /\ peerRooms[p] # r /\ peerRooms'[p] = peerRooms[p]
      BY <2>3, <1>1, <1>2
    <3>2. rooms'[peerRooms'[p]] = rooms[peerRooms[p]]
      BY <3>1, <1>2 DEF Shape, IndexAgrees
    <3>3. \A q \in rooms[peerRooms[p]] : q \in Live \ stale
      BY <3>1, <1>1 DEF Shape, IndexAgrees
    <3> QED
      BY <2>3, <3>1, <3>2, <3>3, <1>3, <1>4, <1>5
  <2> QED
    BY <2>1, <2>2, <2>3, <1>1
<1> QED
  BY <1>7 DEF RosterAgrees

LEMMA StateRosters ==
  ASSUME Shape, RosterAgrees, NEW p \in Live, NEW muted \in BOOLEAN, NEW active \in BOOLEAN,
         SetState(p, muted, active)
  PROVE  RosterAgrees'
<1> DEFINE rec == [peer[p] EXCEPT !.muted = muted, !.screen = active]
<1>1. /\ peer' = [peer EXCEPT ![p] = rec]
      /\ view' = [q \in DOMAIN view |-> [x \in DOMAIN view[q] |->
                    IF x = p THEN Info(rec) ELSE view[q][x]]]
      /\ UNCHANGED <<rooms, peerRooms>>
  BY DEF SetState
<1> HIDE DEF rec
<1>2. DOMAIN view = Live /\ Live' = Live
  BY <1>1 DEF Shape, TypeOK, Live
<1>3. ASSUME NEW q \in Live
      PROVE  view'[q] = [x \in rooms[peerRooms[q]] \ {q} |-> Info(peer'[x])]
  <2>1. view[q] = [x \in rooms[peerRooms[q]] \ {q} |-> Info(peer[x])]
    BY DEF RosterAgrees
  <2>2. rooms[peerRooms[q]] \subseteq Live
    BY DEF Shape, IndexAgrees
  <2>3. \A x \in Live : peer'[x] = IF x = p THEN rec ELSE peer[x]
    BY <1>1 DEF Live
  <2>4. view'[q] = [x \in DOMAIN view[q] |-> IF x = p THEN Info(rec) ELSE view[q][x]]
    BY <1>1, <1>2
  <2> QED
    BY <2>1, <2>2, <2>3, <2>4
<1> QED
  BY <1>1, <1>2, <1>3 DEF RosterAgrees

LEMMA DropRosters ==
  ASSUME Shape, RosterAgrees, NEW D \in SUBSET Live, Drop(D)
  PROVE  RosterAgrees'
<1> Dropped(D)
  BY DropFacts
<1>1. ASSUME NEW p \in Live'
      PROVE  view'[p] = [q \in rooms'[peerRooms'[p]] \ {p} |-> Info(peer'[q])]
  <2>1. p \in Live \ D /\ peerRooms'[p] = peerRooms[p]
    BY DEF Dropped, Live
  <2>2. peerRooms[p] \in DOMAIN rooms /\ p \in rooms[peerRooms[p]]
        /\ rooms[peerRooms[p]] \subseteq Live
    BY <2>1 DEF Shape, IndexAgrees
  <2>3. peerRooms[p] \in DOMAIN rooms'
    BY <2>1, <2>2 DEF Dropped, Emptied
  <2>4. rooms'[peerRooms'[p]] = rooms[peerRooms[p]] \ D
    BY <2>1, <2>3 DEF Dropped
  <2>5. view[p] = [q \in rooms[peerRooms[p]] \ {p} |-> Info(peer[q])]
    BY <2>1 DEF RosterAgrees
  <2>6. view'[p] = Without(view[p], D)
    BY <2>1 DEF Dropped
  <2>7. \A q \in Live \ D : peer'[q] = peer[q]
    BY DEF Dropped
  <2> QED
    BY <2>2, <2>4, <2>5, <2>6, <2>7 DEF Without, Restrict
<1> QED
  BY <1>1 DEF RosterAgrees

LEMMA NextRosters == ASSUME Shape, RosterAgrees, [Next]_vars PROVE RosterAgrees'
<1>1. CASE Refusal \/ Idle
  <2>1. UNCHANGED <<tables, view>>
    BY <1>1 DEF Refusal, JoinFull, JoinBadOffer, Idle
  <2> QED
    BY <2>1 DEF RosterAgrees, Live, tables
<1>2. CASE Admission
  BY <1>2, AdmitRosters DEF Admission
<1>3. CASE StateChange
  BY <1>3, StateRosters DEF StateChange
<1>4. CASE Departure
  BY <1>4, DropRosters DEF Departure
<1>5. CASE TransportStep
  <2>1. /\ Live' = Live /\ UNCHANGED <<rooms, peerRooms, view>>
        /\ \A p \in Live : Info(peer'[p]) = Info(peer[p])
    BY <1>5 DEF TransportStep, TransportOnly, SameSeats, Live
  <2>2. \A p \in Live : rooms[peerRooms[p]] \subseteq Live
    BY DEF Shape, IndexAgrees
  <2> QED
    BY <2>1, <2>2 DEF RosterAgrees
<1> QED
  BY <1>1, <1>2, <1>3, <1>4, <1>5, StepKinds

\* Every client's picture of its room (join reply, then peer_joined, peer_left
\* and peer_state) is the room as it is.
THEOREM RostersAgree == Spec => []RosterAgrees
<1>1. Init => Shape /\ RosterAgrees
  BY InitShape DEF Init, RosterAgrees, Live
<1>2. Shape /\ RosterAgrees /\ [Next]_vars => (Shape /\ RosterAgrees)'
  BY NextShape, NextRosters
<1> QED
  BY <1>1, <1>2, PTL DEF Spec

-----------------------------------------------------------------------------
(* What the host application believes                                      *)

BooksKept == ArrivalsRemembered /\ SharersTold /\ ToldOnlyOpenRooms

LEMMA AdmitBooks ==
  ASSUME Shape, BooksKept, NEW u \in Users, NEW r \in Rooms, JoinAdmit(u, r)
  PROVE  BooksKept'
<1> Admitted(u, r)
  BY AdmitFacts
<1>1. UNCHANGED told /\ DOMAIN rooms \subseteq DOMAIN rooms'
  BY DEF JoinAdmit, Admitted
<1>2. ~NewPeer(u).reported /\ ~NewPeer(u).screen
  BY DEF NewPeer
<1>3. Live' = (Live \ Stale(u, r)) \cup {nextPeer} /\ nextPeer \notin Live
  BY DEF Admitted, Live
<1>4. \A p \in Live \ Stale(u, r) : peer'[p] = peer[p] /\ Seat(p)' = Seat(p)
  BY DEF Admitted, Seat
<1>5. ~peer'[nextPeer].reported /\ ~peer'[nextPeer].screen
  BY <1>2 DEF Admitted
<1> QED
  BY <1>1, <1>3, <1>4, <1>5 DEF BooksKept, ArrivalsRemembered, SharersTold, ToldOnlyOpenRooms, told

LEMMA StateBooks ==
  ASSUME Shape, RoomsKept, BooksKept, NEW p \in Live, NEW muted \in BOOLEAN,
         NEW active \in BOOLEAN, SetState(p, muted, active)
  PROVE  BooksKept'
<1> DEFINE rec == [peer[p] EXCEPT !.muted = muted, !.screen = active]
<1>1. /\ peer' = [peer EXCEPT ![p] = rec]
      /\ toldSharing' = ScreenReported(p, active)
      /\ UNCHANGED <<rooms, peerRooms, toldPresent>>
  BY DEF SetState
<1>2. rec.screen = active /\ rec.reported = peer[p].reported /\ rec.user = peer[p].user
  BY DEF Shape, TypeOK, Live, Peer
<1> HIDE DEF rec
<1>3. /\ Live' = Live
      /\ \A q \in Live : /\ Seat(q)' = Seat(q)
                         /\ peer'[q].reported = peer[q].reported
                         /\ peer'[q].screen = IF q = p THEN active ELSE peer[q].screen
  BY <1>1, <1>2 DEF Live, Seat
<1>4. \A q \in Live : q # p => Seat(q) # Seat(p)
  BY DEF RoomsKept, OneSeatPerUser
<1>5. SharersTold'
  BY <1>1, <1>3, <1>4 DEF BooksKept, SharersTold, ScreenReported
<1>6. Seat(p)[1] \in DOMAIN rooms
  BY DEF Seat, Shape, IndexAgrees
<1>7. ToldOnlyOpenRooms'
  BY <1>1, <1>6 DEF BooksKept, ToldOnlyOpenRooms, ScreenReported
<1>8. ArrivalsRemembered'
  BY <1>1, <1>3 DEF BooksKept, ArrivalsRemembered
<1> QED
  BY <1>5, <1>7, <1>8 DEF BooksKept

LEMMA DropBooks ==
  ASSUME Shape, RoomsKept, BooksKept, NEW D \in SUBSET Live, Drop(D)
  PROVE  BooksKept'
<1> Dropped(D)
  BY DropFacts
<1>1. toldPresent' = toldPresent \ Over(D) /\ toldSharing' = toldSharing \ Over(D)
  BY DEF Drop
<1>2. Live' = Live \ D /\ \A p \in Live \ D : peer'[p] = peer[p] /\ Seat(p)' = Seat(p)
  BY DEF Dropped, Live, Seat
<1>3. ASSUME NEW p \in Live \ D
      PROVE  Seat(p) \notin Over(D)
  <2>1. Seat(p) \notin OverByName(D)
    BY DEF OverByName, RoomsKept, OneSeatPerUser
  <2>2. peerRooms[p] \notin Emptied(D)
    BY DEF Emptied, Shape, IndexAgrees
  <2>3. Seat(p) \notin Emptied(D) \X Users
    BY <2>2 DEF Seat
  <2> QED
    BY <2>1, <2>3 DEF Over
<1>4. ArrivalsRemembered' /\ SharersTold'
  BY <1>1, <1>2, <1>3 DEF BooksKept, ArrivalsRemembered, SharersTold
<1>5. ToldOnlyOpenRooms'
  <2>1. ASSUME NEW s \in toldPresent' \cup toldSharing'
        PROVE  s[1] \in DOMAIN rooms'
    <3>1. s \in Rooms \X Users /\ s[1] \in DOMAIN rooms /\ s \notin Over(D)
      BY <1>1 DEF BooksKept, ToldOnlyOpenRooms, Shape, TypeOK
    <3>2. s[1] \notin Emptied(D)
      BY <3>1 DEF Over
    <3> QED
      BY <3>1, <3>2 DEF Dropped
  <2> QED
    BY <2>1 DEF ToldOnlyOpenRooms
<1> QED
  BY <1>4, <1>5 DEF BooksKept

LEMMA TransportBooks ==
  ASSUME Shape, BooksKept, TransportStep
  PROVE  BooksKept'
<1>1. /\ Live' = Live /\ UNCHANGED <<rooms, peerRooms, toldSharing>>
      /\ \A p \in Live : Seat(p)' = Seat(p) /\ peer'[p].screen = peer[p].screen
  BY DEF TransportStep, TransportOnly, SameSeats, Live, Seat, Info
<1>2. SharersTold'
  BY <1>1 DEF BooksKept, SharersTold
<1>3. CASE UNCHANGED toldPresent /\ \A p \in Live : peer'[p].reported = peer[p].reported
  BY <1>1, <1>2, <1>3 DEF BooksKept, ArrivalsRemembered, ToldOnlyOpenRooms
<1>4. CASE ReportConnections
  <2>1. toldPresent' = toldPresent \cup {Seat(p) : p \in Arrived}
    BY <1>4 DEF ReportConnections
  <2>2. \A p \in Live : peer'[p].reported => peer[p].reported \/ p \in Arrived
    BY <1>4 DEF ReportConnections, Shape, TypeOK, Live, Peer
  <2>3. \A p \in Arrived : Seat(p)[1] \in DOMAIN rooms
    BY DEF Arrived, Seat, Shape, IndexAgrees
  <2> QED
    BY <1>1, <1>2, <2>1, <2>2, <2>3 DEF BooksKept, ArrivalsRemembered, ToldOnlyOpenRooms
<1> QED
  BY <1>3, <1>4 DEF TransportStep

LEMMA NextBooks == ASSUME Shape, RoomsKept, BooksKept, [Next]_vars PROVE BooksKept'
<1>1. CASE Refusal \/ Idle
  <2>1. UNCHANGED <<tables, told>>
    BY <1>1 DEF Refusal, JoinFull, JoinBadOffer, Idle
  <2> QED
    BY <2>1 DEF BooksKept, ArrivalsRemembered, SharersTold, ToldOnlyOpenRooms, Seat, Live,
                tables, told
<1>2. CASE Admission
  BY <1>2, AdmitBooks DEF Admission
<1>3. CASE StateChange
  BY <1>3, StateBooks DEF StateChange
<1>4. CASE Departure
  BY <1>4, DropBooks DEF Departure
<1>5. CASE TransportStep
  BY <1>5, TransportBooks
<1> QED
  BY <1>1, <1>2, <1>3, <1>4, <1>5, StepKinds

LEMMA BooksInvariant == Spec => [](Shape /\ RoomsKept /\ BooksKept)
<1>1. Init => Shape /\ RoomsKept /\ BooksKept
  BY InitShape, InitRooms
  DEF Init, BooksKept, ArrivalsRemembered, SharersTold, ToldOnlyOpenRooms, Live
<1>2. Shape /\ RoomsKept /\ BooksKept /\ [Next]_vars => (Shape /\ RoomsKept /\ BooksKept)'
  BY NextShape, NextRooms, NextBooks
<1> QED
  BY <1>1, <1>2, PTL DEF Spec

\* The host application never forgets somebody whose arrival it was told of.
THEOREM ArrivalsStayKnown == Spec => []ArrivalsRemembered
BY BooksInvariant, PTL DEF BooksKept

\* Every screen being shared is known to the host application.
THEOREM SharersStayKnown == Spec => []SharersTold
BY BooksInvariant, PTL DEF BooksKept

\* Nothing is believed of a room that is finished.
THEOREM BooksClose == Spec => []ToldOnlyOpenRooms
BY BooksInvariant, PTL DEF BooksKept

-----------------------------------------------------------------------------
(* Arrivals and departures: the safety halves of ArrivalsReported and of   *)
(* DeadPeersLeave                                                          *)

\* From the report of a turn to the polling of the next, nobody whose
\* transport has come up is unannounced; and peers only go in that time.
Announced ==
  phase \notin {"poll", "report"} => \A p \in Live : peer[p].connected => peer[p].reported

AnnouncedBeforeGone == \A p \in Live \ DOMAIN peer' : peer[p].connected => peer[p].reported

\* The sweep leaves none of the dead behind, and no transport comes back to life.
Swept == phase = "wait" => \A p \in Live : peer[p].alive

DeadStayDead == \A p \in Live \cap DOMAIN peer' : ~peer[p].alive => ~peer'[p].alive

\* Which steps take peers away, and what becomes of the flags of the others.
LEMMA FlagSteps ==
  ASSUME Shape, [Next]_vars
  PROVE  /\ (Live \ DOMAIN peer' # {} => phase \in {"drain", "reap"})
         /\ \A p \in Live \cap DOMAIN peer' :
              /\ ~peer[p].alive => ~peer'[p].alive
              /\ peer[p].reported => peer'[p].reported
              /\ phase # "poll" => peer'[p].connected = peer[p].connected
         /\ \A p \in DOMAIN peer' \ Live : ~peer'[p].connected
         /\ DOMAIN peer' \ Live # {} => phase = "drain"
<1> DEFINE Kept == \A p \in Live \cap DOMAIN peer' : peer'[p] = peer[p]
<1>0. \A p \in Live : peer[p] \in Peer
  BY DEF Shape, TypeOK, Live
<1>1. ASSUME NEW u \in Users, NEW r \in Rooms, JoinFull(u, r) \/ JoinBadOffer(u, r)
      PROVE  UNCHANGED peer
  BY <1>1 DEF JoinFull, JoinBadOffer, tables
<1>2. ASSUME NEW u \in Users, NEW r \in Rooms, JoinAdmit(u, r)
      PROVE  /\ phase = "drain" /\ Kept
             /\ \A p \in DOMAIN peer' \ Live : ~peer'[p].connected
  <2>1. Admitted(u, r) /\ phase = "drain"
    BY <1>2, AdmitFacts DEF JoinAdmit
  <2> QED
    BY <2>1 DEF Admitted, NewPeer
<1>3. ASSUME NEW D \in SUBSET Live, Drop(D)
      PROVE  Kept /\ DOMAIN peer' \subseteq Live
  BY <1>3, DropFacts DEF Dropped
<1>4. ASSUME NEW p \in PeerIds, Mute(p) \/ Screen(p)
      PROVE  /\ DOMAIN peer' = Live
             /\ \A q \in Live : /\ peer'[q].alive = peer[q].alive
                                /\ peer'[q].reported = peer[q].reported
                                /\ peer'[q].connected = peer[q].connected
  <2>1. PICK muted, active \in BOOLEAN : SetState(p, muted, active)
    BY <1>4, SetStateSteps
  <2>2. peer' = [peer EXCEPT ![p] = [peer[p] EXCEPT !.muted = muted, !.screen = active]]
    BY <2>1 DEF SetState
  <2> QED
    BY <2>2, <1>0, <1>4, SetStateSteps DEF Live, Peer
<1>5. ASSUME NEW p \in PeerIds, IceUp(p) \/ IceDown(p) \/ TransportFails(p)
      PROVE  /\ phase = "poll" /\ DOMAIN peer' = Live
             /\ \A q \in Live : /\ ~peer[q].alive => ~peer'[q].alive
                                /\ peer[q].reported => peer'[q].reported
  BY <1>5, <1>0 DEF IceUp, IceDown, TransportFails, Polled, Live, Peer
<1>6. ASSUME ReportConnections
      PROVE  /\ DOMAIN peer' = Live
             /\ \A q \in Live : /\ peer'[q].alive = peer[q].alive
                                /\ peer[q].reported => peer'[q].reported
                                /\ peer'[q].connected = peer[q].connected
  BY <1>6, <1>0 DEF ReportConnections, Live, Peer
<1>7. ASSUME HandleInput
      PROVE  /\ DOMAIN peer' = Live
             /\ \A q \in Live : /\ ~peer[q].alive => ~peer'[q].alive
                                /\ peer[q].reported => peer'[q].reported
                                /\ peer'[q].connected = peer[q].connected
  BY <1>7, <1>0 DEF HandleInput, Live, Peer
<1>8. ASSUME NEW p \in PeerIds, Leave(p)
      PROVE  phase = "drain" /\ Kept /\ DOMAIN peer' \subseteq Live
  <2>1. {p} \in SUBSET Live /\ Drop({p}) /\ phase = "drain"
    BY <1>8 DEF Leave, Shape, IndexAgrees
  <2> QED
    BY <2>1, <1>3
<1>9. ASSUME Reap
      PROVE  phase = "reap" /\ Kept /\ DOMAIN peer' \subseteq Live
  <2>1. PICK abandoned \in SUBSET {p \in Live : peer[p].down} : Drop(Dead \cup abandoned)
    BY <1>9 DEF Reap
  <2>2. Dead \cup abandoned \in SUBSET Live /\ phase = "reap"
    BY <1>9 DEF Dead, Reap, Turn
  <2> QED
    BY <2>1, <2>2, <1>3
<1>10. ASSUME DrainDone \/ PollDone \/ Stop \/ UNCHANGED vars
       PROVE  UNCHANGED peer
  BY <1>10 DEF DrainDone, PollDone, Stop, vars, tables
<1>11. ASSUME UNCHANGED peer
       PROVE  Kept /\ DOMAIN peer' = Live
  BY <1>11 DEF Live
<1> USE DEF Kept
<1>12. CASE Join
  BY <1>12, <1>1, <1>2, <1>11 DEF Join
<1>13. CASE \E p \in PeerIds : Mute(p) \/ Screen(p) \/ Leave(p)
  BY <1>13, <1>4, <1>8
<1>14. CASE PollRooms
  BY <1>14, <1>5 DEF PollRooms
<1>15. CASE Loop \/ Stop
  BY <1>15, <1>6, <1>7, <1>9, <1>10, <1>11 DEF Loop
<1>16. CASE UNCHANGED vars
  BY <1>16, <1>10, <1>11
<1> QED
  BY <1>12, <1>13, <1>14, <1>15, <1>16 DEF Next, Apply

\* How the loop turns: polling follows the drain alone, the wait follows the
\* sweep, and a loop that stops was neither polling nor about to report.
LEMMA PhaseSteps ==
  ASSUME Shape, [Next]_vars
  PROVE  /\ phase' \in {"drain", "reap", "wait", "stopped"} =>
              phase \notin {"poll", "report"} \/ ReportConnections
         /\ phase' = "wait" => Reap \/ UNCHANGED vars
<1>1. CASE Apply
  BY <1>1 DEF Apply, Join, JoinFull, JoinBadOffer, JoinAdmit, Mute, Screen, SetState, Leave
<1>2. CASE PollRooms
  BY <1>2 DEF PollRooms, IceUp, IceDown, TransportFails, Polled
<1>3. CASE Loop \/ Stop
  BY <1>3 DEF Loop, DrainDone, PollDone, ReportConnections, Reap, HandleInput, Stop, Turn
<1>4. CASE UNCHANGED vars
  BY <1>4 DEF vars
<1> QED
  BY <1>1, <1>2, <1>3, <1>4 DEF Next

LEMMA NextAnnounced == ASSUME Shape, Announced, [Next]_vars PROVE Announced'
<1> SUFFICES ASSUME phase' \notin {"poll", "report"},
                    NEW p \in DOMAIN peer', peer'[p].connected
             PROVE  peer'[p].reported
  BY DEF Announced, Live
<1>1. phase \notin {"poll", "report"} \/ ReportConnections
  <2>1. phase' \in {"drain", "reap", "wait", "stopped"}
    BY NextShape DEF Shape, TypeOK, Phases
  <2> QED
    BY <2>1, PhaseSteps
<1>2. p \in Live
  BY FlagSteps
<1>3. CASE phase \notin {"poll", "report"}
  <2>1. peer[p].connected
    BY <1>2, <1>3, FlagSteps
  <2>2. peer[p].reported
    BY <1>2, <1>3, <2>1 DEF Announced
  <2> QED
    BY <1>2, <2>2, FlagSteps
<1>4. CASE ReportConnections
  BY <1>2, <1>4 DEF ReportConnections, Arrived, Shape, TypeOK, Live, Peer
<1> QED
  BY <1>1, <1>3, <1>4

\* A departure never overtakes its arrival: whoever's transport has come up is
\* announced within the turn, and before it goes, whether it leaves, is
\* replaced or is swept (poll_rooms comes before report_connections, and
\* commands and the sweep after it).
THEOREM ArrivalsComeFirst == Spec => []Announced /\ [][AnnouncedBeforeGone]_vars
<1>1. Init => Announced
  BY DEF Init, Announced, Live
<1>2. Shape /\ Announced /\ [Next]_vars => Announced'
  BY NextAnnounced
<1>3. Shape /\ Announced /\ [Next]_vars => AnnouncedBeforeGone
  BY FlagSteps DEF Announced, AnnouncedBeforeGone
<1>4. Spec => []Announced
  BY <1>1, <1>2, ShapeInvariant, PTL DEF Spec
<1>5. Spec => [][AnnouncedBeforeGone]_vars
  BY <1>3, <1>4, ShapeInvariant, PTL DEF Spec
<1> QED
  BY <1>4, <1>5

LEMMA NextSwept == ASSUME Shape, Swept, [Next]_vars PROVE Swept'
<1>1. CASE UNCHANGED vars
  BY <1>1 DEF vars, tables, Swept, Live
<1>2. CASE Reap
  <2>1. PICK abandoned \in SUBSET {p \in Live : peer[p].down} : Drop(Dead \cup abandoned)
    BY <1>2 DEF Reap
  <2>2. Dead \cup abandoned \in SUBSET Live
    BY DEF Dead
  <2>3. Dropped(Dead \cup abandoned)
    BY <2>1, <2>2, DropFacts
  <2> QED
    BY <2>3 DEF Dropped, Dead, Swept, Live
<1>3. CASE phase' # "wait"
  BY <1>3 DEF Swept
<1> QED
  BY <1>1, <1>2, <1>3, PhaseSteps

\* A dead transport costs its peer the seat at the next sweep: no sweep leaves
\* one behind, and none recovers in between.
THEOREM DeadAreSwept == Spec => []Swept /\ [][DeadStayDead]_vars
<1>1. Init => Swept
  BY DEF Init, Swept
<1>2. Shape /\ Swept /\ [Next]_vars => Swept'
  BY NextSwept
<1>3. Shape /\ [Next]_vars => DeadStayDead
  BY FlagSteps DEF DeadStayDead
<1>4. Spec => []Swept
  BY <1>1, <1>2, ShapeInvariant, PTL DEF Spec
<1>5. Spec => [][DeadStayDead]_vars
  BY <1>3, ShapeInvariant, PTL DEF Spec
<1> QED
  BY <1>4, <1>5

-----------------------------------------------------------------------------
(* How far the two findings about the host application's books go          *)

Held(s) == \E p \in Live : Seat(p) = s
Sharer(s) == \E p \in Live : Seat(p) = s /\ peer[p].screen

\* Whom the host application believes present, and sharing, without reason.
Ghosts == {s \in toldPresent : ~Held(s)}
StaleShares == {s \in toldSharing : ~Sharer(s)}

\* A peer whose own arrival was never announced, but whose seat was.
Heir(p) == p \in Live /\ ~peer[p].reported /\ Seat(p) \in toldPresent

\* A ghost is what an heir leaves behind; an heir is somebody who has reconnected,
\* or joined where there was a ghost; and a ghost stays until its identity joins
\* again or its room is finished.
GhostsExplained ==
  /\ \A s \in Ghosts' \ Ghosts : \E p \in Live \ DOMAIN peer' : Heir(p) /\ Seat(p) = s
  /\ \A p \in DOMAIN peer' : Heir(p)' =>
       \/ Heir(p)
       \/ /\ p \notin Live
          /\ Seat(p)' \in Ghosts \/ \E q \in Live \ DOMAIN peer' : Seat(q) = Seat(p)'
  /\ \A s \in Ghosts \ Ghosts' : Held(s)' \/ s[1] \notin DOMAIN rooms'

\* A stale share is left by a sharer that is replaced, or that goes without ever
\* having been announced; it ends when its identity shares again, when a peer of
\* that identity departs announced, or with the room: not when a client says that
\* it has stopped.
SharesExplained ==
  /\ \A s \in StaleShares' \ StaleShares :
       \E p \in Live \ DOMAIN peer' :
         Seat(p) = s /\ peer[p].screen /\ (Held(s)' \/ ~peer[p].reported)
  /\ \A s \in StaleShares \ StaleShares' :
       \/ Sharer(s)'
       \/ \E p \in Live \ DOMAIN peer' : Seat(p) = s /\ peer[p].reported
       \/ s[1] \notin DOMAIN rooms'

LEMMA UntouchedBooks ==
  ASSUME UNCHANGED <<tables, told>>
  PROVE  GhostsExplained /\ SharesExplained
<1>1. Ghosts' = Ghosts /\ StaleShares' = StaleShares
  BY DEF Ghosts, StaleShares, Held, Sharer, Live, Seat, tables, told
<1>2. \A p : Heir(p)' <=> Heir(p)
  BY DEF Heir, Live, Seat, tables, told
<1> QED BY <1>1, <1>2 DEF GhostsExplained, SharesExplained

LEMMA AdmitExplained ==
  ASSUME Shape, NEW u \in Users, NEW r \in Rooms, JoinAdmit(u, r)
  PROVE  GhostsExplained /\ SharesExplained
<1> DEFINE s0 == <<r, u>>
<1> Admitted(u, r)
  BY AdmitFacts
<1> PICK id \in PeerIds : id = nextPeer
  BY DEF Admitted
<1>1. /\ Live' = (Live \ Stale(u, r)) \cup {id} /\ DOMAIN peer' = Live' /\ id \notin Live
      /\ Seat(id)' = s0 /\ ~peer'[id].reported
      /\ \A q \in Live \ Stale(u, r) : Seat(q)' = Seat(q) /\ peer'[q] = peer[q]
      /\ UNCHANGED told
  <2>1. /\ DOMAIN peer' = (Live \ Stale(u, r)) \cup {id} /\ id \notin Live /\ DOMAIN peer' = Live'
        /\ peer'[id] = NewPeer(u) /\ peerRooms'[id] = r
        /\ \A q \in Live \ Stale(u, r) : peer'[q] = peer[q] /\ peerRooms'[q] = peerRooms[q]
    BY DEF Admitted, Live
  <2>2. Seat(id)' = s0 /\ ~peer'[id].reported
    BY <2>1 DEF Seat, NewPeer
  <2>3. \A q \in Live \ Stale(u, r) : Seat(q)' = Seat(q)
    BY <2>1 DEF Seat
  <2>4. UNCHANGED told
    BY DEF JoinAdmit
  <2> QED BY <2>1, <2>2, <2>3, <2>4
<1>2. \A q \in Live : q \in Stale(u, r) <=> Seat(q) = s0
  BY DEF Stale, Members, Seat, Shape, IndexAgrees
<1> HIDE DEF s0
<1>3. \A s : Held(s)' <=> Held(s) \/ s = s0
  BY <1>1, <1>2 DEF Held
<1>4. \A s : Sharer(s)' => Sharer(s) \/ s = s0
  BY <1>1, <1>2 DEF Held, Sharer, Admitted, NewPeer
<1>5. \A s : s # s0 /\ Sharer(s) => Sharer(s)'
  BY <1>1, <1>2 DEF Sharer
<1>6. Ghosts' \subseteq Ghosts /\ \A s \in Ghosts \ Ghosts' : Held(s)'
  BY <1>1, <1>3 DEF Ghosts, told
<1>7. ASSUME NEW p \in DOMAIN peer', Heir(p)'
      PROVE  \/ Heir(p)
             \/ /\ p \notin Live
                /\ Seat(p)' \in Ghosts \/ \E q \in Live \ DOMAIN peer' : Seat(q) = Seat(p)'
  <2>1. CASE p = id
    <3>1. p \notin Live /\ Seat(p)' = s0 /\ s0 \in toldPresent
      BY <1>1, <1>7, <2>1 DEF Heir, told
    <3>2. CASE Held(s0)
      <4>1. PICK q \in Live : Seat(q) = s0
        BY <3>2 DEF Held
      <4>2. q \notin DOMAIN peer'
        BY <1>1, <1>2, <4>1
      <4> QED BY <3>1, <4>1, <4>2
    <3>3. CASE ~Held(s0)
      BY <3>1, <3>3 DEF Ghosts
    <3> QED BY <3>2, <3>3
  <2>2. CASE p # id
    BY <1>1, <1>7, <2>2 DEF Heir, told
  <2> QED BY <2>1, <2>2
<1>8. ASSUME NEW s \in StaleShares' \ StaleShares
      PROVE  \E p \in Live \ DOMAIN peer' :
               Seat(p) = s /\ peer[p].screen /\ (Held(s)' \/ ~peer[p].reported)
  <2>1. s \in toldSharing /\ Sharer(s) /\ ~Sharer(s)'
    BY <1>1, <1>8 DEF StaleShares, told
  <2>2. s = s0 /\ Held(s)'
    BY <1>3, <1>5, <2>1
  <2>3. PICK p \in Live : Seat(p) = s /\ peer[p].screen
    BY <2>1 DEF Sharer
  <2>4. p \notin DOMAIN peer'
    BY <1>1, <1>2, <2>2, <2>3
  <2> QED BY <2>2, <2>3, <2>4
<1>9. \A s \in StaleShares \ StaleShares' : Sharer(s)'
  BY <1>1 DEF StaleShares, told
<1> QED BY <1>6, <1>7, <1>8, <1>9 DEF GhostsExplained, SharesExplained

LEMMA StateExplained ==
  ASSUME Shape, RoomsKept, NEW p \in Live, NEW muted \in BOOLEAN, NEW active \in BOOLEAN,
         SetState(p, muted, active)
  PROVE  GhostsExplained /\ SharesExplained
<1> DEFINE rec == [peer[p] EXCEPT !.muted = muted, !.screen = active]
<1>0. peer[p] \in Peer
  BY DEF Shape, TypeOK, Live
<1>1. /\ peer' = [peer EXCEPT ![p] = rec]
      /\ toldSharing' = ScreenReported(p, active)
      /\ UNCHANGED <<rooms, peerRooms, toldPresent>>
  BY DEF SetState
<1>2. rec.screen = active /\ rec.reported = peer[p].reported /\ rec.user = peer[p].user
  BY <1>0 DEF Peer
<1> HIDE DEF rec
<1>3. /\ Live' = Live /\ DOMAIN peer' = Live
      /\ \A q \in Live : /\ Seat(q)' = Seat(q)
                         /\ peer'[q].reported = peer[q].reported
                         /\ peer'[q].screen = IF q = p THEN active ELSE peer[q].screen
  BY <1>1, <1>2 DEF Live, Seat
<1>4. \A q \in Live : q # p => Seat(q) # Seat(p)
  BY DEF RoomsKept, OneSeatPerUser
<1>5. GhostsExplained
  <2>1. \A s : Held(s)' <=> Held(s)
    BY <1>3 DEF Held
  <2>2. Ghosts' = Ghosts
    BY <1>1, <2>1 DEF Ghosts
  <2>3. \A q \in DOMAIN peer' : Heir(q)' => Heir(q)
    BY <1>1, <1>3 DEF Heir
  <2> QED BY <2>2, <2>3 DEF GhostsExplained
<1>6. \A s : s # Seat(p) => (Sharer(s)' <=> Sharer(s)) /\ (s \in toldSharing' <=> s \in toldSharing)
  BY <1>1, <1>3 DEF Sharer, ScreenReported
<1>7. Sharer(Seat(p)) <=> peer[p].screen
  BY <1>4 DEF Sharer
<1>8. peer'[p].screen = active /\ Seat(p)' = Seat(p) /\ p \in Live'
  BY <1>3
<1>9. active => \A s : s = Seat(p) => Sharer(s)'
  BY <1>3, <1>8 DEF Sharer
<1>10. CASE active
  <2>1. StaleShares' \subseteq StaleShares
    BY <1>6, <1>9, <1>10 DEF StaleShares
  <2>2. \A s \in StaleShares \ StaleShares' : Sharer(s)'
    BY <1>6, <1>9, <1>10 DEF StaleShares
  <2> QED BY <1>5, <2>1, <2>2 DEF SharesExplained
<1>11. CASE ~active /\ peer[p].screen
  <2>1. Seat(p) \notin toldSharing' /\ Seat(p) \notin StaleShares
    BY <1>1, <1>7, <1>11 DEF ScreenReported, StaleShares
  <2>2. StaleShares' = StaleShares
    BY <1>6, <2>1 DEF StaleShares
  <2> QED BY <1>5, <2>2 DEF SharesExplained
<1>12. CASE ~active /\ ~peer[p].screen
  <2>1. toldSharing' = toldSharing
    <3>1. active = peer[p].screen
      BY <1>0, <1>12 DEF Peer
    <3> QED BY <1>1, <3>1 DEF ScreenReported
  <2>2. \A s : s = Seat(p) => ~Sharer(s) /\ ~Sharer(s)'
    BY <1>3, <1>4, <1>7, <1>12 DEF Sharer
  <2>3. StaleShares' = StaleShares
    BY <1>6, <2>1, <2>2 DEF StaleShares
  <2> QED BY <1>5, <2>3 DEF SharesExplained
<1> QED BY <1>0, <1>10, <1>11, <1>12

LEMMA DropExplained ==
  ASSUME Shape, RoomsKept, NEW D \in SUBSET Live, Drop(D)
  PROVE  GhostsExplained /\ SharesExplained
<1> Dropped(D)
  BY DropFacts
<1>1. toldPresent' = toldPresent \ Over(D) /\ toldSharing' = toldSharing \ Over(D)
  BY DEF Drop
<1>2. /\ Live' = Live \ D /\ DOMAIN peer' = Live \ D
      /\ \A p \in Live \ D : peer'[p] = peer[p] /\ Seat(p)' = Seat(p)
  BY DEF Dropped, Live, Seat
<1>3. ASSUME NEW s, s \in Over(D)
      PROVE  s[1] \notin DOMAIN rooms' \/ \E p \in D : Seat(p) = s /\ peer[p].reported
  <2>1. CASE s \in OverByName(D)
    BY <2>1 DEF OverByName
  <2>2. CASE s \in Emptied(D) \X Users
    <3>1. s[1] \in Emptied(D)
      BY <2>2
    <3> QED BY <3>1 DEF Dropped
  <2> QED BY <1>3, <2>1, <2>2 DEF Over
<1>4. \A s : Held(s)' => Held(s)
  BY <1>2 DEF Held
<1>5. \A s : Sharer(s)' => Sharer(s)
  BY <1>2 DEF Sharer
<1>6. ASSUME NEW s \in Ghosts' \ Ghosts
      PROVE  \E p \in Live \ DOMAIN peer' : Heir(p) /\ Seat(p) = s
  <2>1. s \in toldPresent /\ s \notin Over(D) /\ Held(s) /\ ~Held(s)'
    BY <1>1, <1>6 DEF Ghosts
  <2>2. PICK p \in Live : Seat(p) = s
    BY <2>1 DEF Held
  <2>3. p \in D
    BY <1>2, <2>1, <2>2 DEF Held
  <2>4. ~peer[p].reported
    BY <2>1, <2>2, <2>3 DEF Over, OverByName
  <2> QED BY <1>2, <2>1, <2>2, <2>3, <2>4 DEF Heir
<1>7. \A p \in DOMAIN peer' : Heir(p)' => Heir(p)
  BY <1>1, <1>2 DEF Heir
<1>8. ASSUME NEW s \in Ghosts \ Ghosts'
      PROVE  s[1] \notin DOMAIN rooms'
  <2>1. s \in Over(D) /\ ~Held(s)
    BY <1>1, <1>4, <1>8 DEF Ghosts
  <2> QED BY <1>3, <2>1 DEF Held
<1>9. ASSUME NEW s \in StaleShares' \ StaleShares
      PROVE  \E p \in Live \ DOMAIN peer' :
               Seat(p) = s /\ peer[p].screen /\ (Held(s)' \/ ~peer[p].reported)
  <2>1. s \notin Over(D) /\ Sharer(s) /\ ~Sharer(s)'
    BY <1>1, <1>9 DEF StaleShares
  <2>2. PICK p \in Live : Seat(p) = s /\ peer[p].screen
    BY <2>1 DEF Sharer
  <2>3. p \in D
    BY <1>2, <2>1, <2>2 DEF Sharer
  <2>4. ~peer[p].reported
    BY <2>1, <2>2, <2>3 DEF Over, OverByName
  <2> QED BY <1>2, <2>2, <2>3, <2>4
<1>10. ASSUME NEW s \in StaleShares \ StaleShares'
       PROVE  \/ \E p \in Live \ DOMAIN peer' : Seat(p) = s /\ peer[p].reported
              \/ s[1] \notin DOMAIN rooms'
  <2>1. s \in Over(D)
    BY <1>1, <1>5, <1>10 DEF StaleShares
  <2> QED BY <1>2, <1>3, <2>1
<1> QED BY <1>6, <1>7, <1>8, <1>9, <1>10 DEF GhostsExplained, SharesExplained

LEMMA TransportExplained ==
  ASSUME Shape, RoomsKept, TransportStep
  PROVE  GhostsExplained /\ SharesExplained
<1>1. /\ Live' = Live /\ DOMAIN peer' = Live /\ UNCHANGED toldSharing
      /\ \A p \in Live : Seat(p)' = Seat(p) /\ peer'[p].screen = peer[p].screen
  BY DEF TransportStep, TransportOnly, SameSeats, Live, Seat, Info
<1>2. \A s : (Held(s)' <=> Held(s)) /\ (Sharer(s)' <=> Sharer(s))
  BY <1>1 DEF Held, Sharer
<1>3. StaleShares' = StaleShares
  BY <1>1, <1>2 DEF StaleShares
<1>4. Ghosts' = Ghosts /\ \A p \in Live : Heir(p)' => Heir(p)
  <2>1. CASE UNCHANGED toldPresent /\ \A p \in Live : peer'[p].reported = peer[p].reported
    BY <1>1, <1>2, <2>1 DEF Ghosts, Heir
  <2>2. CASE ReportConnections
    <3>1. toldPresent' = toldPresent \cup {Seat(p) : p \in Arrived}
      BY <2>2 DEF ReportConnections
    <3>2. \A p \in Live : p \in Arrived \/ peer[p].reported => peer'[p].reported
      BY <2>2 DEF ReportConnections, Shape, TypeOK, Live, Peer
    <3>3. \A p \in Arrived : p \in Live /\ Held(Seat(p))
      BY DEF Arrived, Held
    <3>4. Ghosts' = Ghosts
      BY <1>2, <3>1, <3>3 DEF Ghosts
    <3>5. ASSUME NEW p \in Live, Heir(p)' PROVE Heir(p)
      <4>1. ~peer[p].reported /\ p \notin Arrived /\ Seat(p) \in toldPresent'
        BY <1>1, <3>2, <3>5 DEF Heir
      <4>2. \A q \in Arrived : Seat(q) # Seat(p)
        BY <3>3, <4>1 DEF RoomsKept, OneSeatPerUser
      <4> QED BY <3>1, <4>1, <4>2 DEF Heir
    <3> QED BY <3>4, <3>5
  <2> QED BY <2>1, <2>2 DEF TransportStep
<1> QED BY <1>1, <1>3, <1>4 DEF GhostsExplained, SharesExplained

LEMMA BooksExplained ==
  ASSUME Shape, RoomsKept, [Next]_vars
  PROVE  GhostsExplained /\ SharesExplained
<1>1. CASE Refusal \/ Idle
  <2>1. UNCHANGED <<tables, told>>
    BY <1>1 DEF Refusal, JoinFull, JoinBadOffer, Idle
  <2> QED BY <2>1, UntouchedBooks
<1>2. CASE Admission
  BY <1>2, AdmitExplained DEF Admission
<1>3. CASE StateChange
  BY <1>3, StateExplained DEF StateChange
<1>4. CASE Departure
  BY <1>4, DropExplained DEF Departure
<1>5. CASE TransportStep
  BY <1>5, TransportExplained
<1> QED BY <1>1, <1>2, <1>3, <1>4, <1>5, StepKinds

\* How the host application comes to believe somebody present that is not (the
\* run ghost): only by a reconnection whose newcomer goes before it is announced
\* (drop_peer is silent about it), and until the identity or the end of the room
\* puts it right.
THEOREM GhostsComeOfReconnecting == Spec => [][GhostsExplained]_vars
<1>1. Shape /\ RoomsKept /\ [Next]_vars => GhostsExplained
  BY BooksExplained
<1> QED BY <1>1, RoomsInvariant, PTL DEF Spec

\* How it comes to believe a screen shared that is not (the run stale_share):
\* handle_join retires a sharer without a word, and drop_peer one that was never
\* announced.
THEOREM StaleSharesComeOfSilence == Spec => [][SharesExplained]_vars
<1>1. Shape /\ RoomsKept /\ [Next]_vars => SharesExplained
  BY BooksExplained
<1> QED BY <1>1, RoomsInvariant, PTL DEF Spec

-----------------------------------------------------------------------------
(* Rooms do not hear of each other                                         *)

\* Nobody came to x or went, and none of its peers changed.
Still(x) == Members(x)' = Members(x) /\ \A p \in Members(x) : peer'[p] = peer[p]

\* Its clients are sent nothing, and the host application is told nothing of it.
Silence(x) ==
  /\ \A p \in Members(x) : view'[p] = view[p]
  /\ \A u \in Users : /\ <<x, u>> \in toldPresent' <=> <<x, u>> \in toldPresent
                      /\ <<x, u>> \in toldSharing' <=> <<x, u>> \in toldSharing

\* A command reaches one room at most, and a room in which nothing happens hears
\* nothing, whatever a join, a departure or a sweep does to the others.
RoomsApart ==
  /\ Apply => \E r \in Rooms : \A x \in Rooms \ {r} : Still(x)
  /\ \A x \in Rooms : Still(x) => Silence(x)

LEMMA MembersAre ==
  ASSUME Shape, NEW x, NEW p
  PROVE  p \in Members(x) <=> p \in Live /\ peerRooms[p] = x
BY DEF Shape, IndexAgrees, Members, Live

\* What a client believes of its room depends on nothing but the room.
LEMMA StillViews ==
  ASSUME Shape, RosterAgrees, Shape', RosterAgrees', NEW x \in Rooms, Still(x),
         NEW p \in Members(x)
  PROVE  view'[p] = view[p]
<1>1. p \in Live /\ peerRooms[p] = x /\ x \in DOMAIN rooms /\ rooms[x] = Members(x)
  BY DEF Shape, IndexAgrees, Members
<1>2. view[p] = [q \in Members(x) \ {p} |-> Info(peer[q])]
  BY <1>1 DEF RosterAgrees
<1>3. p \in Members(x)' /\ Members(x)' = Members(x)
  BY DEF Still
<1>4. p \in Live' /\ peerRooms'[p] = x /\ rooms'[x] = Members(x)'
  BY <1>3 DEF Shape, IndexAgrees, Members
<1>5. view'[p] = [q \in Members(x) \ {p} |-> Info(peer'[q])]
  BY <1>3, <1>4 DEF RosterAgrees
<1>6. \A q \in Members(x) : peer'[q] = peer[q]
  BY DEF Still
<1> QED BY <1>2, <1>5, <1>6

\* The seats that a step reports are those of peers that changed or went.
LEMMA StillBooks ==
  ASSUME Shape, Shape', [Next]_vars, NEW x \in Rooms, Still(x), NEW u \in Users
  PROVE  /\ <<x, u>> \in toldPresent' <=> <<x, u>> \in toldPresent
         /\ <<x, u>> \in toldSharing' <=> <<x, u>> \in toldSharing
<1>0. ASSUME NEW p \in Live, Seat(p) = <<x, u>> \/ peerRooms[p] = x
      PROVE  p \in Live' /\ peer'[p] = peer[p]
  <2>1. peerRooms[p] = x
    BY <1>0 DEF Seat
  <2>2. p \in Members(x)
    BY <2>1, MembersAre
  <2>3. p \in Members(x)' /\ peer'[p] = peer[p]
    BY <2>2 DEF Still
  <2> QED BY <2>3 DEF Shape, IndexAgrees, Members
<1>1. CASE Refusal \/ Admission \/ Idle
  BY <1>1 DEF Refusal, Admission, JoinFull, JoinBadOffer, JoinAdmit, Idle, told
<1>2. CASE StateChange
  <2>1. PICK p \in Live, muted \in BOOLEAN, active \in BOOLEAN : SetState(p, muted, active)
    BY <1>2 DEF StateChange
  <2>2. /\ toldPresent' = toldPresent /\ toldSharing' = ScreenReported(p, active)
        /\ peer' = [peer EXCEPT ![p] = [peer[p] EXCEPT !.muted = muted, !.screen = active]]
    BY <2>1 DEF SetState
  <2>3. CASE active = peer[p].screen
    BY <2>2, <2>3 DEF ScreenReported
  <2>4. CASE active # peer[p].screen
    <3>1. peer[p] \in Peer
      BY DEF Shape, TypeOK, Live
    <3>2. peer'[p].screen = active
      BY <2>2, <3>1 DEF Live, Peer
    <3>3. Seat(p) # <<x, u>>
      BY <1>0, <2>4, <3>2
    <3>4. toldSharing' = toldSharing \cup {Seat(p)} \/ toldSharing' = toldSharing \ {Seat(p)}
      BY <2>2, <2>4 DEF ScreenReported
    <3> QED BY <2>2, <3>3, <3>4
  <2> QED BY <2>3, <2>4
<1>3. CASE Departure
  <2>1. PICK D \in SUBSET Live : Drop(D)
    BY <1>3 DEF Departure
  <2>2. Live' = Live \ D
    BY <2>1, DropFacts DEF Dropped, Live
  <2>3. \A p \in D : Seat(p) # <<x, u>> /\ peerRooms[p] # x
    BY <1>0, <2>2
  <2>4. x \notin Emptied(D)
    BY <2>3 DEF Emptied, Shape, IndexAgrees
  <2>5. <<x, u>> \notin Over(D)
    BY <2>3, <2>4 DEF Over, OverByName
  <2>6. toldPresent' = toldPresent \ Over(D) /\ toldSharing' = toldSharing \ Over(D)
    BY <2>1 DEF Drop
  <2> QED BY <2>5, <2>6
<1>4. CASE TransportStep
  <2>1. toldSharing' = toldSharing
    BY <1>4 DEF TransportStep
  <2>2. CASE toldPresent' = toldPresent
    BY <2>1, <2>2
  <2>3. CASE ReportConnections
    <3>1. toldPresent' = toldPresent \cup {Seat(p) : p \in Arrived}
      BY <2>3 DEF ReportConnections
    <3>2. \A p \in Arrived : p \in Live /\ ~peer[p].reported /\ peer[p] \in Peer
      BY DEF Arrived, Shape, TypeOK, Live
    <3>3. \A p \in Arrived : peer'[p].reported
      BY <2>3, <3>2 DEF ReportConnections, Peer
    <3>4. \A p \in Arrived : Seat(p) # <<x, u>>
      BY <1>0, <3>2, <3>3
    <3> QED BY <2>1, <3>1, <3>4
  <2> QED BY <1>4, <2>2, <2>3 DEF TransportStep
<1> QED BY <1>1, <1>2, <1>3, <1>4, StepKinds

LEMMA CommandsStayInside ==
  ASSUME Shape, Apply
  PROVE  \E r \in Rooms : \A x \in Rooms \ {r} : Still(x)
<1>1. ASSUME NEW u \in Users, NEW r \in Rooms, JoinFull(u, r) \/ JoinBadOffer(u, r)
      PROVE  \A x \in Rooms \ {r} : Still(x)
  <2>1. rooms' = rooms /\ peer' = peer
    BY <1>1 DEF JoinFull, JoinBadOffer, tables
  <2> QED BY <2>1 DEF Still, Members
<1>2. ASSUME NEW u \in Users, NEW r \in Rooms, JoinAdmit(u, r)
      PROVE  \A x \in Rooms \ {r} : Still(x)
  <2>1. /\ DOMAIN rooms' = DOMAIN rooms \cup {r}
        /\ \A q \in DOMAIN rooms \ {r} : rooms'[q] = rooms[q]
        /\ Stale(u, r) \subseteq Members(r)
        /\ \A q \in Live \ Stale(u, r) : peer'[q] = peer[q]
    BY <1>2, AdmitFacts DEF Admitted
  <2>2. ASSUME NEW x \in Rooms \ {r} PROVE Still(x)
    <3>1. Members(x)' = Members(x)
      BY <2>1 DEF Members
    <3>2. \A q \in Members(x) : q \in Live \ Stale(u, r)
      BY <2>1, MembersAre
    <3> QED BY <2>1, <3>1, <3>2 DEF Still
  <2> QED BY <2>2
<1>3. ASSUME NEW p \in Live, NEW muted \in BOOLEAN, NEW active \in BOOLEAN,
             SetState(p, muted, active)
      PROVE  \A x \in Rooms \ {peerRooms[p]} : Still(x)
  <2>1. rooms' = rooms /\ \A q \in Live \ {p} : peer'[q] = peer[q]
    BY <1>3 DEF SetState, Live
  <2>2. \A x : Members(x)' = Members(x)
    BY <2>1 DEF Members
  <2> QED BY <2>1, <2>2, MembersAre DEF Still
<1>4. ASSUME NEW p \in Live, Drop({p})
      PROVE  \A x \in Rooms \ {peerRooms[p]} : Still(x)
  <2>1. Dropped({p})
    BY <1>4, DropFacts
  <2>2. ASSUME NEW x \in Rooms \ {peerRooms[p]} PROVE Still(x)
    <3>1. p \notin Members(x) /\ Members(x) \subseteq Live
      BY <2>2, MembersAre
    <3>2. x \in DOMAIN rooms => x \in DOMAIN rooms' /\ rooms'[x] = rooms[x]
      <4>1. ASSUME x \in DOMAIN rooms
            PROVE  p \notin rooms[x] /\ x \notin Emptied({p})
        BY <3>1, <4>1 DEF Emptied, Members
      <4>2. ASSUME x \in DOMAIN rooms
            PROVE  x \in DOMAIN rooms' /\ rooms'[x] = rooms[x] \ {p}
        BY <2>1, <4>1, <4>2 DEF Dropped
      <4>3. ASSUME x \in DOMAIN rooms
            PROVE  rooms[x] \ {p} = rooms[x]
        BY <4>1, <4>3
      <4> QED BY <4>2, <4>3
    <3>3. DOMAIN rooms' \subseteq DOMAIN rooms
      BY <2>1 DEF Dropped
    <3>4. Members(x)' = Members(x)
      BY <3>2, <3>3 DEF Members
    <3> QED BY <2>1, <3>1, <3>4 DEF Still, Dropped
  <2> QED BY <2>2
<1>5. \A p \in Live : peerRooms[p] \in Rooms
  BY DEF Shape, TypeOK, IndexAgrees, Live
<1>6. CASE Join
  BY <1>6, <1>1, <1>2 DEF Join
<1>7. CASE \E p \in PeerIds : Mute(p) \/ Screen(p)
  BY <1>7, <1>3, <1>5, SetStateSteps
<1>8. CASE \E p \in PeerIds : Leave(p)
  <2>1. PICK p \in PeerIds : Leave(p)
    BY <1>8
  <2>2. p \in Live /\ Drop({p})
    BY <2>1 DEF Leave, Shape, IndexAgrees
  <2> QED BY <2>2, <1>4, <1>5
<1> QED BY <1>6, <1>7, <1>8 DEF Apply

LEMMA NextApart ==
  ASSUME Shape, RosterAgrees, [Next]_vars
  PROVE  RoomsApart
<1>1. Shape' /\ RosterAgrees'
  BY NextShape, NextRosters
<1>2. \A x \in Rooms : Still(x) => Silence(x)
  BY <1>1, StillViews, StillBooks DEF Silence
<1>3. Apply => \E r \in Rooms : \A x \in Rooms \ {r} : Still(x)
  BY CommandsStayInside
<1> QED BY <1>2, <1>3 DEF RoomsApart

\* Rooms are independent although one thread and one table serve them all: what
\* is broadcast and what is reported follows the room of the peer it is about
\* (peer_rooms, drop_peer, set_state, report_connections), so no command and no
\* sweep is heard, or told of, in a room it did not touch.
THEOREM RoomsAreIndependent == Spec => [][RoomsApart]_vars
<1>1. Init => Shape /\ RosterAgrees
  BY InitShape DEF Init, RosterAgrees, Live
<1>2. Shape /\ RosterAgrees /\ [Next]_vars => (Shape /\ RosterAgrees)' /\ [RoomsApart]_vars
  BY NextShape, NextRosters, NextApart
<1> QED BY <1>1, <1>2, PTL DEF Spec
=============================================================================
