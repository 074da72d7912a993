------------------------------- MODULE Engine -------------------------------
(***************************************************************************)
(* The media loop of the SFU (src/src/sfu/engine.rs and the handlers it    *)
(* calls): one OS thread owns every room and every peer, applies the       *)
(* commands the signaling tasks queue, polls the transports, reports       *)
(* arrivals and departures to the host application, and reaps the dead.    *)
(*                                                                         *)
(* Commands are nondeterministic here: any command may carry any id that   *)
(* was ever assigned, which covers the signaling task of a peer that has   *)
(* been replaced or reaped and goes on sending.  Frames a client will read *)
(* are folded into view at the moment they are queued (the channel is FIFO *)
(* and reliable), so view[p] is what p's client believes once it has read  *)
(* everything sent to it; reports are folded the same way into toldPresent *)
(* and toldSharing, what the host application believes once every report   *)
(* has been delivered.  Tracks, negotiation, speaking and the passage of   *)
(* time have modules of their own: here a peer that is down may be found   *)
(* abandoned at any reap.                                                  *)
(***************************************************************************)
EXTENDS Naturals, FiniteSets, Functions

CONSTANTS
  Users,         \* identities (the sub claim of a join token)
  Rooms,         \* room names (the room claim)
  MaxRoomPeers,  \* config.max_room_peers
  MaxPeerId      \* bound on next_peer: how many ids a behaviour may assign

ASSUME EngineAssumption ==
  /\ MaxRoomPeers \in Nat \ {0}
  /\ MaxPeerId \in Nat

VARIABLES
  phase,        \* where Engine::run is in its loop
  nextPeer,     \* Engine.next_peer
  rooms,        \* Engine.rooms: open room -> the peers it holds
  peerRooms,    \* Engine.peer_rooms: peer -> the name of its room
  peer,         \* the Peer structs the rooms own
  verdict,      \* how the command just applied was answered, if it was a join
  view,         \* peer -> the roster its client believes in
  toldPresent,  \* <<room, user>> pairs the host application believes present
  toldSharing   \* <<room, user>> pairs it believes are sharing a screen

tables == <<rooms, peerRooms, peer>>
told == <<toldPresent, toldSharing>>
vars == <<phase, nextPeer, tables, verdict, view, told>>

PeerIds == 1 .. MaxPeerId
Phases == {"drain", "poll", "report", "reap", "wait", "stopped"}

Peer == [user : Users, muted : BOOLEAN, screen : BOOLEAN, connected : BOOLEAN,
         down : BOOLEAN, reported : BOOLEAN, alive : BOOLEAN]
PeerInfo == [user : Users, muted : BOOLEAN, screen : BOOLEAN]

NoVerdict == [code |-> "none"]
Refusals == {"room_full", "bad_offer"}
Verdict == {NoVerdict} \cup
           [code : {"joined"} \cup Refusals, user : Users, room : Rooms]

-----------------------------------------------------------------------------
(* Helpers                                                                 *)

Insert(f, k, v) == [x \in DOMAIN f \cup {k} |-> IF x = k THEN v ELSE f[x]]
Without(f, S) == Restrict(f, DOMAIN f \ S)

NewPeer(u) == [user |-> u, muted |-> FALSE, screen |-> FALSE, connected |-> FALSE,
               down |-> FALSE, reported |-> FALSE, alive |-> TRUE]

Info(rec) == [user |-> rec.user, muted |-> rec.muted, screen |-> rec.screen]

Live == DOMAIN peer
Members(r) == IF r \in DOMAIN rooms THEN rooms[r] ELSE {}
Seat(p) == <<peerRooms[p], peer[p].user>>

\* The limit is tested against the room as it stands, stale peers included.
FullPastLimit(r) == r \in DOMAIN rooms /\ Cardinality(rooms[r]) > MaxRoomPeers
Full(r) == r \in DOMAIN rooms /\ Cardinality(rooms[r]) >= MaxRoomPeers

\* The id of the next peer; reusing one that is free would let an old task reach it.
NewId == nextPeer

\* Previous peers of the same identity in the same room.
StaleNone(u, r) == {}
Stale(u, r) == {q \in Members(r) : peer[q].user = u}

\* peer_rooms once the stale are out and the newcomer is in.
IndexKeepingStale(stale, id, r) == Insert(peerRooms, id, r)
Index(stale, id, r) == Insert(Without(peerRooms, stale), id, r)

\* What a newcomer is told of those already there.
RosterOfNames(S) == [s \in S |-> Info(NewPeer(peer[s].user))]
Roster(S) == [s \in S |-> Info(peer[s])]

\* toldSharing once a change of p's screen flag has been reported.
ScreenReported(p, active) ==
  IF active = peer[p].screen THEN toldSharing
  ELSE IF active THEN toldSharing \cup {Seat(p)} ELSE toldSharing \ {Seat(p)}

\* Rooms that lose their last member when the peers of D go.
Emptied(D) == {r \in DOMAIN rooms : rooms[r] \cap D # {} /\ rooms[r] \subseteq D}

\* What the host application takes to be over when the peers of D go: those
\* whose arrival had been reported, and whatever a finished room still held.
OverByName(D) == {Seat(p) : p \in {q \in D : peer[q].reported}}
Over(D) == OverByName(D) \cup (Emptied(D) \X Users)

\* The beliefs left once the room has been told that the peers of D are gone.
ForgetMembers(D) == [q \in DOMAIN view |-> Without(view[q], D)]
Forget(D) == [q \in DOMAIN view \ D |-> Without(view[q], D)]

-----------------------------------------------------------------------------
(* Commands, applied one at a time while the queue is drained              *)

Answered(u, r, code) == verdict' = [code |-> code, user |-> u, room |-> r]

\* A join beyond the limit is refused before the offer is looked at.
JoinFull(u, r) ==
  /\ phase = "drain"
  /\ Full(r)
  /\ Answered(u, r, "room_full")
  /\ UNCHANGED <<phase, nextPeer, tables, view, told>>

\* An offer that does not parse costs nothing; one that str0m refuses has
\* already taken an id.
JoinBadOffer(u, r) ==
  /\ phase = "drain"
  /\ ~Full(r)
  /\ \/ UNCHANGED nextPeer
     \/ nextPeer \in PeerIds /\ nextPeer' = nextPeer + 1
  /\ Answered(u, r, "bad_offer")
  /\ UNCHANGED <<phase, tables, view, told>>

\* The newcomer takes its seat; a previous peer of the same identity in the
\* same room is retired first, and no departure is reported for it.
JoinAdmit(u, r) ==
  LET id == NewId
      stale == Stale(u, r)
      stay == Members(r) \ stale
  IN  /\ phase = "drain"
      /\ nextPeer \in PeerIds
      /\ ~Full(r)
      /\ nextPeer' = nextPeer + 1
      /\ rooms' = Insert(rooms, r, stay \cup {id})
      /\ peerRooms' = Index(stale, id, r)
      /\ peer' = Insert(Without(peer, stale), id, NewPeer(u))
      /\ view' = [q \in (DOMAIN view \ stale) \cup {id} |->
                    IF q = id THEN Roster(stay)
                    ELSE IF q \in stay
                         THEN Insert(Without(view[q], stale), id, Info(NewPeer(u)))
                         ELSE view[q]]
      /\ Answered(u, r, "joined")
      /\ UNCHANGED <<phase, told>>

\* Application state of one peer, told to its room; a change of the screen
\* share is also told to the host application.
SetState(p, muted, screen) ==
  LET rec == [peer[p] EXCEPT !.muted = muted, !.screen = screen]
  IN  /\ phase = "drain"
      /\ p \in DOMAIN peerRooms
      /\ peer' = [peer EXCEPT ![p] = rec]
      /\ view' = [q \in DOMAIN view |-> [x \in DOMAIN view[q] |->
                    IF x = p THEN Info(rec) ELSE view[q][x]]]
      /\ toldSharing' = ScreenReported(p, screen)
      /\ verdict' = NoVerdict
      /\ UNCHANGED <<phase, nextPeer, rooms, peerRooms, toldPresent>>

Mute(p) == \E muted \in BOOLEAN : SetState(p, muted, peer[p].screen)
Screen(p) == \E active \in BOOLEAN : SetState(p, peer[p].muted, active)

\* drop_peer for every peer of D: a departure is reported only if the arrival
\* was, and a room that empties is closed.
Drop(D) ==
  /\ rooms' = [r \in DOMAIN rooms \ Emptied(D) |-> rooms[r] \ D]
  /\ peerRooms' = Without(peerRooms, D)
  /\ peer' = Without(peer, D)
  /\ view' = Forget(D)
  /\ toldPresent' = toldPresent \ Over(D)
  /\ toldSharing' = toldSharing \ Over(D)

Leave(p) ==
  /\ phase = "drain"
  /\ p \in DOMAIN peerRooms
  /\ Drop({p})
  /\ verdict' = NoVerdict
  /\ UNCHANGED <<phase, nextPeer>>

-----------------------------------------------------------------------------
(* The loop                                                                *)

Turn(from, to) == phase = from /\ phase' = to /\ verdict' = NoVerdict

\* The command queue is empty.
DrainDone ==
  /\ Turn("drain", "poll")
  /\ UNCHANGED <<nextPeer, tables, view, told>>

\* What one peer's transport may report while it is polled; a peer whose
\* transport is dead is not polled.
Polled(p, rec) ==
  /\ phase = "poll"
  /\ p \in Live
  /\ peer[p].alive
  /\ peer' = [peer EXCEPT ![p] = rec]
  /\ UNCHANGED <<phase, nextPeer, rooms, peerRooms, verdict, view, told>>

IceUp(p) == Polled(p, [peer[p] EXCEPT !.connected = TRUE, !.down = FALSE])
IceDown(p) == Polled(p, [peer[p] EXCEPT !.down = TRUE])
TransportFails(p) == Polled(p, [peer[p] EXCEPT !.alive = FALSE])

\* Every transport has asked for a timeout or is dead.
PollDone ==
  /\ Turn("poll", "report")
  /\ UNCHANGED <<nextPeer, tables, view, told>>

\* Every peer whose transport has come up since the last turn is announced.
ArrivedAndUp == {p \in Live : peer[p].connected /\ ~peer[p].down /\ ~peer[p].reported}
Arrived == {p \in Live : peer[p].connected /\ ~peer[p].reported}

ReportConnections ==
  /\ Turn("report", "reap")
  /\ peer' = [p \in Live |-> [peer[p] EXCEPT !.reported = @ \/ p \in Arrived]]
  /\ toldPresent' = toldPresent \cup {Seat(p) : p \in Arrived}
  /\ UNCHANGED <<nextPeer, rooms, peerRooms, view, toldSharing>>

\* Dead transports go, and so do the peers whose disconnection has outlasted
\* the grace period: any of those that are down.
DeadAndDown == {p \in Live : ~peer[p].alive /\ peer[p].down}
Dead == {p \in Live : ~peer[p].alive}

Reap ==
  /\ Turn("reap", "wait")
  /\ \E abandoned \in SUBSET {p \in Live : peer[p].down} : Drop(Dead \cup abandoned)
  /\ UNCHANGED nextPeer

\* One datagram, then the timers: input that a transport refuses kills it.
HandleInput ==
  /\ Turn("wait", "drain")
  /\ \E failed \in SUBSET Live :
        peer' = [p \in Live |-> [peer[p] EXCEPT !.alive = @ /\ p \notin failed]]
  /\ UNCHANGED <<nextPeer, rooms, peerRooms, view, told>>

\* A shutdown command, the last sender gone, or a socket that takes no timeout.
Stop ==
  /\ phase \in {"drain", "wait"}
  /\ phase' = "stopped"
  /\ verdict' = NoVerdict
  /\ UNCHANGED <<nextPeer, tables, view, told>>

-----------------------------------------------------------------------------
Init ==
  /\ phase = "drain"
  /\ nextPeer = 1
  /\ rooms = <<>>
  /\ peerRooms = <<>>
  /\ peer = <<>>
  /\ verdict = NoVerdict
  /\ view = <<>>
  /\ toldPresent = {}
  /\ toldSharing = {}

Join == \E u \in Users, r \in Rooms :
          JoinFull(u, r) \/ JoinBadOffer(u, r) \/ JoinAdmit(u, r)

Apply == Join \/ \E p \in PeerIds : Mute(p) \/ Screen(p) \/ Leave(p)

PollRooms == \E p \in PeerIds : IceUp(p) \/ IceDown(p) \/ TransportFails(p)

Loop == DrainDone \/ PollDone \/ ReportConnections \/ Reap \/ HandleInput

Next == Apply \/ PollRooms \/ Loop \/ Stop

Spec == Init /\ [][Next]_vars

\* The thread is never suspended for good, and both inner loops end: commands
\* do not arrive faster than they are drained for ever, and str0m eventually
\* asks for a timeout.
FairSpec == Spec /\ WF_vars(Loop)

-----------------------------------------------------------------------------
(* Safety                                                                  *)

TypeOK ==
  /\ phase \in Phases
  /\ nextPeer \in 1 .. MaxPeerId + 1
  /\ DOMAIN rooms \subseteq Rooms
  /\ rooms \in [DOMAIN rooms -> SUBSET PeerIds]
  /\ DOMAIN peer \subseteq PeerIds
  /\ peer \in [DOMAIN peer -> Peer]
  /\ DOMAIN peerRooms \subseteq PeerIds
  /\ peerRooms \in [DOMAIN peerRooms -> Rooms]
  /\ verdict \in Verdict
  /\ DOMAIN view = DOMAIN peer
  /\ \A p \in DOMAIN view : view[p] \in [DOMAIN view[p] -> PeerInfo]
  /\ toldPresent \subseteq Rooms \X Users
  /\ toldSharing \subseteq Rooms \X Users

\* The two tables of the engine (rooms and the reverse index peer_rooms) name
\* exactly the same seats after every command and every sweep, and every peer
\* sits in exactly one room: otherwise drop_peer and set_state would miss a
\* peer for good.
IndexAgrees ==
  /\ DOMAIN peerRooms = Live
  /\ \A r \in DOMAIN rooms : rooms[r] \subseteq Live
  /\ \A p \in Live : /\ peerRooms[p] \in DOMAIN rooms
                     /\ \A r \in DOMAIN rooms : p \in rooms[r] <=> r = peerRooms[p]

\* A room exists only while somebody is in it ("a stale room cannot linger"):
\* refused joins create none, replacing the only member keeps one, and every
\* way of leaving removes the last one.
NoEmptyRoom == \A r \in DOMAIN rooms : rooms[r] # {}

\* Reconnecting replaces, it does not duplicate: however joins, leaves and
\* sweeps interleave, an identity holds at most one seat of a room.
OneSeatPerUser ==
  \A p, q \in Live : Seat(p) = Seat(q) => p = q

\* No room ever holds more peers than configured, although the limit is tested
\* before the stale peer is retired and before the newcomer is seated.
CapacityKept == \A r \in DOMAIN rooms : Cardinality(rooms[r]) <= MaxRoomPeers

\* What every client believes about its room, from the roster in its join
\* reply and the joined/left/state broadcasts queued since, is the room as it
\* is: everybody else in it, with the mute and screen flags they have now.
RosterAgrees ==
  \A p \in Live :
    view[p] = [q \in rooms[peerRooms[p]] \ {p} |-> Info(peer[q])]

\* The host application never forgets somebody who is in a call: a peer whose
\* arrival was reported is present in its books, so no departure reported for
\* a replaced peer of the same identity erases the fresh arrival.
ArrivalsRemembered == \A p \in Live : peer[p].reported => Seat(p) \in toldPresent

\* The host application never misses a screen that is being shared.
SharersTold == \A p \in Live : peer[p].screen => Seat(p) \in toldSharing

\* room_finished closes the books: nothing is believed of a room that is gone.
ToldOnlyOpenRooms ==
  \A s \in toldPresent \cup toldSharing : s[1] \in DOMAIN rooms

\* Peer ids are "monotonic and never reused": an id that was assigned and is
\* no longer live never becomes live again, so a late command of a dead peer's
\* signaling task cannot reach anybody else.
IdsNeverReused ==
  [][\A p \in PeerIds : p < nextPeer /\ p \notin Live => p \notin DOMAIN peer']_vars

-----------------------------------------------------------------------------
(* Liveness, under FairSpec                                                *)

\* A peer whose transport has died is removed from its room.
DeadPeersLeave ==
  \A p \in PeerIds :
    (p \in Live /\ ~peer[p].alive) ~> (p \notin Live \/ phase = "stopped")

\* A transport that comes up is announced to the host application.
ArrivalsReported ==
  \A p \in PeerIds :
    (p \in Live /\ peer[p].connected)
      ~> (p \notin Live \/ peer[p].reported \/ phase = "stopped")

-----------------------------------------------------------------------------
(* What the documentation says and the code does not do                    *)

\* README.md: replacing a peer leaves "a host application keyed on identity"
\* unconfused, so whoever it believes present holds a seat.
NoGhostParticipant ==
  \A s \in toldPresent : \E p \in Live : Seat(p) = s

\* dispatch.rs: the screen flag is kept so "the host application learns who is
\* sharing", so whoever it believes sharing is.
SharingIsCurrent ==
  \A s \in toldSharing : \E p \in Live : Seat(p) = s /\ peer[p].screen

\* README.md: a second join from the same identity replaces the first, so it
\* is not refused for want of room.
RejoinNotRefused ==
  verdict.code = "room_full" =>
    \A p \in Live : Seat(p) # <<verdict.room, verdict.user>>
=============================================================================
