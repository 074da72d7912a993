----------------------------- MODULE Membership -----------------------------
(***************************************************************************)
(* What the SFU promises about who is in a call, without peers, ids,       *)
(* tables or the media loop.  An identity takes a seat of a room that has  *)
(* one free; once its media can flow the host application hears that it is *)
(* present; when identities go, the host application hears of some of      *)
(* them, and a room left empty is finished, which ends the presence of     *)
(* everybody it still held.                                                *)
(*                                                                         *)
(* A reconnection is not an event at this level: the same identity keeps   *)
(* the same seat.  Nor is every departure told: somebody whose own arrival *)
(* was never announced goes unannounced too.                               *)
(***************************************************************************)
EXTENDS Naturals, FiniteSets

CONSTANTS Users, Rooms, MaxRoomPeers

VARIABLES
  seated,   \* <<room, user>> pairs: who holds a seat
  present   \* <<room, user>> pairs: whom the host application believes present

vars == <<seated, present>>

Occupants(S, r) == {s \in S : s[1] = r}

Init == seated = {} /\ present = {}

Arrive(s) ==
  /\ s \notin seated
  /\ Cardinality(Occupants(seated, s[1])) < MaxRoomPeers
  /\ seated' = seated \cup {s}
  /\ UNCHANGED present

Announce(S) ==
  /\ S \subseteq seated
  /\ present' = present \cup S
  /\ UNCHANGED seated

Depart(S, announced) ==
  /\ S \subseteq seated
  /\ announced \subseteq S
  /\ seated' = seated \ S
  /\ present' = {s \in present \ announced : Occupants(seated', s[1]) # {}}

Next ==
  \/ \E s \in Rooms \X Users : Arrive(s)
  \/ \E S \in SUBSET seated : Announce(S)
  \/ \E S \in SUBSET seated : \E announced \in SUBSET S : Depart(S, announced)

Spec == Init /\ [][Next]_vars
=============================================================================
