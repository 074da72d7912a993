-------------------------- MODULE EngineMembership --------------------------
(***************************************************************************)
(* The media loop implements Membership: a seat is the room and identity   *)
(* of a live peer, and presence is what the host application has been told *)
(* by participant_joined, participant_left and room_finished.              *)
(***************************************************************************)
EXTENDS Engine

Seats == {Seat(p) : p \in Live}

M == INSTANCE Membership WITH seated <- Seats, present <- toldPresent

\* Every step of the loop is a step of the abstract call or changes neither
\* its seats nor the host application's books: a join that retires a stale
\* peer (handle_join) is invisible, one that does not finds a free seat, only
\* seated identities are announced (report_connections), and a sweep that
\* takes several peers at once (reap) finishes exactly the rooms it empties.
ImplementsMembership == M!Spec
=============================================================================
