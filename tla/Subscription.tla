---------------------------- MODULE Subscription ----------------------------
(***************************************************************************)
(* The life of a subscription, as one subscriber has it, without m-lines,  *)
(* maps, queues or positions in tracks_out.  A track that is published is  *)
(* wanted; the next offer takes everything that is wanted and still        *)
(* published, and everything that is heard of a publisher that is gone;    *)
(* nothing else is offered until that offer is settled; one accepted       *)
(* answer settles everything that is being negotiated, one that is         *)
(* rejected settles nothing.                                               *)
(*                                                                         *)
(* Publishers and subscriber come once and go once.                        *)
(***************************************************************************)

CONSTANTS Tracks

VARIABLES
  subscriber,  \* "new", "in" the room, or "out" of it
  track,       \* track -> "unborn", "published" or "gone"
  state,       \* track -> where its subscription is in its life
  offered      \* an offer is out

vars == <<subscriber, track, state, offered>>

Published == {t \in Tracks : track[t] = "published"}
In(s) == {t \in Tracks : state[t] = s}

Init ==
  /\ subscriber = "new"
  /\ track = [t \in Tracks |-> "unborn"]
  /\ state = [t \in Tracks |-> "none"]
  /\ offered = FALSE

Join ==
  /\ subscriber = "new" /\ subscriber' = "in"
  /\ state' = [t \in Tracks |-> IF t \in Published THEN "ToOpen" ELSE "none"]
  /\ UNCHANGED <<track, offered>>

Leave ==
  /\ subscriber = "in" /\ subscriber' = "out"
  /\ state' = [t \in Tracks |-> "none"]
  /\ offered' = FALSE
  /\ UNCHANGED track

\* A publisher takes the tracks along that it never got to publish.
Depart(S) ==
  /\ S \subseteq {t \in Tracks : track[t] # "gone"}
  /\ track' = [t \in Tracks |-> IF t \in S THEN "gone" ELSE track[t]]
  /\ UNCHANGED <<subscriber, state, offered>>

\* What an offer takes: all there is to open, all there is to stop.
Opening == In("ToOpen") \cap Published
Stopping == In("Open") \ Published
Taken == [t \in Tracks |-> IF t \in Opening THEN "Negotiating"
                           ELSE IF t \in Stopping THEN "NegotiatingStop" ELSE state[t]]

\* A turn of the loop: perhaps an offer, then tracks turn out to be published,
\* and some that are, in this turn or before, are wanted.
Turn(offering, S, W) ==
  /\ offering => subscriber = "in" /\ ~offered /\ Opening \cup Stopping # {}
  /\ offered' = (offered \/ offering)
  /\ S \subseteq {t \in Tracks : track[t] = "unborn"}
  /\ track' = [t \in Tracks |-> IF t \in S THEN "published" ELSE track[t]]
  /\ W \subseteq In("none") \cap (Published \cup S)
  /\ W # {} => subscriber = "in"
  /\ state' = [t \in Tracks |-> IF t \in W THEN "ToOpen"
                                ELSE IF offering THEN Taken[t] ELSE state[t]]
  /\ UNCHANGED subscriber

Accept ==
  /\ offered /\ offered' = FALSE
  /\ state' = [t \in Tracks |-> CASE state[t] = "Negotiating" -> "Open"
                                  [] state[t] = "NegotiatingStop" -> "none"
                                  [] OTHER -> state[t]]
  /\ UNCHANGED <<subscriber, track>>

Reject ==
  /\ offered /\ offered' = FALSE
  /\ UNCHANGED <<subscriber, track, state>>

Next ==
  \/ Join \/ Leave \/ Accept \/ Reject
  \/ \E S \in SUBSET Tracks : Depart(S)
  \/ \E offering \in BOOLEAN, S, W \in SUBSET Tracks : Turn(offering, S, W)

Spec == Init /\ [][Next]_vars
=============================================================================
