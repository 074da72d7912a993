------------------------------ MODULE Delivery ------------------------------
(***************************************************************************)
(* What the delivery of reports promises, without tries, acknowledgements, *)
(* time-outs or ids kept by the host application.  Each report made is     *)
(* handled at most once, and in the order made.  One may be given up: then *)
(* it is handled later, out of turn, or never.  When the process ends, so  *)
(* is everything it had not delivered, but the report at the head may have *)
(* been on its way.  The next process starts by announcing itself, and     *)
(* nothing of the previous one is handled after that.                      *)
(***************************************************************************)
EXTENDS Naturals, Sequences

CONSTANTS
  Subjects,    \* what a report may be about
  MaxReports   \* bound on the reports all processes make together

VARIABLES
  running,  \* a process is there
  made,     \* how many reports were made
  truth,    \* the subjects whose last report was of an arrival
  ahead,    \* the reports the host application is still to handle, in order
  strays,   \* reports given up that it may still handle
  belief    \* the subjects it believes in

vars == <<running, made, truth, ahead, strays, belief>>

Started == "sfu_started"
Announcement(n) == [id |-> n, event |-> Started]

After(report, B) ==
  CASE report.event = Started -> {}
    [] report.event = "arrival" -> B \cup {report.about}
    [] report.event = "departure" -> B \ {report.about}

Init ==
  /\ running = TRUE
  /\ made = 1
  /\ truth = {}
  /\ ahead = <<Announcement(1)>>
  /\ strays = {}
  /\ belief \in SUBSET Subjects

\* A report is made of a subject that comes or goes; it may repeat the last.
Make(event, s) ==
  /\ running /\ made < MaxReports
  /\ made' = made + 1
  /\ ahead' = Append(ahead, [id |-> made + 1, event |-> event, about |-> s])
  /\ truth' = After([event |-> event, about |-> s], truth)
  /\ UNCHANGED <<running, strays, belief>>

Hear ==
  /\ ahead # <<>>
  /\ belief' = After(Head(ahead), belief)
  /\ ahead' = Tail(ahead)
  /\ UNCHANGED <<running, made, truth, strays>>

\* The first report may be lost, now or for good.
MayStray == strays' \in {strays, strays \cup {Head(ahead)}}

GiveUp ==
  /\ ahead # <<>>
  /\ ahead' = Tail(ahead)
  /\ MayStray
  /\ UNCHANGED <<running, made, truth, belief>>

HearStray ==
  /\ \E report \in strays :
        /\ belief' = After(report, belief)
        /\ strays' = strays \ {report}
  /\ UNCHANGED <<running, made, truth, ahead>>

End ==
  /\ running
  /\ running' = FALSE
  /\ truth' = {} /\ ahead' = <<>>
  /\ IF ahead = <<>> THEN UNCHANGED strays ELSE MayStray
  /\ UNCHANGED <<made, belief>>

Start ==
  /\ ~running /\ made < MaxReports
  /\ running' = TRUE
  /\ made' = made + 1
  /\ ahead' = <<Announcement(made + 1)>>
  /\ strays' = {}
  /\ UNCHANGED <<truth, belief>>

Next ==
  \/ \E event \in {"arrival", "departure"}, s \in Subjects : Make(event, s)
  \/ Hear \/ GiveUp \/ HearStray \/ End \/ Start

Spec == Init /\ [][Next]_vars
=============================================================================
