------------------------------- MODULE Report -------------------------------
(***************************************************************************)
(* The delivery of lifecycle reports to the host application               *)
(* (src/src/report.rs, and how main.rs starts and ends it).  The media     *)
(* loop queues a report and goes on; one task posts them, one at a time,   *)
(* and tries each a number of times before it drops it.  Nothing is kept   *)
(* across a restart: the next process announces sfu_started first.         *)
(*                                                                         *)
(* The host application is external.  It de-duplicates on the report's id, *)
(* as README.md tells it to.  A post may be handled and acknowledged,      *)
(* handled though the answer is lost, refused, or still be on its way when *)
(* the client's timeout strikes: then it may be handled at any later time, *)
(* until the next process starts, or never.  The wait between two tries    *)
(* has no state of its own.                                                *)
(*                                                                         *)
(* An arrival and a departure stand for every report that has an opposite: *)
(* participant_joined and track_published, participant_left,               *)
(* track_unpublished and room_finished.  They need not alternate: whoever  *)
(* reconnects is announced again, and a room may be finished none of whose *)
(* members ever was announced.                                             *)
(***************************************************************************)
EXTENDS Naturals, Sequences

CONSTANTS
  Subjects,   \* what a report may be about
  MaxReports  \* bound on the reports all processes make together

ASSUME ReportAssumption == MaxReports \in Nat \ {0}

VARIABLES
  up,       \* the process is running
  made,     \* how many reports were ever made: the id of the newest
  holds,    \* the subjects whose last report was of an arrival
  queue,    \* reports the task has not received yet
  current,  \* the report being posted and how often that failed, or Idle
  late,     \* timed-out posts the host may still handle
  seen,     \* ids the host has handled
  host,     \* the subjects the host application believes in
  dropped   \* reports this process gave up

process == <<up, made, holds, queue, current, dropped>>
hostSide == <<late, seen, host>>
vars == <<process, hostSide>>

Started == "sfu_started"
Event == {Started, "arrival", "departure"}
ReportEvent ==
  [id : 1 .. MaxReports, event : {"arrival", "departure"}, about : Subjects]
    \cup [id : 1 .. MaxReports, event : {Started}]

Idle == [tries |-> 0]

\* The boot announcement is retried harder than the rest.
AttemptsInclusive(report) == IF report.event = Started THEN 13 ELSE 4
Attempts(report) == IF report.event = Started THEN 12 ELSE 3

-----------------------------------------------------------------------------
(* The process                                                             *)

Queued(report) == made' = report.id /\ queue' = Append(queue, report)

\* Queueing never waits, whatever the host application is up to.
ReportArrival ==
  /\ up /\ made < MaxReports
  /\ \E s \in Subjects :
        /\ Queued([id |-> made + 1, event |-> "arrival", about |-> s])
        /\ holds' = holds \cup {s}
  /\ UNCHANGED <<up, current, dropped, hostSide>>

ReportDeparture ==
  /\ up /\ made < MaxReports
  /\ \E s \in Subjects :
        /\ Queued([id |-> made + 1, event |-> "departure", about |-> s])
        /\ holds' = holds \ {s}
  /\ UNCHANGED <<up, current, dropped, hostSide>>

Receive ==
  /\ up /\ current = Idle /\ queue # <<>>
  /\ current' = [tries |-> 0, report |-> Head(queue)]
  /\ queue' = Tail(queue)
  /\ UNCHANGED <<up, made, holds, dropped, hostSide>>

Posting == up /\ current # Idle

\* Shutdown or crash: the task goes wherever it is, and the queue with it.
Exit ==
  /\ up
  /\ up' = FALSE
  /\ holds' = {} /\ queue' = <<>> /\ current' = Idle
  /\ late' = IF Posting THEN late \cup {current.report} ELSE late
  /\ UNCHANGED <<made, dropped, seen, host>>

\* The next process says first that every room of the previous one is gone.
QueueEmptyAtBoot == <<>>
QueueAtBoot == <<[id |-> made + 1, event |-> Started]>>
Boot ==
  /\ ~up /\ made < MaxReports
  /\ up' = TRUE
  /\ made' = made + 1
  /\ queue' = QueueAtBoot
  /\ late' = {}
  /\ dropped' = {}
  /\ UNCHANGED <<holds, current, seen, host>>

-----------------------------------------------------------------------------
(* The host application                                                    *)

Believing(report) ==
  CASE report.event = Started -> {}
    [] report.event = "arrival" -> host \cup {report.about}
    [] report.event = "departure" -> host \ {report.about}

Handle(report) ==
  /\ seen' = seen \cup {report.id}
  /\ host' = IF report.id \in seen THEN host ELSE Believing(report)

HandleLate ==
  /\ \E report \in late : Handle(report) /\ late' = late \ {report}
  /\ UNCHANGED process

-----------------------------------------------------------------------------
(* One post and what comes of it                                           *)

\* One more try of the same report, or it is dropped.
Dropping(report) == current' = Idle /\ dropped' = dropped \cup {report} /\ UNCHANGED queue
RetryForever == UNCHANGED <<current, dropped, queue>>
RetryLater ==
  /\ current' = Idle
  /\ queue' = Append(queue, current.report)
  /\ UNCHANGED dropped
Retry ==
  \/ /\ current.tries + 1 < Attempts(current.report)
     /\ current' = [current EXCEPT !.tries = @ + 1]
     /\ UNCHANGED <<dropped, queue>>
  \/ /\ current.tries + 1 >= Attempts(current.report)
     /\ Dropping(current.report)

PostDelivered ==
  /\ Posting
  /\ Handle(current.report)
  /\ current' = Idle
  /\ UNCHANGED <<up, made, holds, queue, dropped, late>>

\* A status other than success, or no connection.
PostRefused ==
  /\ Posting
  /\ Retry
  /\ UNCHANGED <<up, made, holds, hostSide>>

PostUnheard ==
  /\ Posting
  /\ Handle(current.report)
  /\ Retry
  /\ UNCHANGED <<up, made, holds, late>>

PostTimesOut ==
  /\ Posting
  /\ late' = late \cup {current.report}
  /\ Retry
  /\ UNCHANGED <<up, made, holds, seen, host>>

-----------------------------------------------------------------------------
Init ==
  /\ up = TRUE
  /\ made = 1
  /\ holds = {}
  /\ queue = <<[id |-> 1, event |-> Started]>>
  /\ current = Idle
  /\ late = {} /\ seen = {} /\ dropped = {}
  /\ host \in SUBSET Subjects

Deliver == Receive \/ PostDelivered \/ PostRefused \/ PostUnheard \/ PostTimesOut

Next == ReportArrival \/ ReportDeparture \/ Deliver \/ HandleLate \/ Exit \/ Boot

Spec == Init /\ [][Next]_vars

\* The delivering task runs on the async runtime, which suspends nothing for
\* good, and a post ends within its timeout.
FairSpec == Spec /\ WF_vars(Deliver)

-----------------------------------------------------------------------------
(* Safety                                                                  *)

TypeOK ==
  /\ up \in BOOLEAN
  /\ made \in 1 .. MaxReports
  /\ holds \subseteq Subjects /\ host \subseteq Subjects
  /\ queue \in Seq(ReportEvent)
  /\ \/ current = Idle
     \/ /\ current \in [tries : 0 .. 11, report : ReportEvent]
        /\ current.report.event # Started => current.tries < 3
  /\ late \subseteq ReportEvent /\ dropped \subseteq ReportEvent
  /\ seen \subseteq 1 .. MaxReports

\* Posts that time out and are handled after their retry, answers that are
\* lost, and restarts that cut a report off do no harm: whenever everything
\* reported has been posted and nothing had to be dropped, the host application
\* believes exactly what the media loop told it.
CaughtUp == up /\ queue = <<>> /\ current = Idle /\ dropped = {}
BooksFollow == CaughtUp => host = holds

\* The host application learns of things in the order they happened: nothing
\* overtakes a report that is being retried, and only a report the SFU has given
\* up may turn up late.
InOrder ==
  [][\A id \in seen' \ seen :
       (\A earlier \in seen : earlier < id) \/ \E r \in dropped' : r.id = id]_vars

-----------------------------------------------------------------------------
(* Liveness, under FairSpec                                                *)

\* A report that will not go through never holds up those behind it: whatever
\* the host application does, each is posted and done with.
Waiting(id) ==
  \/ current # Idle /\ current.report.id = id
  \/ \E i \in DOMAIN queue : queue[i].id = id
ReportsSettle == \A id \in 1 .. MaxReports : Waiting(id) ~> ~Waiting(id)
=============================================================================
