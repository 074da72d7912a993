---------------------------- MODULE ReportProofs ----------------------------
(***************************************************************************)
(* Proofs about the delivery of reports, for any subjects and any number   *)
(* of reports, restarts and failed posts.                                  *)
(***************************************************************************)
EXTENDS ReportDelivery, TLAPS, SequenceTheorems

Task == [tries : 0 .. 11, report : ReportEvent]

LEMMA Busy == \A n, r : [tries |-> n, report |-> r] # Idle
BY DEF Idle

LEMMA ReportFields ==
  ASSUME NEW r \in ReportEvent
  PROVE  /\ r.id \in 1 .. MaxReports
         /\ r.event \in Event
         /\ r.event # Started => r.about \in Subjects
BY DEF ReportEvent, Event, Started

LEMMA TypeInit == Init => TypeOK
<1> SUFFICES ASSUME Init PROVE TypeOK
  OBVIOUS
<1>1. [id |-> 1, event |-> Started] \in ReportEvent
  BY ReportAssumption DEF ReportEvent
<1> QED BY <1>1, ReportAssumption DEF Init, TypeOK, Idle

LEMMA RetryTyped ==
  ASSUME TypeOK, Posting, Retry
  PROVE  /\ \/ current' = Idle
            \/ /\ current' \in Task
               /\ current'.report.event # Started => current'.tries < 3
         /\ dropped' \subseteq ReportEvent
         /\ queue' = queue
<1>1. current \in Task
  BY DEF TypeOK, Posting, Task
<1>2. CASE /\ current.tries + 1 < Attempts(current.report)
           /\ current' = [current EXCEPT !.tries = @ + 1]
           /\ UNCHANGED <<dropped, queue>>
  <2>1. current'.tries = current.tries + 1 /\ current'.report = current.report
    BY <1>1, <1>2 DEF Task
  <2>2. /\ current.tries + 1 < 12
        /\ current.report.event # Started => current.tries + 1 < 3
    BY <1>1, <1>2 DEF Attempts, Task
  <2>3. current.tries + 1 \in 0 .. 11
    BY <1>1, <2>2 DEF Task
  <2>4. current' \in Task
    BY <1>1, <1>2, <2>3 DEF Task
  <2> QED BY <1>2, <2>1, <2>2, <2>4 DEF TypeOK
<1>3. CASE Dropping(current.report)
  BY <1>1, <1>3 DEF Dropping, Task, TypeOK
<1> QED BY <1>2, <1>3 DEF Retry

LEMMA HandleTyped ==
  ASSUME TypeOK, NEW r \in ReportEvent, Handle(r)
  PROVE  seen' \subseteq 1 .. MaxReports /\ host' \subseteq Subjects
<1>1. r.id \in 1 .. MaxReports
  BY ReportFields
<1>2. Believing(r) \subseteq Subjects
  BY ReportFields DEF Believing, TypeOK, Started, Event
<1> QED BY <1>1, <1>2 DEF Handle, TypeOK

LEMMA TypeStep == TypeOK /\ [Next]_vars => TypeOK'
<1> SUFFICES ASSUME TypeOK, [Next]_vars PROVE TypeOK'
  OBVIOUS
<1> USE ReportAssumption
<1>0. Posting => current \in Task /\ current.report \in ReportEvent
  BY DEF TypeOK, Posting, Task
<1>1. CASE ReportArrival
  <2>1. PICK s \in Subjects :
          /\ Queued([id |-> made + 1, event |-> "arrival", about |-> s])
          /\ holds' = holds \cup {s}
    BY <1>1 DEF ReportArrival
  <2>2. [id |-> made + 1, event |-> "arrival", about |-> s] \in ReportEvent
    BY <1>1 DEF ReportArrival, TypeOK, ReportEvent
  <2>3. queue' \in Seq(ReportEvent) /\ made' \in 1 .. MaxReports /\ holds' \subseteq Subjects
    BY <1>1, <2>1, <2>2 DEF Queued, TypeOK, ReportArrival
  <2> QED BY <1>1, <2>3 DEF TypeOK, ReportArrival, hostSide
<1>2. CASE ReportDeparture
  <2>1. PICK s \in Subjects :
          /\ Queued([id |-> made + 1, event |-> "departure", about |-> s])
          /\ holds' = holds \ {s}
    BY <1>2 DEF ReportDeparture
  <2>2. [id |-> made + 1, event |-> "departure", about |-> s] \in ReportEvent
    BY <1>2, <2>1 DEF ReportDeparture, TypeOK, ReportEvent
  <2>3. queue' \in Seq(ReportEvent) /\ made' \in 1 .. MaxReports /\ holds' \subseteq Subjects
    BY <1>2, <2>1, <2>2 DEF Queued, TypeOK, ReportDeparture
  <2> QED BY <1>2, <2>3 DEF TypeOK, ReportDeparture, hostSide
<1>3. CASE Receive
  <2>1. Head(queue) \in ReportEvent /\ queue' \in Seq(ReportEvent)
    BY <1>3 DEF Receive, TypeOK
  <2>2. current' \in Task /\ current'.tries = 0
    BY <1>3, <2>1 DEF Receive, Task
  <2> QED BY <1>3, <2>1, <2>2 DEF Receive, TypeOK, hostSide, Task
<1>4. CASE PostDelivered
  BY <1>0, <1>4, HandleTyped DEF PostDelivered, TypeOK, Idle
<1>5. CASE PostRefused
  BY <1>5, RetryTyped DEF PostRefused, TypeOK, hostSide, Task
<1>6. CASE PostUnheard
  BY <1>0, <1>6, RetryTyped, HandleTyped DEF PostUnheard, TypeOK, Task
<1>7. CASE PostTimesOut
  <2>1. late' \subseteq ReportEvent
    BY <1>0, <1>7 DEF PostTimesOut, TypeOK
  <2> QED BY <1>7, <2>1, RetryTyped DEF PostTimesOut, TypeOK, Task
<1>8. CASE HandleLate
  <2>1. PICK r \in late : Handle(r) /\ late' = late \ {r}
    BY <1>8 DEF HandleLate
  <2>2. seen' \subseteq 1 .. MaxReports /\ host' \subseteq Subjects
    BY <2>1, HandleTyped DEF TypeOK
  <2> QED BY <1>8, <2>1, <2>2 DEF HandleLate, process, TypeOK
<1>9. CASE Exit
  <2>1. late' \subseteq ReportEvent
    BY <1>0, <1>9 DEF Exit, TypeOK
  <2>2. <<>> \in Seq(ReportEvent) /\ {} \subseteq Subjects /\ FALSE \in BOOLEAN
    OBVIOUS
  <2>3. /\ up' = FALSE /\ holds' = {} /\ queue' = <<>> /\ current' = Idle
        /\ UNCHANGED <<made, dropped, seen, host>>
    BY <1>9 DEF Exit
  <2> QED BY <2>1, <2>2, <2>3 DEF TypeOK
<1>10. CASE Boot
  <2>1. [id |-> made + 1, event |-> Started] \in ReportEvent
    BY <1>10 DEF Boot, TypeOK, ReportEvent
  <2> QED BY <1>10, <2>1 DEF Boot, QueueAtBoot, TypeOK
<1>11. CASE UNCHANGED vars
  BY <1>11 DEF vars, process, hostSide, TypeOK
<1> QED BY <1>1, <1>2, <1>3, <1>4, <1>5, <1>6, <1>7, <1>8, <1>9, <1>10, <1>11
        DEF Next, Deliver

\* Queue, task and books keep their types; no report is tried more often than it
\* may be.
THEOREM ReportTyped == Spec => []TypeOK
BY TypeInit, TypeStep, PTL DEF Spec

-----------------------------------------------------------------------------
(* What comes of a try, and how the steps differ                           *)

\* The report that could not be posted is tried again, or given up for good.
LEMMA RetryKeeps ==
  ASSUME TypeOK, Posting, Retry
  PROVE  /\ queue' = queue
         /\ \/ current' # Idle /\ current'.report = current.report /\ dropped' = dropped
            \/ current' = Idle /\ dropped' = dropped \cup {current.report}
<1>1. current \in Task
  BY DEF TypeOK, Posting, Task
<1>2. CASE /\ current' = [current EXCEPT !.tries = @ + 1]
           /\ UNCHANGED <<dropped, queue>>
  <2>1. current' = [tries |-> current.tries + 1, report |-> current.report]
    BY <1>1, <1>2 DEF Task
  <2> QED BY <1>2, <2>1, Busy
<1>3. CASE Dropping(current.report)
  BY <1>3 DEF Dropping
<1> QED BY <1>2, <1>3 DEF Retry

\* The ids of reports that were handled or may be handled late.
Past == seen \cup {r.id : r \in late}

Queueing ==
  /\ \E r \in ReportEvent : r.id = made + 1 /\ Queued(r)
  /\ UNCHANGED <<up, current, seen, late>> /\ up
Settling ==
  /\ UNCHANGED <<up, made, holds, queue>>
  /\ Past' \subseteq Past \cup InHand /\ InHand' \subseteq InHand

LEMMA HandledPast ==
  ASSUME NEW r, Handle(r) PROVE seen' = seen \cup {r.id}
BY DEF Handle

LEMMA StepKinds ==
  ASSUME TypeOK, [Next]_vars
  PROVE  \/ Queueing \/ Receive \/ Settling
         \/ Exit /\ Past' \subseteq Past \cup InHand
         \/ Boot
<1>1. CASE ReportArrival
  <2>1. PICK s \in Subjects : Queued([id |-> made + 1, event |-> "arrival", about |-> s])
    BY <1>1 DEF ReportArrival
  <2>2. [id |-> made + 1, event |-> "arrival", about |-> s] \in ReportEvent
    BY <1>1, ReportAssumption DEF ReportArrival, TypeOK, ReportEvent
  <2> QED BY <1>1, <2>1, <2>2 DEF ReportArrival, Queueing, hostSide
<1>2. CASE ReportDeparture
  <2>1. PICK s \in Subjects : Queued([id |-> made + 1, event |-> "departure", about |-> s])
    BY <1>2 DEF ReportDeparture
  <2>2. [id |-> made + 1, event |-> "departure", about |-> s] \in ReportEvent
    BY <1>2, <2>1, ReportAssumption DEF ReportDeparture, TypeOK, ReportEvent
  <2> QED BY <1>2, <2>1, <2>2 DEF ReportDeparture, Queueing, hostSide
<1>3. ASSUME Posting, Retry PROVE InHand' \subseteq InHand /\ queue' = queue
  BY <1>3, RetryKeeps DEF InHand, Posting
<1>4. CASE PostDelivered
  <2>1. Past' \subseteq Past \cup InHand
    BY <1>4, HandledPast DEF PostDelivered, Posting, Past, InHand
  <2>2. InHand' = {}
    BY <1>4 DEF PostDelivered, InHand
  <2> QED BY <1>4, <2>1, <2>2 DEF PostDelivered, Settling
<1>5. CASE PostRefused
  <2>1. Past' = Past
    BY <1>5 DEF PostRefused, hostSide, Past
  <2> QED BY <1>3, <1>5, <2>1 DEF PostRefused, Settling, hostSide, Posting
<1>6. CASE PostUnheard
  <2>1. Past' \subseteq Past \cup InHand
    BY <1>6, HandledPast DEF PostUnheard, Posting, Past, InHand
  <2> QED BY <1>3, <1>6, <2>1 DEF PostUnheard, Settling, Posting
<1>7. CASE PostTimesOut
  <2>1. Past' \subseteq Past \cup InHand
    BY <1>7 DEF PostTimesOut, Posting, Past, InHand
  <2> QED BY <1>3, <1>7, <2>1 DEF PostTimesOut, Settling, Posting
<1>8. CASE HandleLate
  <2>1. Past' \subseteq Past
    BY <1>8, HandledPast DEF HandleLate, Past
  <2> QED BY <1>8, <2>1 DEF HandleLate, process, Settling, InHand
<1>9. CASE Exit
  <2>1. Past' \subseteq Past \cup InHand
    BY <1>9 DEF Exit, Past, InHand, Posting
  <2> QED BY <1>9, <2>1
<1>10. CASE UNCHANGED vars
  BY <1>10 DEF vars, process, hostSide, Settling, Past, InHand
<1> QED BY <1>1, <1>2, <1>4, <1>5, <1>6, <1>7, <1>8, <1>9, <1>10 DEF Next, Deliver

-----------------------------------------------------------------------------
(* Ids follow the queue                                                    *)

\* Nothing handled or still on its way is newer than the report in hand, the
\* queue is newer than both, and its own ids ascend.
Ascends(q, top) ==
  \A i \in 1 .. Len(q) :
    /\ q[i].id <= top
    /\ \A j \in 1 .. i - 1 : q[j].id < q[i].id
Order ==
  /\ \A id \in Past \cup InHand : id <= made
  /\ \A id \in Past, current_id \in InHand : id <= current_id
  /\ \A i \in 1 .. Len(queue), id \in Past \cup InHand : id < queue[i].id
  /\ Ascends(queue, made)
  /\ ~up => holds = {} /\ queue = <<>> /\ current = Idle

LEMMA IdsTyped ==
  ASSUME TypeOK
  PROVE  /\ Past \cup InHand \subseteq Nat
         /\ \A i \in 1 .. Len(queue) : queue[i] \in ReportEvent /\ queue[i].id \in Nat
         /\ made \in Nat /\ Len(queue) \in Nat
<1>1. \A i \in 1 .. Len(queue) : queue[i] \in ReportEvent
  BY DEF TypeOK
<1>2. current # Idle => current.report \in ReportEvent
  BY DEF TypeOK
<1>3. \A r \in ReportEvent : r.id \in Nat
  BY ReportFields, ReportAssumption
<1>4. \A r \in late : r.id \in Nat
  BY <1>3 DEF TypeOK
<1>5. seen \subseteq Nat /\ made \in Nat /\ Len(queue) \in Nat
  BY ReportAssumption DEF TypeOK
<1> QED BY <1>1, <1>2, <1>3, <1>4, <1>5 DEF Past, InHand

LEMMA OrderInit == Init => Order
<1> SUFFICES ASSUME Init PROVE Order
  OBVIOUS
<1>1. Past = {} /\ InHand = {}
  BY DEF Init, Past, InHand
<1>2. Len(queue) = 1 /\ queue[1].id = 1 /\ made = 1 /\ up
  BY DEF Init
<1> QED BY <1>1, <1>2 DEF Order, Ascends

LEMMA QueueingOrder == TypeOK /\ Order /\ Queueing => Order'
<1> SUFFICES ASSUME TypeOK, Order, Queueing PROVE Order'
  OBVIOUS
<1>1. PICK r \in ReportEvent : /\ r.id = made + 1 /\ made' = r.id
                               /\ queue' = Append(queue, r)
  BY DEF Queueing, Queued
<1>2. /\ Len(queue') = Len(queue) + 1
      /\ \A i \in 1 .. Len(queue) : queue'[i] = queue[i]
      /\ queue'[Len(queue) + 1] = r
  BY <1>1, AppendProperties DEF TypeOK
<1>3. Past' = Past /\ InHand' = InHand /\ up' /\ made' = made + 1
  BY <1>1 DEF Queueing, Past, InHand
<1>4. \A id \in Past \cup InHand : id <= made'
  BY <1>3, IdsTyped DEF Order
<1>5. ASSUME NEW i \in 1 .. Len(queue')
      PROVE  /\ queue'[i].id <= made'
             /\ \A j \in 1 .. i - 1 : queue'[j].id < queue'[i].id
             /\ \A id \in Past \cup InHand : id < queue'[i].id
  <2>1. CASE i \in 1 .. Len(queue)
    <3>1. queue'[i] = queue[i] /\ \A j \in 1 .. i - 1 : queue'[j] = queue[j]
      BY <1>2, <2>1, IdsTyped
    <3>2. queue[i].id <= made /\ queue[i].id \in Nat /\ made \in Nat
      BY <2>1, IdsTyped DEF Order, Ascends
    <3>3. \A j \in 1 .. i - 1 : queue[j].id < queue[i].id
      BY <2>1 DEF Order, Ascends
    <3>4. \A id \in Past \cup InHand : id < queue[i].id
      BY <2>1 DEF Order
    <3> QED BY <1>3, <3>1, <3>2, <3>3, <3>4
  <2>2. CASE i = Len(queue) + 1
    <3>1. queue'[i].id = made + 1 /\ \A j \in 1 .. i - 1 : queue'[j] = queue[j]
      BY <1>1, <1>2, <2>2, IdsTyped
    <3>2. \A j \in 1 .. i - 1 : queue[j].id \in Nat /\ queue[j].id <= made
      BY <2>2, IdsTyped DEF Order, Ascends
    <3>3. \A id \in Past \cup InHand : id \in Nat /\ id <= made
      BY IdsTyped DEF Order
    <3>4. made \in Nat /\ made' = made + 1
      BY <1>3, IdsTyped
    <3>5. \A j \in 1 .. i - 1 : queue'[j].id < made + 1
      BY <3>1, <3>2, <3>4
    <3>6. \A id \in Past \cup InHand : id < made + 1
      BY <3>3, <3>4
    <3> QED BY <3>1, <3>4, <3>5, <3>6
  <2> QED BY <1>2, <1>5, <2>1, <2>2, IdsTyped
<1> QED BY <1>3, <1>4, <1>5 DEF Order, Ascends

LEMMA ReceiveOrder == TypeOK /\ Order /\ Receive => Order'
<1> SUFFICES ASSUME TypeOK, Order, Receive PROVE Order'
  OBVIOUS
<1>1. /\ up' = up /\ up /\ made' = made /\ Past' = Past /\ InHand = {}
      /\ queue # <<>> /\ queue' = Tail(queue)
      /\ current' = [tries |-> 0, report |-> Head(queue)]
  BY DEF Receive, hostSide, Past, InHand
<1>2. /\ Len(queue) > 0 /\ Head(queue) = queue[1]
      /\ Len(queue') = Len(queue) - 1
      /\ \A i \in 1 .. Len(queue') : queue'[i] = queue[i + 1]
  <2>1. Len(queue) \in Nat /\ Len(queue) # 0
    BY <1>1, EmptySeq DEF TypeOK
  <2> QED BY <1>1, <2>1, HeadTailProperties DEF TypeOK
<1>3. InHand' = {queue[1].id}
  BY <1>1, <1>2, Busy DEF InHand
<1>4. queue[1].id <= made /\ \A id \in Past : id \in Nat /\ id < queue[1].id
  BY <1>2, IdsTyped DEF Order, Ascends
<1>5. ASSUME NEW i \in 1 .. Len(queue')
      PROVE  /\ queue'[i].id <= made'
             /\ \A j \in 1 .. i - 1 : queue'[j].id < queue'[i].id
             /\ \A id \in Past \cup {queue[1].id} : id < queue'[i].id
  <2>1. /\ i + 1 \in 2 .. Len(queue) /\ queue'[i] = queue[i + 1]
        /\ \A j \in 1 .. i - 1 : j + 1 \in 1 .. i /\ queue'[j] = queue[j + 1]
    BY <1>2, IdsTyped
  <2>2. /\ queue[i + 1].id <= made
        /\ \A j \in 1 .. i : queue[j].id < queue[i + 1].id
        /\ \A id \in Past : id < queue[i + 1].id
    BY <2>1, IdsTyped DEF Order, Ascends
  <2> QED BY <1>1, <2>1, <2>2
<1>6. \A id \in Past \cup {queue[1].id} : id <= made /\ id <= queue[1].id
  BY <1>2, <1>4, IdsTyped DEF Order
<1> QED BY <1>1, <1>3, <1>5, <1>6 DEF Order, Ascends

LEMMA OrderStep == TypeOK /\ Order /\ [Next]_vars => Order'
<1> SUFFICES ASSUME TypeOK, Order, [Next]_vars PROVE Order'
  OBVIOUS
<1>1. CASE Settling
  <2>1. current = Idle => current' = Idle
    BY <1>1 DEF Settling, InHand
  <2>2. \A id \in Past', current_id \in InHand' : id <= current_id
    BY <1>1, IdsTyped DEF Settling, Order, InHand
  <2> QED BY <1>1, <2>1, <2>2 DEF Settling, Order, Ascends
<1>2. CASE Exit /\ Past' \subseteq Past \cup InHand
  <2>1. InHand' = {} /\ queue' = <<>> /\ made' = made /\ holds' = {} /\ current' = Idle
    BY <1>2 DEF Exit, InHand
  <2> QED BY <1>2, <2>1 DEF Order, Ascends
<1>3. CASE Boot
  <2>1. /\ current = Idle /\ current' = Idle /\ up' /\ made' = made + 1
        /\ queue' = <<[id |-> made + 1, event |-> Started]>>
    BY <1>3 DEF Boot, QueueAtBoot, Order
  <2>2. InHand' = {} /\ Past' \subseteq Past
    BY <1>3, <2>1 DEF Boot, InHand, Past
  <2>3. Len(queue') = 1 /\ queue'[1].id = made + 1
    BY <2>1
  <2>4. \A id \in Past' : id \in Nat /\ id <= made
    BY <2>2, IdsTyped DEF Order
  <2> QED BY <2>1, <2>2, <2>3, <2>4, IdsTyped DEF Order, Ascends
<1> QED BY <1>1, <1>2, <1>3, StepKinds, QueueingOrder, ReceiveOrder

-----------------------------------------------------------------------------
(* Late posts                                                              *)

\* The report that was in hand last: nothing handled or on its way is newer.
Newest(r) ==
  /\ \A id \in Past : id <= r.id
  /\ up => current # Idle /\ r = current.report

\* A post that may still be handled repeats one that was, or is of a report given
\* up, or of the report in hand.
LateSettled == \A r \in late : r.id \in seen \/ r \in dropped \/ Newest(r)

LEMMA InHandIsNewest ==
  ASSUME Order, Posting PROVE Newest(current.report)
BY DEF Order, Posting, Newest, InHand

LEMMA LateStep == TypeOK /\ Order /\ LateSettled /\ [Next]_vars => LateSettled'
<1> SUFFICES ASSUME TypeOK, Order, LateSettled, [Next]_vars PROVE LateSettled'
  OBVIOUS
<1>1. CASE UNCHANGED <<late, seen, dropped, up, current>>
  BY <1>1 DEF LateSettled, Newest, Past
<1>2. CASE Receive
  <2>1. \A r \in late : r.id \in seen \/ r \in dropped
    BY <1>2 DEF LateSettled, Newest, Receive
  <2> QED BY <1>2, <2>1 DEF Receive, hostSide, LateSettled
<1>3. CASE PostDelivered
  <2>1. seen' = seen \cup {current.report.id} /\ late' = late /\ dropped' = dropped /\ up
    BY <1>3, HandledPast DEF PostDelivered, Posting
  <2> QED BY <2>1 DEF LateSettled, Newest
<1>4. CASE PostRefused
  <2>1. UNCHANGED <<late, seen, up>> /\ Past' = Past /\ Posting /\ Retry
    BY <1>4 DEF PostRefused, hostSide, Past
  <2>2. \A r \in late : Newest(r) => r \in dropped' \/ Newest(r)'
    BY <2>1, RetryKeeps DEF Newest, Posting
  <2>3. dropped \subseteq dropped'
    BY <2>1, RetryKeeps
  <2> QED BY <2>1, <2>2, <2>3 DEF LateSettled
<1>5. CASE PostUnheard
  <2>1. seen' = seen \cup {current.report.id} /\ late' = late /\ Posting /\ Retry
    BY <1>5, HandledPast DEF PostUnheard
  <2>2. dropped \subseteq dropped'
    BY <2>1, RetryKeeps
  <2> QED BY <2>1, <2>2 DEF LateSettled, Newest, Posting
<1>6. CASE PostTimesOut
  <2>1. /\ UNCHANGED <<seen, up>> /\ late' = late \cup {current.report}
        /\ Posting /\ Retry
    BY <1>6 DEF PostTimesOut
  <2>2. Past' \subseteq Past \cup {current.report.id}
    BY <2>1 DEF Past
  <2>3. InHand = {current.report.id} /\ current.report.id \in Nat
    BY <2>1, IdsTyped DEF InHand, Posting
  <2>4. \A id \in Past' : id <= current.report.id
    BY <2>2, <2>3 DEF Order
  <2>5. \A r \in late' : r = current.report => r \in dropped' \/ Newest(r)'
    BY <2>1, <2>4, RetryKeeps DEF Newest, Posting
  <2>6. \A r \in late' : r.id \in seen \/ r \in dropped \/ r = current.report
    BY <2>1 DEF LateSettled, Newest, Posting
  <2>7. dropped \subseteq dropped'
    BY <2>1, RetryKeeps
  <2> QED BY <2>1, <2>5, <2>6, <2>7 DEF LateSettled
<1>7. CASE HandleLate
  <2>1. PICK q \in late : seen' = seen \cup {q.id} /\ late' = late \ {q}
    BY <1>7, HandledPast DEF HandleLate
  <2>2. Past' \subseteq Past /\ UNCHANGED <<up, current, dropped>>
    BY <1>7, <2>1 DEF Past, HandleLate, process
  <2> QED BY <2>1, <2>2 DEF LateSettled, Newest
<1>8. CASE Exit
  <2>1. /\ up /\ ~up' /\ UNCHANGED <<seen, dropped>>
        /\ late' = late \cup (IF Posting THEN {current.report} ELSE {})
    BY <1>8 DEF Exit
  <2>2. Past' \subseteq Past \cup InHand
    BY <2>1 DEF Past, InHand, Posting
  <2>3. ASSUME NEW r \in late', r.id \notin seen, r \notin dropped
        PROVE  \A id \in Past' : id <= r.id
    <3>1. current # Idle /\ r = current.report
      BY <2>1, <2>3 DEF LateSettled, Newest, Posting
    <3>2. InHand = {r.id} /\ r.id \in Nat
      BY <3>1, IdsTyped DEF InHand
    <3> QED BY <2>2, <3>2 DEF Order
  <2> QED BY <2>1, <2>3 DEF LateSettled, Newest
<1>9. CASE Boot
  BY <1>9 DEF Boot, LateSettled
<1> QED BY <1>1, <1>2, <1>3, <1>4, <1>5, <1>6, <1>7, <1>8, <1>9
        DEF Next, Deliver, ReportArrival, ReportDeparture, hostSide, vars, process

Inv == TypeOK /\ Order /\ LateSettled

LEMMA Invariance == Spec => []Inv
<1>1. Init => Inv
  BY TypeInit, OrderInit DEF Inv, LateSettled, Init
<1>2. Inv /\ [Next]_vars => Inv'
  BY TypeStep, OrderStep, LateStep DEF Inv
<1> QED BY <1>1, <1>2, PTL DEF Spec

LEMMA HandledInOrder ==
  ASSUME Inv, [Next]_vars, NEW id \in seen' \ seen
  PROVE  (\A earlier \in seen : earlier < id) \/ \E r \in dropped' : r.id = id
<1> USE DEF Inv
<1>0. ASSUME NEW r, Newest(r), r.id = id PROVE \A earlier \in seen : earlier < id
  <2>1. \A earlier \in seen : earlier <= id /\ earlier # id
    BY <1>0 DEF Newest, Past
  <2>2. id \in Nat /\ seen \subseteq Nat
    BY TypeStep, ReportAssumption DEF TypeOK
  <2> QED BY <2>1, <2>2
<1>1. CASE PostDelivered \/ PostUnheard
  <2>1. Posting /\ id = current.report.id
    BY <1>1, HandledPast DEF PostDelivered, PostUnheard
  <2> QED BY <1>0, <2>1, InHandIsNewest
<1>2. CASE HandleLate
  <2>1. PICK r \in late : id = r.id /\ dropped' = dropped
    BY <1>2, HandledPast DEF HandleLate, process
  <2>2. r \in dropped \/ Newest(r)
    BY <2>1 DEF LateSettled
  <2> QED BY <1>0, <2>1, <2>2
<1> QED BY <1>1, <1>2 DEF Next, Deliver, ReportArrival, ReportDeparture, hostSide, vars, process,
           Receive, PostRefused, PostTimesOut, Exit, Boot

\* Whatever is lost, late or tried again, and across restarts: a report the host
\* application has not handled before is newer than all it has, or was given up.
THEOREM HandledInTurn == Spec => InOrder
<1>1. Inv /\ [Next]_vars
        => [\A id \in seen' \ seen :
              (\A earlier \in seen : earlier < id) \/ \E r \in dropped' : r.id = id]_vars
  BY HandledInOrder
<1> QED BY <1>1, Invariance, PTL DEF InOrder, Spec

-----------------------------------------------------------------------------
(* The host application's books                                            *)

Concerns(r, s) == r.event = Started \/ (r.event # Started /\ r.about = s)
Says(r) == r.event = "arrival"
Unqueued(s) == \A i \in 1 .. Len(queue) : ~Concerns(queue[i], s)
Posted(s) == current # Idle /\ Concerns(current.report, s)

\* The last report of the queue that concerns s says what the loop holds of it;
\* failing that the report in hand does, and failing that the host application
\* believes it already, unless a report was given up.  A report in hand that was
\* handled before its answer was lost is believed.
QueueTells(s) ==
  \A i \in 1 .. Len(queue) :
    Concerns(queue[i], s) /\ (\A j \in i + 1 .. Len(queue) : ~Concerns(queue[j], s))
      => (s \in holds <=> Says(queue[i]))
HandTells(s) == Unqueued(s) /\ Posted(s) => (s \in holds <=> Says(current.report))
HostKnows(s) == Unqueued(s) /\ ~Posted(s) => (s \in host <=> s \in holds)
HostHeard(s) ==
  Posted(s) /\ current.report.id \in seen => (s \in host <=> Says(current.report))
BooksAgree ==
  up => \A s \in Subjects :
          /\ QueueTells(s) /\ HandTells(s)
          /\ dropped = {} => HostKnows(s) /\ HostHeard(s)

LEMMA BooksInit == Init => BooksAgree
<1> SUFFICES ASSUME Init, NEW s \in Subjects
             PROVE  /\ QueueTells(s) /\ HandTells(s)
                    /\ HostKnows(s) /\ HostHeard(s)
  BY DEF BooksAgree
<1>1. /\ Len(queue) = 1 /\ queue[1].event = Started /\ holds = {} /\ current = Idle
  BY DEF Init
<1>2. Concerns(queue[1], s) /\ ~Says(queue[1])
  BY <1>1 DEF Concerns, Says, Started
<1> QED BY <1>1, <1>2 DEF QueueTells, HandTells, HostKnows, HostHeard, Unqueued, Posted

LEMMA HandleTells ==
  ASSUME TypeOK, NEW r \in ReportEvent, Handle(r), NEW s \in Subjects
  PROVE  /\ ~Concerns(r, s) => (s \in host' <=> s \in host)
         /\ Concerns(r, s) /\ r.id \notin seen => (s \in host' <=> Says(r))
         /\ r.id \in seen => host' = host
<1>1. r.id \in seen => host' = host
  BY DEF Handle
<1>2. CASE r.event = Started
  BY <1>1, <1>2 DEF Handle, Believing, Concerns, Says, Started
<1>3. CASE r.event = "arrival"
  BY <1>1, <1>3 DEF Handle, Believing, Concerns, Says, Started
<1>4. CASE r.event = "departure"
  BY <1>1, <1>4 DEF Handle, Believing, Concerns, Says, Started
<1> QED BY <1>2, <1>3, <1>4, ReportFields DEF Event

\* A report joins the queue and changes what is held of its own subject alone.
LEMMA QueueingBooks ==
  ASSUME TypeOK, BooksAgree, up, up', NEW r \in ReportEvent, r.event # Started,
         queue' = Append(queue, r),
         UNCHANGED <<current, seen, host, dropped>>,
         r.about \in holds' <=> Says(r),
         \A s \in Subjects : s # r.about => (s \in holds' <=> s \in holds)
  PROVE  BooksAgree'
<1> SUFFICES ASSUME NEW s \in Subjects
             PROVE  /\ QueueTells(s)' /\ HandTells(s)'
                    /\ dropped = {} => HostKnows(s)' /\ HostHeard(s)'
  BY DEF BooksAgree
<1>1. /\ Len(queue) \in Nat
      /\ Len(queue') = Len(queue) + 1
      /\ \A i \in 1 .. Len(queue) : queue'[i] = queue[i]
      /\ queue'[Len(queue) + 1] = r
  BY AppendProperties DEF TypeOK
<1>2. Posted(s)' = Posted(s)
  BY DEF Posted
<1>3. CASE s = r.about
  <2>1. Concerns(r, s)
    BY <1>3 DEF Concerns
  <2>2. Len(queue) + 1 \in 1 .. Len(queue') /\ ~Unqueued(s)'
    BY <1>1, <2>1 DEF Unqueued
  <2>3. QueueTells(s)'
    <3> SUFFICES ASSUME NEW i \in 1 .. Len(queue'),
                        \A j \in i + 1 .. Len(queue') : ~Concerns(queue'[j], s)
                 PROVE  s \in holds' <=> Says(queue'[i])
      BY DEF QueueTells
    <3>1. i = Len(queue) + 1
      BY <1>1, <2>1
    <3> QED BY <1>1, <1>3, <3>1
  <2>4. HostHeard(s)' <=> HostHeard(s)
    BY <1>2 DEF HostHeard
  <2> QED BY <2>2, <2>3, <2>4 DEF HandTells, HostKnows, BooksAgree
<1>4. CASE s # r.about
  <2>1. ~Concerns(r, s) /\ (s \in holds' <=> s \in holds)
    BY <1>4 DEF Concerns
  <2>2. Unqueued(s)' => Unqueued(s)
    BY <1>1 DEF Unqueued
  <2>3. QueueTells(s)'
    <3> SUFFICES ASSUME NEW i \in 1 .. Len(queue'), Concerns(queue'[i], s),
                        \A j \in i + 1 .. Len(queue') : ~Concerns(queue'[j], s)
                 PROVE  s \in holds' <=> Says(queue'[i])
      BY DEF QueueTells
    <3>1. i \in 1 .. Len(queue) /\ queue'[i] = queue[i]
      BY <1>1, <2>1
    <3>2. \A j \in i + 1 .. Len(queue) : ~Concerns(queue[j], s)
      BY <1>1, <3>1
    <3> QED BY <2>1, <3>1, <3>2 DEF BooksAgree, QueueTells
  <2>4. HandTells(s)'
    BY <1>2, <2>1, <2>2 DEF HandTells, BooksAgree
  <2>5. dropped = {} => HostKnows(s)' /\ HostHeard(s)'
    BY <1>2, <2>1, <2>2 DEF HostKnows, HostHeard, BooksAgree
  <2> QED BY <2>3, <2>4, <2>5
<1> QED BY <1>3, <1>4

LEMMA ReceiveBooks == TypeOK /\ Order /\ BooksAgree /\ Receive => BooksAgree'
<1> SUFFICES ASSUME TypeOK, Order, BooksAgree, Receive, NEW s \in Subjects
             PROVE  /\ QueueTells(s)' /\ HandTells(s)'
                    /\ dropped = {} => HostKnows(s)' /\ HostHeard(s)'
  BY DEF BooksAgree, Receive
<1>1. /\ up /\ UNCHANGED <<holds, host, seen>> /\ current = Idle
      /\ queue # <<>> /\ queue' = Tail(queue)
      /\ current' = [tries |-> 0, report |-> Head(queue)]
  BY DEF Receive, hostSide
<1>2. /\ Len(queue) \in Nat /\ Len(queue) > 0 /\ Head(queue) = queue[1]
      /\ Len(queue') = Len(queue) - 1
      /\ \A i \in 1 .. Len(queue') : queue'[i] = queue[i + 1]
  <2>1. Len(queue) \in Nat /\ Len(queue) # 0
    BY <1>1, EmptySeq DEF TypeOK
  <2> QED BY <1>1, <2>1, HeadTailProperties DEF TypeOK
<1>3. current' # Idle /\ current'.report = queue[1] /\ ~Posted(s)
  BY <1>1, <1>2, Busy DEF Posted
<1>4. Posted(s)' <=> Concerns(queue[1], s)
  BY <1>3 DEF Posted
<1>5. \A i \in 2 .. Len(queue) : i - 1 \in 1 .. Len(queue') /\ queue'[i - 1] = queue[i]
  BY <1>2
<1>6. Unqueued(s)' => \A i \in 2 .. Len(queue) : ~Concerns(queue[i], s)
  BY <1>5 DEF Unqueued
<1>7. QueueTells(s)'
  <2> SUFFICES ASSUME NEW i \in 1 .. Len(queue'), Concerns(queue'[i], s),
                      \A j \in i + 1 .. Len(queue') : ~Concerns(queue'[j], s)
               PROVE  s \in holds <=> Says(queue'[i])
    BY <1>1 DEF QueueTells
  <2>1. i + 1 \in 1 .. Len(queue) /\ queue'[i] = queue[i + 1]
    BY <1>2
  <2>2. ASSUME NEW j \in i + 2 .. Len(queue) PROVE ~Concerns(queue[j], s)
    <3>1. j - 1 \in i + 1 .. Len(queue') /\ queue'[j - 1] = queue[j]
      BY <1>2, <1>5, <2>2
    <3> QED BY <3>1
  <2>3. QueueTells(s)
    BY <1>1 DEF BooksAgree
  <2> QED BY <2>1, <2>2, <2>3 DEF QueueTells
<1>8. HandTells(s)'
  <2> SUFFICES ASSUME Unqueued(s)', Concerns(queue[1], s)
               PROVE  s \in holds <=> Says(queue[1])
    BY <1>1, <1>3, <1>4 DEF HandTells
  <2>1. 1 \in 1 .. Len(queue) /\ \A j \in 1 + 1 .. Len(queue) : ~Concerns(queue[j], s)
    BY <1>2, <1>6
  <2>2. QueueTells(s)
    BY <1>1 DEF BooksAgree
  <2> QED BY <2>1, <2>2 DEF QueueTells
<1>9. dropped = {} => HostKnows(s)'
  <2> SUFFICES ASSUME dropped = {}, Unqueued(s)', ~Concerns(queue[1], s)
               PROVE  s \in host <=> s \in holds
    BY <1>1, <1>4 DEF HostKnows
  <2>1. Unqueued(s)
    BY <1>2, <1>6 DEF Unqueued
  <2> QED BY <1>1, <1>3, <2>1 DEF HostKnows, BooksAgree
<1>10. HostHeard(s)'
  <2>1. queue[1].id \notin seen
    BY <1>2, IdsTyped DEF Order, Past
  <2> QED BY <1>1, <1>3, <2>1 DEF HostHeard
<1> QED BY <1>7, <1>8, <1>9, <1>10

\* A post that reached the host application, whether or not that is known.
LEMMA PostedBooks ==
  ASSUME TypeOK, BooksAgree, Posting, Handle(current.report),
         UNCHANGED <<up, holds, queue>>, dropped \subseteq dropped',
         current' = Idle \/ (current' # Idle /\ current'.report = current.report)
  PROVE  BooksAgree'
<1> SUFFICES ASSUME NEW s \in Subjects
             PROVE  /\ QueueTells(s)' /\ HandTells(s)'
                    /\ dropped' = {} => HostKnows(s)' /\ HostHeard(s)'
  BY DEF BooksAgree
<1>1. /\ QueueTells(s) /\ HandTells(s)
      /\ dropped' = {} => HostKnows(s) /\ HostHeard(s)
  BY DEF BooksAgree, Posting
<1>2. /\ ~Posted(s) => (s \in host' <=> s \in host)
      /\ dropped' = {} /\ Posted(s) => (s \in host' <=> Says(current.report))
  <2>1. current.report \in ReportEvent
    BY DEF TypeOK, Posting
  <2> QED BY <1>1, <2>1, HandleTells DEF Posted, Posting, HostHeard
<1>3. Unqueued(s)' = Unqueued(s)
  BY DEF Unqueued
<1>4. Posted(s)' => Posted(s) /\ current'.report = current.report
  BY DEF Posted, Posting
<1>5. QueueTells(s)' /\ HandTells(s)'
  BY <1>1, <1>3, <1>4 DEF QueueTells, HandTells
<1>6. dropped' = {} => HostKnows(s)' /\ HostHeard(s)'
  <2> SUFFICES ASSUME dropped' = {} PROVE HostKnows(s)' /\ HostHeard(s)'
    OBVIOUS
  <2>1. HostKnows(s)'
    <3> SUFFICES ASSUME Unqueued(s), ~Posted(s)' PROVE s \in host' <=> s \in holds
      BY <1>3 DEF HostKnows
    <3>1. CASE Posted(s)
      BY <1>1, <1>2, <3>1 DEF HandTells
    <3>2. CASE ~Posted(s)
      BY <1>1, <1>2, <3>2 DEF HostKnows
    <3> QED BY <3>1, <3>2
  <2> QED BY <1>2, <1>4, <2>1 DEF HostHeard
<1> QED BY <1>5, <1>6

\* A post that failed before it reached the host application.
LEMMA FailedBooks ==
  ASSUME BooksAgree, Posting, UNCHANGED <<up, holds, queue, host, seen>>,
         \/ current' # Idle /\ current'.report = current.report /\ dropped' = dropped
         \/ current' = Idle /\ dropped' # {}
  PROVE  BooksAgree'
<1> SUFFICES ASSUME NEW s \in Subjects
             PROVE  /\ QueueTells(s)' /\ HandTells(s)'
                    /\ dropped' = {} => HostKnows(s)' /\ HostHeard(s)'
  BY DEF BooksAgree
<1>1. /\ QueueTells(s) /\ HandTells(s)
      /\ dropped = {} => HostKnows(s) /\ HostHeard(s)
  BY DEF BooksAgree, Posting
<1>2. QueueTells(s)' /\ Unqueued(s)' = Unqueued(s)
  BY <1>1 DEF QueueTells, Unqueued
<1>3. CASE current' # Idle /\ current'.report = current.report /\ dropped' = dropped
  <2>1. Posted(s)' = Posted(s)
    BY <1>3 DEF Posted, Posting
  <2> QED BY <1>1, <1>2, <1>3, <2>1 DEF HandTells, HostKnows, HostHeard
<1>4. CASE current' = Idle /\ dropped' # {}
  BY <1>2, <1>4 DEF HandTells, Posted
<1> QED BY <1>3, <1>4

LEMMA BooksStep == Inv /\ BooksAgree /\ [Next]_vars => BooksAgree'
<1> SUFFICES ASSUME TypeOK, Order, LateSettled, BooksAgree, [Next]_vars PROVE BooksAgree'
  BY DEF Inv
<1>1. CASE ReportArrival
  <2>1. PICK s \in Subjects : /\ Queued([id |-> made + 1, event |-> "arrival", about |-> s])
                              /\ holds' = holds \cup {s}
    BY <1>1 DEF ReportArrival
  <2> DEFINE r == [id |-> made + 1, event |-> "arrival", about |-> s]
  <2>2. r \in ReportEvent
    BY <1>1, ReportAssumption DEF ReportArrival, TypeOK, ReportEvent
  <2>3. r.event # Started /\ Says(r) /\ r.about = s
    BY DEF Started, Says
  <2>4. /\ up /\ up' /\ queue' = Append(queue, r)
        /\ UNCHANGED <<current, seen, host, dropped>>
    BY <1>1, <2>1 DEF ReportArrival, Queued, hostSide
  <2> HIDE DEF r
  <2> QED BY <2>1, <2>2, <2>3, <2>4, QueueingBooks
<1>2. CASE ReportDeparture
  <2>1. PICK s \in Subjects : /\ Queued([id |-> made + 1, event |-> "departure", about |-> s])
                           /\ holds' = holds \ {s}
    BY <1>2 DEF ReportDeparture
  <2> DEFINE r == [id |-> made + 1, event |-> "departure", about |-> s]
  <2>2. r \in ReportEvent
    BY <1>2, <2>1, ReportAssumption DEF ReportDeparture, TypeOK, ReportEvent
  <2>3. r.event # Started /\ ~Says(r) /\ r.about = s
    BY DEF Started, Says
  <2>4. /\ up /\ up' /\ queue' = Append(queue, r)
        /\ UNCHANGED <<current, seen, host, dropped>>
    BY <1>2, <2>1 DEF ReportDeparture, Queued, hostSide
  <2> HIDE DEF r
  <2> QED BY <2>1, <2>2, <2>3, <2>4, QueueingBooks
<1>3. CASE PostDelivered
  <2>1. /\ Posting /\ Handle(current.report) /\ UNCHANGED <<up, holds, queue>>
        /\ dropped \subseteq dropped' /\ current' = Idle
    BY <1>3 DEF PostDelivered
  <2> QED BY <2>1, PostedBooks
<1>4. CASE PostRefused \/ PostTimesOut
  <2>1. Posting /\ Retry /\ UNCHANGED <<up, holds, host, seen>>
    BY <1>4 DEF PostRefused, PostTimesOut, hostSide
  <2> QED BY <2>1, RetryKeeps, FailedBooks
<1>5. CASE PostUnheard
  <2>1. Posting /\ Retry /\ Handle(current.report) /\ UNCHANGED <<up, holds>>
    BY <1>5 DEF PostUnheard
  <2>2. /\ queue' = queue /\ dropped \subseteq dropped'
        /\ current' = Idle \/ (current' # Idle /\ current'.report = current.report)
    BY <2>1, RetryKeeps
  <2> QED BY <2>1, <2>2, PostedBooks
<1>6. CASE HandleLate /\ up
  <2>1. PICK r \in late : Handle(r) /\ UNCHANGED process
    BY <1>6 DEF HandleLate
  <2>2. r.id \in seen \/ r \in dropped \/ (current # Idle /\ r = current.report)
    BY <1>6 DEF LateSettled, Newest
  <2>3. CASE r.id \in seen
    <3>1. host' = host /\ seen' = seen
      BY <2>1, <2>3 DEF Handle
    <3> QED BY <2>1, <3>1 DEF process, BooksAgree, QueueTells, HandTells, HostKnows,
                              HostHeard, Unqueued, Posted
  <2>4. CASE r \in dropped
    BY <2>1, <2>4 DEF process, BooksAgree, QueueTells, HandTells, Unqueued, Posted
  <2>5. CASE current # Idle /\ r = current.report
    <3>1. Posting /\ Handle(current.report)
      BY <1>6, <2>1, <2>5 DEF Posting
    <3> QED BY <2>1, <2>5, <3>1, PostedBooks DEF process
  <2> QED BY <2>2, <2>3, <2>4, <2>5
<1>7. CASE ~up'
  BY <1>7 DEF BooksAgree
<1>8. CASE Boot
  <2> SUFFICES ASSUME NEW s \in Subjects
               PROVE  QueueTells(s)' /\ HandTells(s)' /\ HostKnows(s)' /\ HostHeard(s)'
    BY DEF BooksAgree
  <2>1. /\ holds' = {} /\ current' = Idle
        /\ queue' = <<[id |-> made + 1, event |-> Started]>>
    BY <1>8 DEF Boot, QueueAtBoot, Order
  <2>2. Len(queue') = 1 /\ Concerns(queue'[1], s) /\ ~Says(queue'[1])
    BY <2>1 DEF Concerns, Says, Started
  <2> QED BY <2>1, <2>2 DEF QueueTells, HandTells, HostKnows, HostHeard, Unqueued, Posted
<1>9. CASE UNCHANGED vars
  BY <1>9 DEF vars, process, hostSide, BooksAgree, QueueTells, HandTells, HostKnows,
              HostHeard, Unqueued, Posted
<1>10. HandleLate /\ ~up => ~up'
  BY DEF HandleLate, process
<1> QED BY <1>1, <1>2, <1>3, <1>4, <1>5, <1>6, <1>7, <1>8, <1>9, <1>10, ReceiveBooks
        DEF Next, Deliver, Exit

\* However often posts fail, come late or are repeated, and processes restart:
\* once everything reported is posted and nothing was given up, the host
\* application believes what it was told.
THEOREM HostFollows == Spec => []BooksFollow
<1>1. Inv /\ BooksAgree => BooksFollow
  <2> SUFFICES ASSUME TypeOK, BooksAgree, CaughtUp PROVE host = holds
    BY DEF Inv, BooksFollow
  <2>1. \A s \in Subjects : s \in host <=> s \in holds
    <3>1. \A s \in Subjects : Unqueued(s) /\ ~Posted(s)
      BY DEF CaughtUp, Unqueued, Posted
    <3> QED BY <3>1 DEF CaughtUp, BooksAgree, HostKnows
  <2> QED BY <2>1 DEF TypeOK
<1>2. Inv /\ BooksAgree /\ [Next]_vars => BooksAgree'
  BY BooksStep
<1> QED BY <1>1, <1>2, Invariance, BooksInit, PTL DEF Spec

-----------------------------------------------------------------------------
(* The task implements Delivery                                            *)

\* A report is late once, and one with the id of the report in hand is that report.
OneReport ==
  /\ \A r1, r2 \in late : r1.id = r2.id => r1 = r2
  /\ current # Idle => \A r \in late : r.id = current.report.id => r = current.report

LEMMA OneReportStep == Inv /\ OneReport /\ [Next]_vars => OneReport'
<1> SUFFICES ASSUME TypeOK, Order, OneReport, [Next]_vars PROVE OneReport'
  BY DEF Inv
<1>1. ASSUME late' \subseteq late,
             current' = Idle \/ (current # Idle /\ current'.report = current.report)
      PROVE  OneReport'
  BY <1>1 DEF OneReport
<1>2. CASE Receive
  <2>1. /\ late' = late /\ current'.report = queue[1] /\ 1 \in 1 .. Len(queue)
    <3>1. queue # <<>> /\ queue \in Seq(ReportEvent)
      BY <1>2 DEF Receive, TypeOK
    <3>2. Len(queue) \in Nat /\ Len(queue) # 0
      BY <3>1, EmptySeq
    <3> QED BY <1>2, <3>2 DEF Receive, hostSide
  <2>2. \A r \in late : r.id < queue[1].id /\ r.id \in Nat
    BY <2>1, IdsTyped DEF Order, Past
  <2> QED BY <2>1, <2>2, IdsTyped DEF OneReport
<1>3. ASSUME Posting, Retry
      PROVE  current' = Idle \/ (current # Idle /\ current'.report = current.report)
  BY <1>3, RetryKeeps DEF Posting
<1>4. CASE PostTimesOut
  <2>1. late' = late \cup {current.report} /\ current # Idle
    BY <1>4 DEF PostTimesOut, Posting
  <2> QED BY <1>3, <1>4, <2>1 DEF OneReport, PostTimesOut
<1>5. CASE Exit
  <2>1. /\ late' \subseteq late \cup (IF Posting THEN {current.report} ELSE {})
        /\ current' = Idle
    BY <1>5 DEF Exit
  <2> QED BY <2>1 DEF OneReport, Posting
<1>6. CASE Boot
  BY <1>6 DEF Boot, OneReport
<1>7. CASE PostRefused \/ PostUnheard
  BY <1>1, <1>3, <1>7 DEF PostRefused, PostUnheard, hostSide
<1>8. CASE ReportArrival \/ ReportDeparture \/ PostDelivered \/ HandleLate
  BY <1>1, <1>8 DEF ReportArrival, ReportDeparture, PostDelivered, HandleLate, hostSide,
                    process, OneReport
<1>9. CASE UNCHANGED vars
  BY <1>9 DEF vars, process, hostSide, OneReport
<1> QED BY <1>2, <1>4, <1>5, <1>6, <1>7, <1>8, <1>9 DEF Next, Deliver

DeliveryInv == Inv /\ OneReport

LEMMA DeliveryInvariance == Spec => []DeliveryInv
<1>1. Init => OneReport
  BY DEF Init, OneReport
<1> QED BY <1>1, Invariance, OneReportStep, PTL DEF Spec, DeliveryInv

\* Of a sequence with one more element in front.
LEMMA InFront ==
  ASSUME NEW S, NEW e \in S, NEW q \in Seq(S)
  PROVE  /\ <<e>> \o q \in Seq(S) /\ <<e>> \o q # <<>>
         /\ Head(<<e>> \o q) = e
         /\ Tail(<<e>> \o q) = q
<1> DEFINE t == <<e>> \o q
<1>1. <<e>> \in Seq(S) /\ Len(<<e>>) = 1 /\ <<e>>[1] = e
  OBVIOUS
<1>2. /\ t \in Seq(S) /\ Len(t) = 1 + Len(q) /\ Len(q) \in Nat
      /\ \A i \in 1 .. 1 + Len(q) : t[i] = IF i <= 1 THEN <<e>>[i] ELSE q[i - 1]
  BY <1>1, ConcatProperties, LenProperties
<1>3. t[1] = e /\ t # <<>>
  BY <1>1, <1>2, EmptySeq
<1>4. \A i \in 1 .. Len(q) : t[i + 1] = q[i]
  BY <1>2
<1> HIDE DEF t
<1>5. Head(t) = t[1]
  BY <1>2, <1>3
<1>6. Tail(t) = q
  <2>1. /\ Tail(t) \in Seq(S) /\ Len(Tail(t)) = Len(t) - 1
        /\ \A i \in 1 .. Len(Tail(t)) : Tail(t)[i] = t[i + 1]
    BY <1>2, <1>3, HeadTailProperties
  <2> QED BY <1>2, <1>4, <2>1, SeqEqual
<1>7. Head(t) = e
  BY <1>3, <1>5
<1> QED BY <1>2, <1>3, <1>6, <1>7 DEF t

LEMMA FrontAndRest ==
  ASSUME NEW S, NEW q \in Seq(S), q # <<>>
  PROVE  Head(q) \in S /\ Tail(q) \in Seq(S) /\ <<Head(q)>> \o Tail(q) = q
<1>1. /\ Head(q) \in S /\ Tail(q) \in Seq(S) /\ Head(q) = q[1]
      /\ Len(Tail(q)) = Len(q) - 1 /\ Len(q) \in Nat \ {0}
      /\ \A i \in 1 .. Len(Tail(q)) : Tail(q)[i] = q[i + 1]
  BY HeadTailProperties, EmptySeq
<1> DEFINE h == <<Head(q)>>
<1>2. h \in Seq(S) /\ Len(h) = 1 /\ h[1] = q[1]
  BY <1>1
<1> HIDE DEF h
<1>3. /\ h \o Tail(q) \in Seq(S) /\ Len(h \o Tail(q)) = Len(h) + Len(Tail(q))
      /\ \A i \in 1 .. Len(h) + Len(Tail(q)) :
           (h \o Tail(q))[i] = IF i <= Len(h) THEN h[i] ELSE Tail(q)[i - Len(h)]
  BY <1>1, <1>2, ConcatProperties
<1>4. Len(h \o Tail(q)) = Len(q)
  BY <1>1, <1>2, <1>3
<1>5. ASSUME NEW i \in 1 .. Len(q) PROVE (h \o Tail(q))[i] = q[i]
  <2>1. CASE i = 1
    BY <1>1, <1>2, <1>3, <2>1
  <2>2. CASE i # 1
    <3>1. i - 1 \in 1 .. Len(Tail(q)) /\ (h \o Tail(q))[i] = Tail(q)[i - 1]
      BY <1>1, <1>2, <1>3, <2>2
    <3>2. Tail(q)[i - 1] = q[(i - 1) + 1]
      BY <1>1, <3>1
    <3>3. (i - 1) + 1 = i
      OBVIOUS
    <3> QED BY <3>1, <3>2, <3>3
  <2> QED BY <2>1, <2>2
<1>6. h \o Tail(q) = q
  BY <1>3, <1>4, <1>5, SeqEqual
<1> QED BY <1>1, <1>6 DEF h

LEMMA AppendBehind ==
  ASSUME NEW S, NEW p \in Seq(S), NEW q \in Seq(S), NEW e \in S
  PROVE  p \o Append(q, e) = Append(p \o q, e)
<1>1. Append(q, e) = q \o <<e>> /\ <<e>> \in Seq(S) /\ p \o q \in Seq(S)
  BY AppendIsConcat, ConcatProperties
<1>2. Append(p \o q, e) = (p \o q) \o <<e>>
  BY <1>1, AppendIsConcat
<1> QED BY <1>1, <1>2, ConcatAssociative

\* What is ahead: the report in hand, unless it was handled, and the queue.
Unheard == current # Idle /\ current.report.id \notin seen

LEMMA WhatIsAhead ==
  ASSUME TypeOK
  PROVE  /\ queue \in Seq(ReportEvent) /\ Ahead \in Seq(ReportEvent)
         /\ ~Unheard => Ahead = queue
         /\ Unheard => /\ current.report \in ReportEvent
                       /\ Ahead = <<current.report>> \o queue /\ Ahead # <<>>
                       /\ Head(Ahead) = current.report
                       /\ Tail(Ahead) = queue
<1>1. queue \in Seq(ReportEvent)
  BY DEF TypeOK
<1>2. CASE ~Unheard
  BY <1>1, <1>2, ConcatEmptySeq DEF Ahead, InHandAhead, Unheard
<1>3. CASE Unheard
  <2>1. current.report \in ReportEvent /\ Ahead = <<current.report>> \o queue
    BY <1>3 DEF Ahead, InHandAhead, Unheard, TypeOK
  <2> QED BY <1>1, <1>3, <2>1, InFront
<1> QED BY <1>2, <1>3, <1>1

\* The same word for the same effect.
LEMMA SameEffect ==
  ASSUME NEW r PROVE Believing(r) = D!After(r, host)
BY DEF Believing, D!After, Started, D!Started

LEMMA DeliveryInit == Init => D!Init
<1> SUFFICES ASSUME Init PROVE D!Init
  OBVIOUS
<1>1. Ahead = queue /\ Strays = {}
  <2>1. TypeOK /\ ~Unheard
    BY TypeInit DEF Init, Unheard
  <2> QED BY <2>1, WhatIsAhead DEF Init, Strays
<1> QED BY <1>1 DEF Init, D!Init, D!Announcement, Started, D!Started

\* Making a report of the subject s.
LEMMA MadeStep ==
  ASSUME TypeOK, TypeOK', NEW s \in Subjects, NEW event \in {"arrival", "departure"},
         up, made < MaxReports,
         Queued([id |-> made + 1, event |-> event, about |-> s]),
         holds' = IF event = "arrival" THEN holds \cup {s} ELSE holds \ {s},
         UNCHANGED <<up, current, dropped, hostSide>>
  PROVE  D!Make(event, s)
<1> DEFINE r == [id |-> made + 1, event |-> event, about |-> s]
<1>1. r \in ReportEvent /\ r.id = made + 1
  BY ReportAssumption DEF TypeOK, ReportEvent
<1>2. made' = made + 1 /\ queue' = Append(queue, r)
  BY DEF Queued
<1>3. Ahead' = Append(Ahead, r)
  <2> HIDE DEF r
  <2>1. InHandAhead' = InHandAhead
    BY DEF InHandAhead, hostSide
  <2>2. InHandAhead \in Seq(ReportEvent)
    BY DEF InHandAhead, TypeOK
  <2>3. Ahead' = InHandAhead \o Append(queue, r)
    BY <1>2, <2>1 DEF Ahead
  <2> QED BY <1>1, <2>2, <2>3, AppendBehind DEF Ahead, TypeOK
<1>4. Strays' = Strays
  BY DEF Strays, InHand, hostSide
<1>5. holds' = D!After([event |-> event, about |-> s], holds)
  BY DEF D!After, D!Started
<1> QED BY <1>2, <1>3, <1>4, <1>5 DEF D!Make, hostSide

\* Taking the next report in hand changes nothing.
LEMMA ReceiveInvisible ==
  ASSUME TypeOK, Order, Receive PROVE UNCHANGED D!vars
<1>1. /\ up /\ current = Idle /\ queue # <<>> /\ queue' = Tail(queue)
      /\ current' = [tries |-> 0, report |-> Head(queue)]
      /\ UNCHANGED <<up, made, holds, late, seen, host>>
  BY DEF Receive, hostSide
<1>2. /\ queue \in Seq(ReportEvent) /\ Head(queue) = queue[1]
      /\ Len(queue) \in Nat /\ 1 \in 1 .. Len(queue)
  <2>1. queue \in Seq(ReportEvent)
    BY DEF TypeOK
  <2>2. Len(queue) \in Nat \ {0}
    BY <1>1, <2>1, EmptySeq
  <2> QED BY <2>1, <2>2
<1>3. current' # Idle /\ current'.report = Head(queue)
  BY <1>1, Busy
<1>4. \A id \in Past : id \in Nat /\ id < Head(queue).id /\ Head(queue).id \in Nat
  BY <1>2, IdsTyped DEF Order
<1>5. Head(queue).id \notin seen /\ \A r \in late : r.id # Head(queue).id
  BY <1>4 DEF Past
<1>6. Ahead' = Ahead
  <2>1. Ahead' = <<Head(queue)>> \o Tail(queue)
    BY <1>1, <1>3, <1>5 DEF Ahead, InHandAhead
  <2>2. Ahead = queue
    BY <1>1, WhatIsAhead DEF Unheard
  <2> QED BY <1>1, <1>2, <2>1, <2>2, FrontAndRest
<1>7. Strays' = Strays
  BY <1>1, <1>3, <1>5 DEF Strays, InHand
<1> QED BY <1>1, <1>6, <1>7 DEF D!vars

\* The report in hand reaches the host application: for the first time, or again.
LEMMA HandledStep ==
  ASSUME TypeOK, TypeOK', Posting, Handle(current.report), late' \subseteq late,
         \A r \in late \ late' : r.id = current.report.id,
         current' = Idle \/ (current' # Idle /\ current'.report = current.report),
         UNCHANGED <<up, made, holds, queue>>
  PROVE  D!Hear \/ UNCHANGED D!vars
<1> DEFINE id == current.report.id
<1>1. /\ seen' = seen \cup {id} /\ InHand = {id} /\ InHand' \subseteq {id}
      /\ current # Idle /\ current.report \in ReportEvent
  BY HandledPast DEF Posting, InHand, TypeOK
<1>2. Strays' = Strays
  BY <1>1 DEF Strays
<1>3. Ahead' = queue
  <2>1. Ahead' = <<>> \o queue
    BY <1>1 DEF Ahead, InHandAhead
  <2> QED BY <2>1, ConcatEmptySeq DEF TypeOK
<1>4. CASE id \in seen
  <2>1. host' = host
    BY <1>4 DEF Handle
  <2>2. Ahead = queue
    BY <1>4, WhatIsAhead DEF Unheard
  <2> QED BY <1>2, <1>3, <2>1, <2>2 DEF D!vars
<1>5. CASE id \notin seen
  <2>1. Ahead # <<>> /\ Head(Ahead) = current.report /\ Tail(Ahead) = queue
    BY <1>1, <1>5, WhatIsAhead DEF Unheard
  <2>2. host' = D!After(current.report, host)
    BY <1>5, SameEffect DEF Handle
  <2> QED BY <1>2, <1>3, <2>1, <2>2 DEF D!Hear
<1> QED BY <1>4, <1>5

\* The report in hand was not acknowledged: it stays in hand, or is given up.
LEMMA FailedStep ==
  ASSUME TypeOK, OneReport, Posting, Retry,
         late' \in {late, late \cup {current.report}},
         UNCHANGED <<up, made, holds, seen, host>>
  PROVE  D!GiveUp \/ UNCHANGED D!vars
<1> DEFINE id == current.report.id
<1>1. current # Idle /\ InHand = {id} /\ queue' = queue
  BY RetryKeeps DEF Posting, InHand
<1>2. CASE current' # Idle /\ current'.report = current.report
  <2>1. InHand' = {id} /\ Ahead' = Ahead
    BY <1>1, <1>2 DEF InHand, Ahead, InHandAhead
  <2>2. Strays' = Strays
    BY <1>1, <2>1 DEF Strays
  <2> QED BY <2>1, <2>2 DEF D!vars
<1>3. CASE current' = Idle
  <2>1. InHand' = {} /\ Ahead' = queue
    <3>1. Ahead' = <<>> \o queue
      BY <1>1, <1>3 DEF Ahead, InHandAhead
    <3> QED BY <1>3, <3>1, ConcatEmptySeq DEF TypeOK, InHand
  <2>2. CASE id \in seen
    <3>1. Ahead = queue
      BY <2>2, WhatIsAhead DEF Unheard
    <3>2. Strays' = Strays
      BY <1>1, <2>1, <2>2 DEF Strays
    <3> QED BY <2>1, <3>1, <3>2 DEF D!vars
  <2>3. CASE id \notin seen
    <3>1. Ahead # <<>> /\ Head(Ahead) = current.report /\ Tail(Ahead) = queue
      BY <1>1, <2>3, WhatIsAhead DEF Unheard
    <3>2. \A r \in late' : r.id = id <=> r = current.report
      BY <1>1 DEF OneReport
    <3>3. Strays' \in {Strays, Strays \cup {current.report}}
      <4>1. Strays = {r \in late : r.id \notin seen /\ r # current.report}
        BY <1>1, <3>2 DEF Strays
      <4>2. Strays' = {r \in late' : r.id \notin seen}
        BY <2>1 DEF Strays
      <4>3. CASE current.report \in late'
        <5>1. Strays' = Strays \cup {current.report}
          BY <2>3, <4>1, <4>2, <4>3
        <5> QED BY <5>1
      <4>4. CASE current.report \notin late'
        <5>1. Strays' = Strays
          BY <4>1, <4>2, <4>4
        <5> QED BY <5>1
      <4> QED BY <4>3, <4>4
    <3> QED BY <2>1, <3>1, <3>3 DEF D!GiveUp, D!MayStray
  <2> QED BY <2>2, <2>3
<1> QED BY <1>2, <1>3, RetryKeeps

\* A post that was late: of the report in hand, of one handled already, or a stray.
LEMMA LateIsHeard ==
  ASSUME TypeOK, TypeOK', Order, OneReport, HandleLate
  PROVE  D!Hear \/ D!HearStray \/ UNCHANGED D!vars
<1>1. PICK r \in late : Handle(r) /\ late' = late \ {r}
  BY DEF HandleLate
<1>2. UNCHANGED <<up, made, holds, queue, current>> /\ InHand' = InHand
  BY DEF HandleLate, process, InHand
<1>3. CASE current # Idle /\ r.id = current.report.id
  <2>1. r = current.report /\ up
    BY <1>3 DEF OneReport, Order
  <2>2. Posting /\ late' \subseteq late /\ \A q \in late \ late' : q.id = current.report.id
    BY <1>1, <1>3, <2>1 DEF Posting
  <2> QED BY <1>1, <1>2, <1>3, <2>1, <2>2, HandledStep
<1>4. CASE (current = Idle \/ r.id # current.report.id) /\ r.id \in seen
  <2>1. seen' = seen /\ host' = host
    BY <1>1, <1>4 DEF Handle
  <2>2. Ahead' = Ahead
    BY <1>2, <2>1 DEF Ahead, InHandAhead
  <2>3. Strays' = Strays
    BY <1>1, <1>2, <1>4, <2>1 DEF Strays
  <2> QED BY <1>2, <2>1, <2>2, <2>3 DEF D!vars
<1>5. CASE (current = Idle \/ r.id # current.report.id) /\ r.id \notin seen
  <2>1. seen' = seen \cup {r.id} /\ host' = D!After(r, host)
    BY <1>1, <1>5, SameEffect DEF Handle
  <2>2. Ahead' = Ahead
    BY <1>2, <1>5, <2>1 DEF Ahead, InHandAhead
  <2>3. r \in Strays
    BY <1>5 DEF Strays, InHand
  <2>4. Strays' = Strays \ {r}
    <3>1. \A q \in late : q.id = r.id <=> q = r
      BY DEF OneReport
    <3> QED BY <1>1, <1>2, <2>1, <3>1 DEF Strays
  <2> QED BY <1>2, <2>1, <2>2, <2>3, <2>4 DEF D!HearStray
<1> QED BY <1>3, <1>4, <1>5

\* The report that was being posted when the process ended may have got through.
LEMMA ExitStep ==
  ASSUME TypeOK, OneReport, Exit PROVE D!End
<1>1. /\ up /\ up' = FALSE /\ holds' = {} /\ queue' = <<>> /\ current' = Idle
      /\ late' = IF current # Idle THEN late \cup {current.report} ELSE late
      /\ UNCHANGED <<made, seen, host>>
  BY DEF Exit, Posting
<1>2. Ahead' = <<>> /\ InHand' = {}
  <2>1. Ahead' = <<>> \o <<>>
    BY <1>1 DEF Ahead, InHandAhead
  <2>2. <<>> \in Seq(ReportEvent)
    OBVIOUS
  <2> QED BY <1>1, <2>1, <2>2, ConcatEmptySeq DEF InHand
<1>3. Strays' = {r \in late' : r.id \notin seen}
  BY <1>1, <1>2 DEF Strays
<1>4. CASE Unheard
  <2>1. Ahead # <<>> /\ Head(Ahead) = current.report
    BY <1>4, WhatIsAhead
  <2>2. late' = late \cup {current.report} /\ InHand = {current.report.id}
    BY <1>1, <1>4 DEF Unheard, InHand
  <2>3. \A r \in late : r.id = current.report.id => r = current.report
    BY <1>4 DEF OneReport, Unheard
  <2>4. Strays' = Strays \cup {current.report}
    BY <1>3, <1>4, <2>2, <2>3 DEF Strays, Unheard
  <2>5. Strays' \in {Strays, Strays \cup {Head(Ahead)}}
    BY <2>1, <2>4
  <2> QED BY <1>1, <1>2, <2>1, <2>5 DEF D!End, D!MayStray
<1>5. CASE ~Unheard
  <2>1. Strays' = Strays
    BY <1>1, <1>3, <1>5 DEF Strays, Unheard, InHand
  <2>2. Strays' \in {Strays, Strays \cup {Head(Ahead)}}
    BY <2>1
  <2> QED BY <1>1, <1>2, <2>1, <2>2 DEF D!End, D!MayStray
<1> QED BY <1>4, <1>5

LEMMA BootStep ==
  ASSUME TypeOK, TypeOK', Order, Boot PROVE D!Start
<1>1. /\ ~up /\ made < MaxReports /\ up' = TRUE /\ made' = made + 1
      /\ queue' = <<D!Announcement(made + 1)>> /\ late' = {} /\ current' = Idle
      /\ UNCHANGED <<holds, host>>
  BY DEF Boot, QueueAtBoot, Order, D!Announcement, Started, D!Started
<1>2. Ahead' = <<>> \o queue'
  BY <1>1 DEF Ahead, InHandAhead
<1>3. Ahead' = queue' /\ Strays' = {}
  BY <1>1, <1>2, ConcatEmptySeq DEF TypeOK, Strays
<1> QED BY <1>1, <1>3 DEF D!Start

LEMMA DeliveryStep == DeliveryInv /\ [Next]_vars => [D!Next]_(D!vars)
<1> SUFFICES ASSUME TypeOK, TypeOK', Order, OneReport, [Next]_vars
             PROVE  D!Next \/ UNCHANGED D!vars
  BY TypeStep DEF DeliveryInv, Inv
<1>1. CASE ReportArrival
  <2>1. PICK s \in Subjects :
          /\ Queued([id |-> made + 1, event |-> "arrival", about |-> s])
          /\ holds' = holds \cup {s}
    BY <1>1 DEF ReportArrival
  <2>2. D!Make("arrival", s)
    BY <1>1, <2>1, MadeStep DEF ReportArrival
  <2> QED BY <2>2 DEF D!Next
<1>2. CASE ReportDeparture
  <2>1. PICK s \in Subjects :
          /\ Queued([id |-> made + 1, event |-> "departure", about |-> s])
          /\ holds' = holds \ {s}
    BY <1>2 DEF ReportDeparture
  <2>2. D!Make("departure", s)
    BY <1>2, <2>1, MadeStep DEF ReportDeparture
  <2> QED BY <2>2 DEF D!Next
<1>3. CASE Receive
  BY <1>3, ReceiveInvisible
<1>4. CASE PostDelivered
  <2>1. /\ Posting /\ Handle(current.report) /\ late' = late /\ current' = Idle
        /\ UNCHANGED <<up, made, holds, queue>>
    BY <1>4 DEF PostDelivered
  <2>2. late' \subseteq late /\ late \ late' = {}
    BY <2>1
  <2> QED BY <2>1, <2>2, HandledStep DEF D!Next
<1>5. CASE PostRefused \/ PostTimesOut
  <2>1. /\ Posting /\ Retry /\ UNCHANGED <<up, made, holds, seen, host>>
        /\ late' \in {late, late \cup {current.report}}
    BY <1>5 DEF PostRefused, PostTimesOut, hostSide
  <2> QED BY <2>1, FailedStep DEF D!Next
<1>6. CASE PostUnheard
  <2>1. /\ Posting /\ Handle(current.report) /\ Retry
        /\ UNCHANGED <<up, made, holds, late>>
    BY <1>6 DEF PostUnheard
  <2>2. /\ queue' = queue /\ late' \subseteq late /\ late \ late' = {}
        /\ current' = Idle \/ (current' # Idle /\ current'.report = current.report)
    BY <2>1, RetryKeeps
  <2> QED BY <2>1, <2>2, HandledStep DEF D!Next
<1>7. CASE HandleLate
  BY <1>7, LateIsHeard DEF D!Next
<1>8. CASE Exit
  BY <1>8, ExitStep DEF D!Next
<1>9. CASE Boot
  BY <1>9, BootStep DEF D!Next
<1>10. CASE UNCHANGED vars
  BY <1>10 DEF vars, process, hostSide, D!vars, Ahead, InHandAhead, Strays, InHand
<1> QED BY <1>1, <1>2, <1>3, <1>4, <1>5, <1>6, <1>7, <1>8, <1>9, <1>10 DEF Next, Deliver

\* Whatever is refused, unheard, timed out, repeated or cut off by a restart, the
\* host application handles each report at most once and in turn, one that was
\* given up excepted.
THEOREM TaskImplementsDelivery == Spec => ImplementsDelivery
<1>1. Init => D!Init
  BY DeliveryInit
<1>2. DeliveryInv /\ [Next]_vars => [D!Next]_(D!vars)
  BY DeliveryStep
<1> QED BY <1>1, <1>2, DeliveryInvariance, PTL DEF Spec, ImplementsDelivery, D!Spec

-----------------------------------------------------------------------------
(* Every step of the task brings every waiting report nearer its end       *)

\* Where a report stands: in hand, or at a place in the queue; and how many steps
\* the task has left with the report in hand, and at most has until it is done
\* with the one at place n: a report is received once and posted twelve times.
Stands(id, n) ==
  \/ n = 0 /\ current # Idle /\ current.report.id = id
  \/ n \in DOMAIN queue /\ queue[n].id = id
HandSteps == IF current = Idle THEN 0 ELSE 12 - current.tries
StepsTo(n) == 13 * n + HandSteps

\* Whatever the host application does with its posts, a step of the task settles a
\* waiting report or brings it nearer; no other step, be it a report queued behind
\* it or a late post handled, takes it further away; and while it waits, the task
\* has a report to receive or to post: nothing blocks it.
Nearer ==
  \A id \in 1 .. MaxReports, n \in 0 .. Len(queue) :
    Stands(id, n) =>
      \/ ~Waiting(id)'
      \/ \E m \in 0 .. n : /\ Stands(id, m)'
                           /\ IF Deliver THEN StepsTo(m)' < StepsTo(n)
                                         ELSE m = n /\ StepsTo(m)' = StepsTo(n)
Unblocked ==
  \A id \in 1 .. MaxReports : Waiting(id) => up /\ (Posting \/ (current = Idle /\ queue # <<>>))

LEMMA HandStepsBounded ==
  ASSUME TypeOK
  PROVE  /\ current = Idle => HandSteps = 0
         /\ current # Idle => HandSteps = 12 - current.tries /\ HandSteps \in 1 .. 12
BY DEF TypeOK, HandSteps

LEMMA Retried ==
  ASSUME TypeOK, Posting, Retry
  PROVE  /\ queue' = queue
         /\ \/ current' = Idle
            \/ /\ current' # Idle /\ current'.report = current.report
               /\ current'.tries = current.tries + 1
<1>1. current \in Task
  BY DEF TypeOK, Posting, Task
<1>2. CASE current' = [current EXCEPT !.tries = @ + 1] /\ UNCHANGED queue
  <2>1. current' = [tries |-> current.tries + 1, report |-> current.report]
    BY <1>1, <1>2 DEF Task
  <2> QED BY <1>2, <2>1, Busy
<1>3. CASE Dropping(current.report)
  BY <1>3 DEF Dropping
<1> QED BY <1>2, <1>3 DEF Retry

LEMMA ReceivedNearer ==
  ASSUME TypeOK, Receive, NEW id, NEW n \in 0 .. Len(queue), Stands(id, n)
  PROVE  \E m \in 0 .. n : Stands(id, m)' /\ StepsTo(m)' < StepsTo(n)
<1>1. /\ current = Idle /\ queue # <<>> /\ queue' = Tail(queue)
      /\ current' = [tries |-> 0, report |-> Head(queue)]
  BY DEF Receive
<1>2. /\ Len(queue) \in Nat /\ Len(queue) > 0 /\ Head(queue) = queue[1]
      /\ Len(queue') = Len(queue) - 1 /\ queue' \in Seq(ReportEvent)
      /\ \A i \in 1 .. Len(queue') : queue'[i] = queue[i + 1]
  <2>1. Len(queue) \in Nat /\ Len(queue) # 0
    BY <1>1, EmptySeq DEF TypeOK
  <2> QED BY <1>1, <2>1, HeadTailProperties DEF TypeOK
<1>3. n \in 1 .. Len(queue) /\ queue[n].id = id
  BY <1>1, <1>2 DEF Stands, TypeOK
<1>4. current' # Idle /\ HandSteps' = 12 /\ HandSteps = 0
  BY <1>1, Busy DEF HandSteps
<1>5. n - 1 \in 0 .. n /\ StepsTo(n - 1)' < StepsTo(n)
  BY <1>2, <1>3, <1>4 DEF StepsTo
<1>6. CASE n = 1
  <2>1. Stands(id, 0)'
    BY <1>1, <1>2, <1>3, <1>4, <1>6 DEF Stands
  <2> QED BY <1>5, <1>6, <2>1
<1>7. CASE n # 1
  <2>1. n - 1 \in 1 .. Len(queue') /\ (n - 1) + 1 = n
    BY <1>2, <1>3, <1>7
  <2>2. queue'[n - 1] = queue[(n - 1) + 1] /\ DOMAIN queue' = 1 .. Len(queue')
    BY <1>2, <2>1
  <2>3. queue'[n - 1].id = id
    BY <1>3, <2>1, <2>2
  <2>4. Stands(id, n - 1)'
    BY <2>1, <2>2, <2>3 DEF Stands
  <2> QED BY <1>5, <2>4
<1> QED BY <1>6, <1>7

LEMMA PostedNearer ==
  ASSUME Inv, Posting, queue' = queue, NEW id, NEW n \in 0 .. Len(queue), Stands(id, n),
         \/ current' = Idle
         \/ /\ current' # Idle /\ current'.report = current.report
            /\ current'.tries = current.tries + 1
  PROVE  ~Waiting(id)' \/ (Stands(id, n)' /\ StepsTo(n)' < StepsTo(n))
<1>1. /\ current # Idle /\ HandSteps = 12 - current.tries /\ HandSteps \in 1 .. 12
      /\ current.tries \in Nat /\ n \in Nat
  BY HandStepsBounded DEF Inv, Posting, TypeOK
<1>2. HandSteps' < HandSteps /\ HandSteps' \in Int
  BY <1>1 DEF HandSteps
<1>3. StepsTo(n)' < StepsTo(n)
  BY <1>1, <1>2 DEF StepsTo
<1>4. CASE n # 0 \/ current' # Idle
  BY <1>1, <1>3, <1>4 DEF Stands
<1>5. CASE n = 0 /\ current' = Idle
  <2>1. queue \in Seq(ReportEvent) /\ DOMAIN queue = 1 .. Len(queue)
    BY DEF Inv, TypeOK
  <2>2. current.report.id = id /\ id \in InHand
    BY <1>1, <1>5, <2>1 DEF Stands, InHand
  <2>3. \A i \in 1 .. Len(queue) : id < queue[i].id /\ queue[i].id \in Nat
    BY <2>2, IdsTyped DEF Inv, Order
  <2>4. id \in Nat
    BY <2>2, IdsTyped DEF Inv
  <2>5. \A i \in DOMAIN queue' : queue'[i].id # id
    BY <2>1, <2>3, <2>4
  <2> QED BY <1>5, <2>5 DEF Waiting
<1> QED BY <1>4, <1>5

LEMMA NearerStep == Inv /\ [Next]_vars => Nearer
<1> SUFFICES ASSUME Inv, [Next]_vars, NEW id \in 1 .. MaxReports,
                    NEW n \in 0 .. Len(queue), Stands(id, n)
             PROVE  \/ ~Waiting(id)'
                    \/ \E m \in 0 .. n :
                         /\ Stands(id, m)'
                         /\ IF Deliver THEN StepsTo(m)' < StepsTo(n)
                                       ELSE m = n /\ StepsTo(m)' = StepsTo(n)
  BY DEF Nearer
<1>0. TypeOK /\ n \in Nat /\ n \in 0 .. n /\ queue \in Seq(ReportEvent)
  BY DEF Inv, TypeOK
<1>1. CASE Receive
  BY <1>0, <1>1, ReceivedNearer DEF Deliver
<1>2. CASE PostDelivered \/ PostRefused \/ PostUnheard \/ PostTimesOut
  <2>1. Posting /\ queue' = queue
        /\ \/ current' = Idle
           \/ /\ current' # Idle /\ current'.report = current.report
              /\ current'.tries = current.tries + 1
    BY <1>0, <1>2, Retried DEF PostDelivered, PostRefused, PostUnheard, PostTimesOut
  <2>2. ~Waiting(id)' \/ (Stands(id, n)' /\ StepsTo(n)' < StepsTo(n))
    BY <2>1, PostedNearer
  <2> QED BY <1>0, <1>2, <2>2 DEF Deliver
<1>3. CASE ~Deliver
  <2>1. CASE ReportArrival \/ ReportDeparture
    <3>1. PICK r : queue' = Append(queue, r) /\ current' = current
      BY <2>1 DEF ReportArrival, ReportDeparture, Queued
    <3>2. \A i \in DOMAIN queue : i \in DOMAIN queue' /\ queue'[i] = queue[i]
      BY <1>0, <3>1
    <3>3. Stands(id, n)' /\ StepsTo(n)' = StepsTo(n)
      BY <3>1, <3>2 DEF Stands, StepsTo, HandSteps
    <3> QED BY <1>0, <1>3, <3>3
  <2>2. CASE HandleLate \/ UNCHANGED vars
    <3>1. Stands(id, n)' /\ StepsTo(n)' = StepsTo(n)
      BY <2>2 DEF HandleLate, process, vars, Stands, StepsTo, HandSteps
    <3> QED BY <1>0, <1>3, <3>1
  <2>3. CASE Exit
    <3>1. queue' = <<>> /\ current' = Idle
      BY <2>3 DEF Exit
    <3> QED BY <3>1 DEF Waiting
  <2>4. CASE Boot
    BY <1>0, <2>4 DEF Boot, Stands, Inv, Order
  <2> QED BY <1>3, <2>1, <2>2, <2>3, <2>4 DEF Next
<1> QED BY <1>1, <1>2, <1>3 DEF Deliver

\* The part of ReportsSettle that is safety: at most 13 steps of the task for each
\* report ahead, and it can always take the next one.  What is left to liveness is
\* that the task runs at all.
THEOREM ReportsComeNearer == Spec => []Unblocked /\ [][Nearer]_vars
<1>1. Inv => Unblocked
  <2> SUFFICES ASSUME Inv, NEW id, Waiting(id)
               PROVE  up /\ (Posting \/ (current = Idle /\ queue # <<>>))
    BY DEF Unblocked
  <2>1. up /\ (current # Idle \/ queue # <<>>)
    BY DEF Inv, TypeOK, Order, Waiting
  <2> QED BY <2>1 DEF Posting
<1>2. Inv /\ [Next]_vars => [Nearer]_vars
  BY NearerStep
<1> QED BY <1>1, <1>2, Invariance, PTL DEF Spec
=============================================================================
