--------------------------- MODULE IceGraceProofs ---------------------------
(***************************************************************************)
(* Proofs about the grace period, for any grace, any length of a turn and  *)
(* any number of changes str0m packs into one.                             *)
(***************************************************************************)
EXTENDS IceGrace, TLAPS, SequenceTheorems

Report == IceConnectionState \ {"New"}

LEMMA TypeInit == Init => TypeOK
BY IceGraceAssumption DEF Init, TypeOK, Phases, IceConnectionState

LEMMA Instants ==
  ASSUME TypeOK
  PROVE  now \in Nat /\ downAt \subseteq Nat /\ disconnectedSince \subseteq Nat
<1>1. now \in Nat /\ downAt \subseteq 0 .. now /\ disconnectedSince \subseteq 0 .. now
  BY DEF TypeOK
<1>2. 0 .. now \subseteq Nat
  OBVIOUS
<1> QED BY <1>1, <1>2

LEMMA SinceTyped ==
  ASSUME TypeOK, NEW state
  PROVE  /\ Since(state) \subseteq 0 .. now
         /\ \A s, t \in Since(state) : s = t
<1>1. \/ Since(state) = {} \/ Since(state) = {now} \/ Since(state) = disconnectedSince
  BY DEF Since
<1>2. now \in 0 .. now
  BY DEF TypeOK
<1> QED BY <1>1, <1>2 DEF TypeOK

LEMMA TypeStep == TypeOK /\ [Next]_vars => TypeOK'
<1> SUFFICES ASSUME TypeOK, [Next]_vars PROVE TypeOK'
  OBVIOUS
<1> USE IceGraceAssumption
<1>1. CASE PollEvent
  <2>1. events' \in Seq(Report)
    BY <1>1 DEF PollEvent, TypeOK, Report
  <2> QED BY <1>1, <2>1, SinceTyped DEF TypeOK, PollEvent, clock, Report
<1>2. CASE PollDone
  BY <1>2 DEF TypeOK, PollDone, clock, transport, Phases
<1>3. CASE Reap
  BY <1>3 DEF TypeOK, Reap, clock, transport, Phases, Given
<1>4. CASE HandleInput
  BY <1>4 DEF TypeOK, HandleInput, transport, Phases
<1>5. CASE IceChanges
  <2>1. PICK state \in Report :
          /\ ice' = state
          /\ events' = Append(events, state)
          /\ downAt' = CASE state \in Up -> {}
                         [] state = "Disconnected" /\ downAt = {} -> {now}
                         [] OTHER -> downAt
    BY <1>5 DEF IceChanges, Report
  <2>2. events' \in Seq(Report)
    BY <2>1 DEF TypeOK, Report
  <2>3. downAt' \subseteq 0 .. now
    <3>1. downAt' = {} \/ downAt' = {now} \/ downAt' = downAt
      BY <2>1
    <3>2. now \in 0 .. now
      BY DEF TypeOK
    <3> QED BY <3>1, <3>2 DEF TypeOK
  <2> QED BY <1>5, <2>1, <2>2, <2>3 DEF TypeOK, IceChanges, clock, Report
<1>6. CASE TransportFails
  BY <1>6 DEF TypeOK, TransportFails, clock
<1>7. CASE Tick
  BY <1>7 DEF TypeOK, Tick, transport
<1>8. CASE UNCHANGED vars
  BY <1>8 DEF TypeOK, vars, clock, transport
<1> QED BY <1>1, <1>2, <1>3, <1>4, <1>5, <1>6, <1>7, <1>8 DEF Next

\* Clock, timer and reports keep their types; a disconnection has one beginning.
THEOREM IceTyped == Spec => []TypeOK
BY TypeInit, TypeStep, PTL DEF Spec

-----------------------------------------------------------------------------
(* The timer against what str0m has reported                               *)

\* No report in q says that the connection is up; the last word of q is that it
\* is down.
NoneUp(q) == \A i \in 1 .. Len(q) : q[i] \notin Up
EndsDown(q) ==
  \E i \in 1 .. Len(q) : /\ q[i] = "Disconnected"
                         /\ \A j \in i .. Len(q) : q[j] \notin Up

\* The loop has yet to hear of what str0m says now, and then it runs no timer
\* that counts; or it has heard, and its timer started after the connection
\* went down.
Unheard == disconnectedSince = {} \/ ~NoneUp(events)
TimerLags ==
  /\ EndsDown(events) => downAt # {}
  /\ NoneUp(events) =>
       /\ disconnectedSince # {} => downAt # {}
       /\ \A s \in disconnectedSince, t \in downAt : t <= s
  /\ \A t \in downAt : t <= now
  /\ phase = "reap" => Drained
  /\ phase = "ice disconnected" => alive /\ events = <<>> /\ Abandoned

LEMMA TailOfReports ==
  ASSUME NEW q \in Seq(Report), q # <<>>
  PROVE  /\ NoneUp(q) <=> Head(q) \notin Up /\ NoneUp(Tail(q))
         /\ EndsDown(Tail(q)) => EndsDown(q)
         /\ Head(q) = "Disconnected" /\ NoneUp(Tail(q)) => EndsDown(q)
         /\ EndsDown(q) /\ Head(q) # "Disconnected" => EndsDown(Tail(q))
         /\ EndsDown(q) /\ ~NoneUp(Tail(q)) => EndsDown(Tail(q))
<1>1. /\ Len(q) \in Nat /\ Len(q) > 0
      /\ Len(Tail(q)) = Len(q) - 1
      /\ \A i \in 1 .. Len(Tail(q)) : Tail(q)[i] = q[i + 1]
      /\ Head(q) = q[1]
  <2>1. Len(q) \in Nat /\ Len(q) # 0
    BY EmptySeq
  <2> QED BY <2>1, HeadTailProperties
<1>2. \A i \in 2 .. Len(q) : i - 1 \in 1 .. Len(Tail(q)) /\ Tail(q)[i - 1] = q[i]
  BY <1>1
<1>3. NoneUp(q) <=> Head(q) \notin Up /\ NoneUp(Tail(q))
  <2>1. NoneUp(q) => Head(q) \notin Up /\ NoneUp(Tail(q))
    BY <1>1 DEF NoneUp
  <2>2. ASSUME Head(q) \notin Up, NoneUp(Tail(q)), NEW i \in 1 .. Len(q)
        PROVE  q[i] \notin Up
    <3>1. CASE i = 1
      BY <1>1, <2>2, <3>1
    <3>2. CASE i # 1
      BY <1>1, <1>2, <2>2, <3>2 DEF NoneUp
    <3> QED BY <3>1, <3>2
  <2> QED BY <2>1, <2>2 DEF NoneUp
<1>4. ASSUME EndsDown(Tail(q)) PROVE EndsDown(q)
  <2>1. PICK i \in 1 .. Len(Tail(q)) : /\ Tail(q)[i] = "Disconnected"
                                       /\ \A j \in i .. Len(Tail(q)) : Tail(q)[j] \notin Up
    BY <1>4 DEF EndsDown
  <2>2. i + 1 \in 1 .. Len(q) /\ q[i + 1] = "Disconnected"
    BY <1>1, <2>1
  <2>3. \A j \in i + 1 .. Len(q) : q[j] \notin Up
    <3> SUFFICES ASSUME NEW j \in i + 1 .. Len(q) PROVE q[j] \notin Up
      OBVIOUS
    <3>1. j - 1 \in i .. Len(Tail(q)) /\ Tail(q)[j - 1] = q[j]
      BY <1>1, <1>2, <2>1
    <3> QED BY <2>1, <3>1
  <2> QED BY <2>2, <2>3 DEF EndsDown
<1>5. Head(q) = "Disconnected" /\ NoneUp(Tail(q)) => EndsDown(q)
  <2> SUFFICES ASSUME Head(q) = "Disconnected", NoneUp(Tail(q)) PROVE EndsDown(q)
    OBVIOUS
  <2>1. \A j \in 1 .. Len(q) : q[j] \notin Up
    BY <1>3 DEF NoneUp, Up
  <2> QED BY <1>1, <2>1 DEF EndsDown
<1>6. ASSUME EndsDown(q), Head(q) # "Disconnected" \/ ~NoneUp(Tail(q))
      PROVE  EndsDown(Tail(q))
  <2>1. PICK i \in 1 .. Len(q) : /\ q[i] = "Disconnected"
                                 /\ \A j \in i .. Len(q) : q[j] \notin Up
    BY <1>6 DEF EndsDown
  <2>2. i # 1
    <3>1. SUFFICES ASSUME i = 1 PROVE FALSE
      OBVIOUS
    <3>2. NoneUp(q)
      BY <2>1, <3>1 DEF NoneUp
    <3> QED BY <1>1, <1>3, <1>6, <2>1, <3>1, <3>2
  <2>3. i - 1 \in 1 .. Len(Tail(q)) /\ Tail(q)[i - 1] = "Disconnected"
    BY <1>2, <2>1, <2>2
  <2>4. \A j \in i - 1 .. Len(Tail(q)) : Tail(q)[j] \notin Up
    <3> SUFFICES ASSUME NEW j \in i - 1 .. Len(Tail(q)) PROVE Tail(q)[j] \notin Up
      OBVIOUS
    <3>1. j + 1 \in i .. Len(q) /\ Tail(q)[j] = q[j + 1]
      BY <1>1, <2>1, <2>2
    <3> QED BY <2>1, <3>1
  <2> QED BY <2>3, <2>4 DEF EndsDown
<1> QED BY <1>3, <1>4, <1>5, <1>6

LEMMA AppendedReport ==
  ASSUME NEW q \in Seq(Report), NEW state \in Report
  PROVE  /\ NoneUp(Append(q, state)) <=> NoneUp(q) /\ state \notin Up
         /\ EndsDown(Append(q, state)) =>
              state \notin Up /\ (state = "Disconnected" \/ EndsDown(q))
         /\ EndsDown(q) /\ state \notin Up => EndsDown(Append(q, state))
         /\ state = "Disconnected" => EndsDown(Append(q, state))
<1> DEFINE r == Append(q, state)
<1>1. /\ Len(q) \in Nat /\ Len(r) = Len(q) + 1
      /\ \A i \in 1 .. Len(q) : r[i] = q[i]
      /\ r[Len(r)] = state
  BY AppendProperties
<1> HIDE DEF r
<1>2. NoneUp(r) <=> NoneUp(q) /\ state \notin Up
  <2>1. \A i \in 1 .. Len(r) : i \in 1 .. Len(q) \/ i = Len(r)
    BY <1>1
  <2>2. 1 .. Len(q) \subseteq 1 .. Len(r) /\ Len(r) \in 1 .. Len(r)
    BY <1>1
  <2> QED BY <1>1, <2>1, <2>2 DEF NoneUp
<1>3. ASSUME EndsDown(r) PROVE state \notin Up /\ (state = "Disconnected" \/ EndsDown(q))
  <2>1. PICK i \in 1 .. Len(r) : /\ r[i] = "Disconnected"
                                 /\ \A j \in i .. Len(r) : r[j] \notin Up
    BY <1>3 DEF EndsDown
  <2>2. state \notin Up
    BY <1>1, <2>1
  <2>3. CASE i = Len(r)
    BY <1>1, <2>1, <2>2, <2>3
  <2>4. CASE i # Len(r)
    <3>1. i \in 1 .. Len(q) /\ q[i] = "Disconnected"
      BY <1>1, <2>1, <2>4
    <3>2. \A j \in i .. Len(q) : q[j] \notin Up
      BY <1>1, <2>1, <3>1
    <3> QED BY <2>2, <3>1, <3>2 DEF EndsDown
  <2> QED BY <2>3, <2>4
<1>4. ASSUME EndsDown(q), state \notin Up PROVE EndsDown(r)
  <2>1. PICK i \in 1 .. Len(q) : /\ q[i] = "Disconnected"
                                 /\ \A j \in i .. Len(q) : q[j] \notin Up
    BY <1>4 DEF EndsDown
  <2>2. \A j \in i .. Len(r) : r[j] \notin Up
    BY <1>1, <1>4, <2>1
  <2>3. i \in 1 .. Len(r) /\ r[i] = "Disconnected"
    BY <1>1, <2>1
  <2> QED BY <2>2, <2>3 DEF EndsDown
<1>5. state = "Disconnected" => EndsDown(r)
  <2> SUFFICES ASSUME state = "Disconnected" PROVE EndsDown(r)
    OBVIOUS
  <2>1. Len(r) \in 1 .. Len(r) /\ \A j \in Len(r) .. Len(r) : r[j] \notin Up
    BY <1>1 DEF Up
  <2> QED BY <1>1, <2>1 DEF EndsDown
<1> QED BY <1>2, <1>3, <1>4, <1>5 DEF r

LEMMA NothingReported == NoneUp(<<>>) /\ ~EndsDown(<<>>)
BY DEF NoneUp, EndsDown

LEMMA TimerLagsInit == Init => TimerLags
BY NothingReported DEF Init, TimerLags

LEMMA TimerLagsStep ==
  ASSUME TypeOK, TimerLags, [Next]_vars
  PROVE  TimerLags'
<1>1. events \in Seq(Report) /\ now \in Nat /\ downAt \subseteq Nat
  BY DEF TypeOK, Report
<1>2. CASE PollEvent
  <2>1. /\ events # <<>> /\ events' = Tail(events) /\ phase = "poll"
        /\ disconnectedSince' = Since(Head(events))
        /\ downAt' = downAt /\ now' = now /\ phase' = phase
    BY <1>2 DEF PollEvent, clock
  <2>2. EndsDown(events') => downAt' # {}
    BY <1>1, <2>1, TailOfReports DEF TimerLags
  <2>3. ASSUME NoneUp(events')
        PROVE  /\ disconnectedSince' # {} => downAt' # {}
               /\ \A s \in disconnectedSince', t \in downAt' : t <= s
    <3>1. CASE Head(events) \in Up
      BY <2>1, <3>1 DEF Since, Up
    <3>2. CASE Head(events) = "Disconnected" /\ disconnectedSince = {}
      <4>1. disconnectedSince' = {now} /\ downAt # {}
        BY <1>1, <2>1, <2>3, <3>2, TailOfReports DEF Since, TimerLags, Up
      <4> QED BY <2>1, <4>1 DEF TimerLags
    <3>3. CASE Head(events) \notin Up /\ ~(Head(events) = "Disconnected" /\ disconnectedSince = {})
      <4>1. disconnectedSince' = disconnectedSince /\ NoneUp(events)
        BY <1>1, <2>1, <2>3, <3>3, TailOfReports DEF Since
      <4> QED BY <2>1, <4>1 DEF TimerLags
    <3> QED BY <3>1, <3>2, <3>3
  <2> QED BY <2>1, <2>2, <2>3 DEF TimerLags
<1>3. CASE PollDone
  BY <1>3 DEF PollDone, TimerLags, clock, transport, Drained
<1>4. CASE Reap
  BY <1>4 DEF Reap, TimerLags, clock, transport, Drained, Abandoned
<1>5. CASE HandleInput
  BY <1>5 DEF HandleInput, TimerLags, transport
<1>6. CASE IceChanges
  <2>1. PICK state \in Report :
          /\ events' = Append(events, state)
          /\ downAt' = CASE state \in Up -> {}
                         [] state = "Disconnected" /\ downAt = {} -> {now}
                         [] OTHER -> downAt
    BY <1>6 DEF IceChanges, Report
  <2>2. phase = "wait" /\ phase' = phase /\ now' = now /\ disconnectedSince' = disconnectedSince
    BY <1>6 DEF IceChanges, clock
  <2>3. CASE state \in Up
    BY <1>1, <2>1, <2>2, <2>3, AppendedReport DEF TimerLags
  <2>4. CASE state = "Disconnected" /\ downAt = {}
    <3>1. downAt' = {now}
      BY <2>1, <2>4 DEF Up
    <3>2. NoneUp(events') => disconnectedSince = {}
      BY <1>1, <2>1, <2>4, AppendedReport DEF TimerLags
    <3> QED BY <1>1, <2>2, <3>1, <3>2 DEF TimerLags
  <2>5. CASE state \notin Up /\ ~(state = "Disconnected" /\ downAt = {})
    <3>1. downAt' = downAt
      BY <2>1, <2>5
    <3> QED BY <1>1, <2>1, <2>2, <2>5, <3>1, AppendedReport DEF TimerLags
  <2> QED BY <2>3, <2>4, <2>5
<1>7. CASE TransportFails
  BY <1>7 DEF TransportFails, TimerLags, clock
<1>8. CASE Tick
  <2>1. /\ events' = events /\ downAt' = downAt /\ disconnectedSince' = disconnectedSince
        /\ now' = now + 1 /\ phase' = phase /\ phase \notin Given /\ alive' = alive
    BY <1>8 DEF Tick, transport
  <2>2. \A t \in downAt : t <= now + 1
    <3> SUFFICES ASSUME NEW t \in downAt PROVE t <= now + 1
      OBVIOUS
    <3>1. t \in Nat /\ t <= now
      BY <1>1 DEF TimerLags
    <3> QED BY <1>1, <3>1
  <2> QED BY <2>1, <2>2 DEF TimerLags, Drained, Given
<1>9. CASE UNCHANGED vars
  BY <1>9 DEF vars, TimerLags, clock, transport, Drained, Abandoned
<1> QED BY <1>2, <1>3, <1>4, <1>5, <1>6, <1>7, <1>8, <1>9 DEF Next

LEMMA LongerStill ==
  ASSUME NEW n \in Nat, NEW s \in Nat, NEW t \in Nat, n - s >= Grace, t <= s
  PROVE  n - t >= Grace
BY IceGraceAssumption

\* A peer is given up only after it has been down for the whole grace period
\* without interruption: the timer never starts before the disconnection it times.
THEOREM NotGivenUpEarly == Spec => []GivenUpOnlyAfterGrace
<1>1. ASSUME TypeOK, TimerLags PROVE GivenUpOnlyAfterGrace
  <2> SUFFICES ASSUME phase = "ice disconnected"
               PROVE  \E t \in downAt : now - t >= Grace
    BY DEF GivenUpOnlyAfterGrace
  <2>1. PICK s \in disconnectedSince : now - s >= Grace
    BY <1>1 DEF TimerLags, Abandoned
  <2>2. PICK t \in downAt : t <= s
    BY <1>1, NothingReported DEF TimerLags
  <2>3. now \in Nat /\ s \in Nat /\ t \in Nat
    BY <1>1, Instants
  <2> QED BY <2>1, <2>2, <2>3, LongerStill
<1> QED BY <1>1, TypeInit, TypeStep, TimerLagsInit, TimerLagsStep, PTL DEF Spec

-----------------------------------------------------------------------------
(* How far the timer lags                                                  *)

\* What str0m said in the turn that is ending, or in the one before.
Fresh(t) == now <= t + turn + (IF phase = "wait" THEN 0 ELSE MaxTurn)
Running(s) == now < s + Grace + turn + (IF phase = "wait" THEN 0 ELSE MaxTurn)

\* A disconnection the loop has not heard of is fresh and is the last thing
\* reported; the timer of one it has heard of started within two turns, and the
\* last sweep found it running.
Timely ==
  /\ Unheard => /\ \A t \in downAt : Fresh(t)
                /\ downAt # {} => EndsDown(events)
  /\ ~Unheard => \A s \in disconnectedSince, t \in downAt : s <= t + 2 * MaxTurn
  /\ \A s \in disconnectedSince : s <= now /\ Running(s)

LEMMA TimelyStep ==
  ASSUME TypeOK, TimerLags, Timely, [Next]_vars
  PROVE  Timely'
<1> USE IceGraceAssumption
<1>1. /\ events \in Seq(Report) /\ now \in Nat /\ turn \in Nat /\ turn <= MaxTurn
      /\ downAt \subseteq Nat /\ disconnectedSince \subseteq Nat
  BY DEF TypeOK, Report
<1>2. CASE PollEvent
  <2>1. /\ events # <<>> /\ events' = Tail(events) /\ phase = "poll" /\ phase' = phase
        /\ disconnectedSince' = Since(Head(events))
        /\ downAt' = downAt /\ now' = now /\ turn' = turn
    BY <1>2 DEF PollEvent, clock
  <2>2. CASE Head(events) \in Up
    <3>1. disconnectedSince' = {} /\ Unheard
      BY <1>1, <2>1, <2>2, TailOfReports DEF Since, Unheard, Up
    <3>2. EndsDown(events) => EndsDown(events')
      BY <1>1, <2>1, <2>2, TailOfReports DEF Up
    <3> QED BY <2>1, <3>1, <3>2 DEF Timely, Fresh, Running, Unheard
  <2>3. CASE Head(events) = "Disconnected" /\ disconnectedSince = {}
    <3>1. disconnectedSince' = {now} /\ Unheard
      BY <2>1, <2>3 DEF Since, Unheard, Up
    <3>2. ~NoneUp(events') /\ EndsDown(events) => EndsDown(events')
      BY <1>1, <2>1, TailOfReports
    <3>3. \A t \in downAt : now <= t + 2 * MaxTurn
      BY <1>1, <2>1, <3>1 DEF Timely, Fresh
    <3>4. \A t \in downAt' : Fresh(t)'
      BY <2>1, <3>1 DEF Timely, Fresh
    <3>5. Unheard' => ~NoneUp(events')
      BY <3>1 DEF Unheard
    <3>6. \A s \in disconnectedSince' : s <= now' /\ Running(s)'
      BY <1>1, <2>1, <3>1 DEF Running
    <3> QED BY <2>1, <3>1, <3>2, <3>3, <3>4, <3>5, <3>6 DEF Timely
  <2>4. CASE Head(events) \notin Up /\ ~(Head(events) = "Disconnected" /\ disconnectedSince = {})
    <3>1. disconnectedSince' = disconnectedSince /\ (NoneUp(events) <=> NoneUp(events'))
      BY <1>1, <2>1, <2>4, TailOfReports DEF Since
    <3>2. Unheard /\ EndsDown(events) => EndsDown(events')
      BY <1>1, <2>1, <2>4, <3>1, TailOfReports DEF Unheard
    <3> QED BY <2>1, <3>1, <3>2 DEF Timely, Fresh, Running, Unheard
  <2> QED BY <2>2, <2>3, <2>4
<1>3. CASE PollDone
  BY <1>1, <1>3 DEF PollDone, Timely, Fresh, Running, Unheard, clock, transport
<1>4. CASE Reap
  <2>1. /\ events' = events /\ downAt' = downAt /\ disconnectedSince' = disconnectedSince
        /\ now' = now /\ turn' = turn /\ phase = "reap"
    BY <1>4 DEF Reap, clock, transport
  <2>2. CASE phase' # "wait"
    BY <1>1, <2>1, <2>2 DEF Timely, Fresh, Running, Unheard
  <2>3. CASE phase' = "wait"
    <3>1. events = <<>> /\ ~Abandoned
      BY <1>4, <2>3 DEF Reap, TimerLags, Drained
    <3>2. Unheard => downAt = {}
      BY <3>1, NothingReported DEF Timely
    <3>3. \A s \in disconnectedSince : now < s + Grace + turn
      BY <1>1, <3>1 DEF Abandoned
    <3> QED BY <1>1, <2>1, <2>3, <3>2, <3>3 DEF Timely, Fresh, Running, Unheard
  <2> QED BY <2>2, <2>3
<1>5. CASE HandleInput
  <2>1. /\ events' = events /\ downAt' = downAt /\ disconnectedSince' = disconnectedSince
        /\ now' = now /\ turn' = 0 /\ phase = "wait" /\ phase' = "poll"
    BY <1>5 DEF HandleInput, transport
  <2> QED BY <1>1, <2>1 DEF Timely, Fresh, Running, Unheard
<1>6. CASE IceChanges
  <2>1. PICK state \in Report :
          /\ events' = Append(events, state)
          /\ downAt' = CASE state \in Up -> {}
                         [] state = "Disconnected" /\ downAt = {} -> {now}
                         [] OTHER -> downAt
    BY <1>6 DEF IceChanges, Report
  <2>2. /\ phase = "wait" /\ phase' = phase /\ now' = now /\ turn' = turn
        /\ disconnectedSince' = disconnectedSince
    BY <1>6 DEF IceChanges, clock
  <2>3. \A s \in disconnectedSince' : s <= now' /\ Running(s)'
    BY <2>2 DEF Timely, Running
  <2>4. CASE state \in Up
    <3>1. downAt' = {}
      BY <2>1, <2>4 DEF Up
    <3> QED BY <2>3, <3>1 DEF Timely
  <2>5. CASE state = "Disconnected" /\ downAt = {}
    <3>1. downAt' = {now} /\ EndsDown(events')
      BY <1>1, <2>1, <2>5, AppendedReport DEF Up
    <3>2. Unheard'
      <4>1. disconnectedSince # {} => ~NoneUp(events)
        BY <2>5 DEF TimerLags
      <4>2. ~NoneUp(events) => ~NoneUp(events')
        BY <1>1, <2>1, AppendedReport
      <4> QED BY <2>2, <4>1, <4>2 DEF Unheard
    <3> QED BY <1>1, <2>2, <2>3, <3>1, <3>2 DEF Timely, Fresh
  <2>6. CASE state \notin Up /\ ~(state = "Disconnected" /\ downAt = {})
    <3>1. downAt' = downAt /\ (NoneUp(events') <=> NoneUp(events))
      BY <1>1, <2>1, <2>6, AppendedReport
    <3>2. EndsDown(events) => EndsDown(events')
      BY <1>1, <2>1, <2>6, AppendedReport
    <3> QED BY <2>2, <2>3, <3>1, <3>2 DEF Timely, Fresh, Unheard
  <2> QED BY <2>4, <2>5, <2>6
<1>7. CASE TransportFails
  BY <1>7 DEF TransportFails, Timely, Fresh, Running, Unheard, clock
<1>8. CASE Tick
  BY <1>1, <1>8 DEF Tick, Timely, Fresh, Running, Unheard, transport
<1>9. CASE UNCHANGED vars
  BY <1>9 DEF vars, Timely, Fresh, Running, Unheard, clock, transport
<1> QED BY <1>2, <1>3, <1>4, <1>5, <1>6, <1>7, <1>8, <1>9 DEF Next

\* A peer that is down, however often it tries to come back, is given up within
\* the grace period and four turns of the loop.
THEOREM NotHeldForGood == Spec => []GivenUpInTime
<1>1. Init => Timely
  BY DEF Init, Timely, Unheard
<1>2. TypeOK /\ Timely => GivenUpInTime
  <2> SUFFICES ASSUME TypeOK, Timely, NEW t \in downAt
               PROVE  now - t < Grace + 4 * MaxTurn
    BY DEF GivenUpInTime
  <2> USE IceGraceAssumption
  <2>1. now \in Nat /\ t \in Nat /\ turn \in Nat /\ turn <= MaxTurn
    BY DEF TypeOK
  <2>2. CASE Unheard
    BY <2>1, <2>2 DEF Timely, Fresh
  <2>3. CASE ~Unheard
    <3>1. PICK s \in disconnectedSince : s <= t + 2 * MaxTurn /\ Running(s)
      BY <2>3 DEF Timely, Unheard
    <3>2. s \in Nat
      BY DEF TypeOK
    <3> QED BY <2>1, <3>1, <3>2 DEF Running
  <2> QED BY <2>2, <2>3
<1> QED
  BY <1>1, <1>2, TypeInit, TypeStep, TimerLagsInit, TimerLagsStep, TimelyStep, PTL DEF Spec
=============================================================================
