---------------------------- MODULE SessionProofs ----------------------------
(***************************************************************************)
(* Proofs about one signaling socket, for any number of frames and any     *)
(* number of messages of the loop.                                         *)
(***************************************************************************)
EXTENDS Session, TLAPS, SequenceTheorems

Command == {"Join", "State", "Leave"}

\* What the sequence operators of the module do.
LEMMA AppendTo ==
  ASSUME NEW S, NEW q \in Seq(S), NEW e \in S
  PROVE  /\ Append(q, e) \in Seq(S) /\ Append(q, e) # <<>>
         /\ Len(Append(q, e)) = Len(q) + 1 /\ Len(q) \in Nat
         /\ \A i \in 1 .. Len(q) : Append(q, e)[i] = q[i]
         /\ Append(q, e)[Len(q) + 1] = e
         /\ Head(Append(q, e)) = IF q = <<>> THEN e ELSE Head(q)
<1>1. /\ Append(q, e) \in Seq(S) /\ Append(q, e) # <<>>
      /\ Len(Append(q, e)) = Len(q) + 1 /\ Len(q) \in Nat
      /\ \A i \in 1 .. Len(q) : Append(q, e)[i] = q[i]
      /\ Append(q, e)[Len(q) + 1] = e
  BY AppendProperties
<1>2. q # <<>> => 1 \in 1 .. Len(q)
  BY EmptySeq
<1>3. q = <<>> => Len(q) = 0
  OBVIOUS
<1> QED BY <1>1, <1>2, <1>3

LEMMA TailOf ==
  ASSUME NEW S, NEW q \in Seq(S), q # <<>>
  PROVE  /\ Tail(q) \in Seq(S) /\ Head(q) \in S /\ Head(q) = q[1]
         /\ Len(q) \in Nat /\ Len(q) > 0 /\ Len(Tail(q)) = Len(q) - 1
         /\ \A i \in 1 .. Len(Tail(q)) : Tail(q)[i] = q[i + 1]
<1>1. Len(q) \in Nat /\ Len(q) # 0
  BY EmptySeq
<1> QED BY <1>1, HeadTailProperties

-----------------------------------------------------------------------------
(* Types                                                                   *)

LEMMA TypeInit == Init => TypeOK
BY SessionAssumption DEF Init, TypeOK

LEMMA ReadTyped ==
  ASSUME TypeOK, NEW frame, Reads(frame) PROVE inbox' \in Seq(Frame)
BY DEF TypeOK, Reads

LEMMA QueuedTyped ==
  ASSUME TypeOK, NEW m \in ServerMsg
  PROVE  Append(out, m) \in Seq(ServerMsg) /\ Append(wire, m) \in Seq(ServerMsg \cup {"close"})
<1>1. out \in Seq(ServerMsg) /\ wire \in Seq(ServerMsg \cup {"close"})
  BY DEF TypeOK
<1>2. m \in ServerMsg \cup {"close"}
  OBVIOUS
<1> QED BY <1>1, <1>2, AppendProperties

LEMMA TypeStep == TypeOK /\ [Next]_vars => TypeOK'
<1> SUFFICES ASSUME TypeOK, [Next]_vars PROVE TypeOK'
  OBVIOUS
<1> USE SessionAssumption
<1>1. CASE ClientSends
  <2>1. inbox' \in Seq(Frame) /\ sent' \in 0 .. MaxFrames
    BY <1>1 DEF ClientSends, TypeOK
  <2> QED BY <1>1, <2>1 DEF ClientSends, TypeOK, taskVars, loopVars
<1>2. CASE ClientCloses
  <2>1. inbox' \in Seq(Frame)
    BY <1>2 DEF ClientCloses, TypeOK, Frame
  <2> QED BY <1>2, <2>1 DEF ClientCloses, TypeOK, taskVars, loopVars
<1>3. CASE JoinDeadline
  BY <1>3 DEF JoinDeadline, TypeOK, clientVars, loopVars
<1>4. CASE FirstFrameUnreadable
  BY <1>4, ReadTyped DEF FirstFrameUnreadable, TypeOK, loopVars
<1>5. CASE FirstFrameRefused
  <2>1. inbox' \in Seq(Frame)
    BY <1>5, ReadTyped DEF FirstFrameRefused
  <2>2. out' \in Seq(ServerMsg)
    BY <1>5 DEF FirstFrameRefused, TypeOK, ServerMsg
  <2> QED BY <1>5, <2>1, <2>2 DEF FirstFrameRefused, TypeOK, loopVars
<1>6. CASE AskLoop
  <2>1. inbox' \in Seq(Frame) /\ commands' \in Seq(Command)
    BY <1>6, ReadTyped DEF AskLoop, TypeOK, Command
  <2> QED BY <1>6, <2>1 DEF AskLoop, TypeOK, loopVars, Command
<1>7. CASE Answered
  BY <1>7 DEF Answered, TypeOK, clientVars, loopVars
<1>8. CASE CloseRefused
  <2>1. out \in Seq(ServerMsg \cup {"close"})
    BY DEF TypeOK
  <2>2. wire' \in Seq(ServerMsg \cup {"close"})
    BY <1>8, <2>1, ConcatProperties DEF CloseRefused, Flushed, TypeOK
  <2> QED BY <1>8, <2>2 DEF CloseRefused, TypeOK, clientVars, loopVars
<1>9. CASE ForwardCommand
  <2>1. inbox' \in Seq(Frame) /\ commands' \in Seq(Command)
    BY <1>9, ReadTyped DEF ForwardCommand, TypeOK, Command
  <2> QED BY <1>9, <2>1 DEF ForwardCommand, TypeOK, taskVars, loopVars, Command
<1>10. CASE ForwardAnswer
  <2>1. inbox' \in Seq(Frame)
    BY <1>10, ReadTyped DEF ForwardAnswer
  <2>2. out' \in Seq(ServerMsg)
    <3>1. out' = out \/ out' = Append(out, "pong") \/ out' = Append(out, "error")
      BY <1>10 DEF ForwardAnswer
    <3> QED BY <3>1, QueuedTyped DEF TypeOK, ServerMsg
  <2> QED BY <1>10, <2>1, <2>2 DEF ForwardAnswer, TypeOK, taskVars, loopVars
<1>11. CASE LeaveRoom
  <2>1. inbox' \in Seq(Frame) /\ commands' \in Seq(Command)
    BY <1>11, ReadTyped DEF LeaveRoom, LeaveSaid, TypeOK, Command
  <2> QED BY <1>11, <2>1 DEF LeaveRoom, TypeOK, loopVars, Command
<1>12. CASE WriterSends
  <2>1. out' \in Seq(ServerMsg) /\ Head(out) \in ServerMsg
    BY <1>12 DEF WriterSends, TypeOK
  <2>2. wire' \in Seq(ServerMsg \cup {"close"})
    <3>1. wire' = wire \/ wire' = Append(wire, Head(out))
      BY <1>12 DEF WriterSends
    <3> QED BY <2>1, <3>1, QueuedTyped DEF TypeOK
  <2> QED BY <1>12, <2>1, <2>2 DEF WriterSends, TypeOK, clientVars, loopVars
<1>13. ASSUME NEW c, Applies(c) PROVE commands' \in Seq(Command) /\ loop = "idle"
  BY <1>13 DEF Applies, TypeOK, Command
<1>14. CASE LoopRefuses
  <2>1. out' \in Seq(ServerMsg)
    BY <1>14 DEF LoopRefuses, ToldOfRefusal, TypeOK, ServerMsg
  <2> QED BY <1>13, <1>14, <2>1 DEF LoopRefuses, TypeOK, taskVars, clientVars, Command
<1>15. CASE LoopSeats
  <2>1. out' \in Seq(ServerMsg)
    BY <1>15 DEF LoopSeats, ToldOfRoom, TypeOK, ServerMsg
  <2> QED BY <1>13, <1>15, <2>1 DEF LoopSeats, TypeOK, taskVars, clientVars, Command
<1>16. CASE LoopAnswers
  BY <1>16 DEF LoopAnswers, TypeOK, taskVars, clientVars
<1>17. CASE LoopAppliesState
  <2>1. out' \in Seq(ServerMsg)
    <3>1. out' = out \/ out' = Append(out, "push")
      BY <1>17 DEF LoopAppliesState
    <3> QED BY <3>1, QueuedTyped DEF TypeOK, ServerMsg
  <2> QED BY <1>13, <1>17, <2>1 DEF LoopAppliesState, TypeOK, taskVars, clientVars, loopVars, Command
<1>18. CASE LoopAppliesLeave
  BY <1>13, <1>18 DEF LoopAppliesLeave, TypeOK, taskVars, clientVars, Command
<1>19. CASE LoopPushes
  <2>1. out' \in Seq(ServerMsg) /\ pushes' \in 0 .. MaxPushes
    BY <1>19 DEF LoopPushes, TypeOK, ServerMsg
  <2> QED BY <1>19, <2>1 DEF LoopPushes, TypeOK, taskVars, clientVars
<1>20. CASE LoopDropsPeer
  <2>1. out' \in Seq(ServerMsg)
    <3>1. out' = out \/ out' = Append(out, "replaced")
      BY <1>20 DEF LoopDropsPeer
    <3> QED BY <3>1, QueuedTyped DEF TypeOK, ServerMsg
  <2> QED BY <1>20, <2>1 DEF LoopDropsPeer, TypeOK, taskVars, clientVars
<1>21. CASE LoopStops
  BY <1>21 DEF LoopStops, JoinDropped, TypeOK, taskVars, clientVars
<1>22. CASE UNCHANGED vars
  BY <1>22 DEF vars, taskVars, clientVars, loopVars, TypeOK
<1> QED BY <1>1, <1>2, <1>3, <1>4, <1>5, <1>6, <1>7, <1>8, <1>9, <1>10, <1>11, <1>12, <1>14,
           <1>15, <1>16, <1>17, <1>18, <1>19, <1>20, <1>21, <1>22
        DEF Next, Client, Admit, Forward, Loop, LoopApplies

\* Tasks, channels and the loop's view of the socket keep their types.
THEOREM SessionTyped == Spec => []TypeOK
BY TypeInit, TypeStep, PTL DEF Spec

-----------------------------------------------------------------------------
(* The stages of a socket                                                  *)

Silent == commands = <<>> /\ seat = "none"

\* Nothing was asked of the loop: it knows nothing of the socket.
Unasked ==
  /\ assigned = "none" => /\ Silent /\ loop \in {"idle", "stopped"}
                          /\ task \in {"opened", "refused", "closed"}
  /\ task = "opened" => assigned = "none" /\ out = <<>>
  /\ task \in {"opened", "asking", "refused"} => wire = <<>> /\ writer = "none"

\* The loop has the join, or has said what becomes of it and will answer.
Waiting ==
  /\ loop \in {"refusing", "seating"} => assigned = "waiting"
  /\ assigned = "waiting" =>
       /\ task = "asking"
       /\ \/ loop = "idle" /\ commands = <<"Join">> /\ out = <<>> /\ seat = "none"
          \/ loop = "refusing" /\ Silent /\ out = <<"error">>
          \/ loop = "seating" /\ commands = <<>> /\ out = <<"joined">> /\ seat = "taken"

\* The loop has refused, or ended with the join in its queue.
TurnedDown ==
  /\ assigned \in {"refused", "dropped"} => /\ Silent /\ loop \in {"idle", "stopped"}
                                           /\ task \in {"asking", "refused", "closed"}
  /\ assigned = "refused" /\ task # "closed" => out = <<"error">>
  /\ assigned = "refused" /\ task = "closed" => wire = <<"error", "close">>

\* The loop has seated the client: the reply is first on its way to it, and what
\* the session asks of the loop ends in the leave.
OnlyState == \A i \in 1 .. Len(commands) : commands[i] = "State"
Farewell ==
  /\ \A i \in 1 .. Len(commands) :
       commands[i] = IF i = Len(commands) THEN "Leave" ELSE "State"
  /\ commands = <<>> => seat # "taken"
ReplyFirst ==
  /\ wire # <<>> => Head(wire) = "joined"
  /\ wire = <<>> /\ writer \in {"none", "running"} => out # <<>> /\ Head(out) = "joined"
Seated ==
  /\ task = "admitted" \/ writer # "none" => assigned = "peer"
  /\ writer = "running" => task = "admitted"
  /\ assigned = "peer" =>
       /\ task \in {"asking", "admitted", "closed"} /\ loop \in {"idle", "stopped"}
       /\ task = "asking" => commands = <<>>
       /\ task = "admitted" => OnlyState
       /\ task = "closed" => Farewell
       /\ ReplyFirst
  /\ loop = "stopped" => commands = <<>> /\ seat # "taken"

Stages == Unasked /\ Waiting /\ TurnedDown /\ Seated

stageVars == <<task, writer, commands, assigned, out, wire, loop, seat>>

LEMMA StagesInit == Init => Stages
BY DEF Init, Stages, Unasked, Waiting, TurnedDown, Seated, Silent

LEMMA IdleStages ==
  ASSUME Stages, UNCHANGED stageVars PROVE Stages'
BY DEF stageVars, Stages, Unasked, Waiting, TurnedDown, Seated, Silent, OnlyState, Farewell,
       ReplyFirst

\* A command that is applied tells how far its session has come.
LEMMA AppliedStage ==
  ASSUME TypeOK, Stages, NEW c, Applies(c)
  PROVE  /\ c = "Join" => assigned = "waiting" /\ Tail(commands) = <<>>
         /\ c # "Join" => assigned = "peer" /\ task \in {"admitted", "closed"}
         /\ c = "Leave" => task = "closed" /\ Len(commands) = 1
<1>1. /\ loop = "idle" /\ commands # <<>> /\ Head(commands) = c
      /\ Head(commands) = commands[1] /\ 1 \in 1 .. Len(commands)
      /\ Len(commands) \in Nat
  BY TailOf DEF Applies, TypeOK
<1>2. assigned \in {"waiting", "peer"}
  BY <1>1 DEF TypeOK, Stages, Unasked, TurnedDown, Silent
<1>3. CASE assigned = "waiting"
  <2>1. commands = <<"Join">>
    BY <1>1, <1>3 DEF Stages, Waiting
  <2> QED BY <1>1, <1>3, <2>1
<1>4. CASE assigned = "peer"
  <2>1. CASE task = "admitted"
    <3>1. c = "State"
      BY <1>1, <1>4, <2>1 DEF Stages, Seated, OnlyState
    <3> QED BY <1>4, <2>1, <3>1
  <2>2. CASE task = "closed"
    <3>1. c = IF 1 = Len(commands) THEN "Leave" ELSE "State"
      BY <1>1, <1>4, <2>2 DEF Stages, Seated, Farewell
    <3> QED BY <1>4, <2>2, <3>1
  <2> QED BY <1>1, <1>4, <2>1, <2>2 DEF Stages, Seated
<1> QED BY <1>2, <1>3, <1>4

\* Messages may join the queue as long as the reply stays in front.
LEMMA ReplyStaysFirst ==
  ASSUME TypeOK, ReplyFirst, NEW m \in ServerMsg,
         out' = Append(out, m) \/ out' = out,
         UNCHANGED <<wire, writer>>
  PROVE  ReplyFirst'
<1>1. out' = out => ReplyFirst'
  BY DEF ReplyFirst
<1>2. out' = Append(out, m) => out' # <<>> /\ (out # <<>> => Head(out') = Head(out))
  <2>1. out \in Seq(ServerMsg)
    BY DEF TypeOK
  <2>2. Append(out, m) # <<>> /\ (out # <<>> => Head(Append(out, m)) = Head(out))
    BY <2>1, AppendTo
  <2> QED BY <2>2
<1> QED BY <1>1, <1>2 DEF ReplyFirst

\* The client has not been admitted, or will not be.
LEMMA RefusedStages ==
  ASSUME Stages,
         JoinDeadline \/ FirstFrameUnreadable \/ FirstFrameRefused
  PROVE  Stages'
<1>1. /\ task = "opened" /\ task' = "refused"
      /\ UNCHANGED <<writer, commands, assigned, wire, loop, seat>>
  BY DEF JoinDeadline, FirstFrameUnreadable, FirstFrameRefused, clientVars, loopVars
<1> QED BY <1>1 DEF Stages, Unasked, Waiting, TurnedDown, Seated, Silent

LEMMA AskStages == TypeOK /\ Stages /\ AskLoop => Stages'
<1> SUFFICES ASSUME TypeOK, Stages, AskLoop PROVE Stages'
  OBVIOUS
<1>1. /\ task = "opened" /\ task' = "asking" /\ assigned' = "waiting" /\ loop # "stopped"
      /\ commands' = Append(commands, "Join") /\ UNCHANGED <<writer, out, wire, loop, seat>>
  BY DEF AskLoop, loopVars
<1>2. commands' = <<"Join">>
  BY <1>1 DEF Stages, Unasked, Silent
<1> QED BY <1>1, <1>2 DEF Stages, Unasked, Waiting, TurnedDown, Seated, Silent

LEMMA AnsweredStages == TypeOK /\ Stages /\ Answered => Stages'
<1> SUFFICES ASSUME TypeOK, Stages, Answered PROVE Stages'
  OBVIOUS
<1>1. task = "asking" /\ UNCHANGED <<commands, assigned, out, wire, loop, seat>>
  BY DEF Answered, loopVars
<1>2. CASE assigned = "peer" /\ task' = "admitted" /\ writer' = "running"
  <2>1. commands = <<>> /\ wire = <<>> /\ writer = "none"
    BY <1>1, <1>2 DEF Stages, Seated, Unasked
  <2>2. OnlyState' /\ ReplyFirst'
    BY <1>1, <1>2, <2>1 DEF OnlyState, ReplyFirst, Stages, Seated
  <2> QED BY <1>1, <1>2, <2>1, <2>2 DEF Stages, Unasked, Waiting, TurnedDown, Seated
<1>3. CASE assigned \in {"refused", "dropped"} /\ task' = "refused" /\ UNCHANGED writer
  BY <1>1, <1>3 DEF Stages, Unasked, Waiting, TurnedDown, Seated, Silent
<1> QED BY <1>2, <1>3 DEF Answered

LEMMA CloseStages == TypeOK /\ Stages /\ CloseRefused => Stages'
<1> SUFFICES ASSUME TypeOK, Stages, CloseRefused PROVE Stages'
  OBVIOUS
<1>1. /\ task = "refused" /\ task' = "closed"
      /\ wire' = wire \o out \o <<"close">> /\ out' = <<>>
      /\ UNCHANGED <<writer, commands, assigned, loop, seat>>
  BY DEF CloseRefused, Flushed, loopVars
<1>2. wire = <<>> /\ writer = "none" /\ assigned \in {"none", "refused", "dropped"}
  BY <1>1 DEF TypeOK, Stages, Unasked, Waiting, Seated
<1>3. assigned = "refused" => wire' = <<"error", "close">>
  <2> SUFFICES ASSUME assigned = "refused" PROVE wire' = <<>> \o <<"error">> \o <<"close">>
    OBVIOUS
  <2> QED BY <1>1, <1>2 DEF Stages, TurnedDown
<1> QED BY <1>1, <1>2, <1>3 DEF Stages, Unasked, Waiting, TurnedDown, Seated, Silent

\* The client is admitted: what it sends is forwarded or answered.
LEMMA ForwardStages == TypeOK /\ Stages /\ Forward => Stages'
<1> SUFFICES ASSUME TypeOK, Stages, Forward PROVE Stages'
  OBVIOUS
<1>1. task = "admitted" /\ assigned = "peer" /\ OnlyState /\ ReplyFirst
  BY DEF Forward, ForwardCommand, ForwardAnswer, LeaveRoom, Stages, Seated
<1>2. CASE ForwardCommand
  <2>1. /\ commands' = Append(commands, "State") /\ loop # "stopped"
        /\ UNCHANGED <<task, writer, assigned, out, wire, loop, seat>>
    BY <1>2 DEF ForwardCommand, taskVars, loopVars
  <2>2. OnlyState'
    <3>1. /\ Len(commands') = Len(commands) + 1 /\ Len(commands) \in Nat
          /\ \A i \in 1 .. Len(commands) : commands'[i] = commands[i]
          /\ commands'[Len(commands) + 1] = "State"
      BY <2>1, AppendTo DEF TypeOK
    <3> QED BY <1>1, <3>1 DEF OnlyState
  <2>3. ReplyFirst'
    BY <1>1, <2>1 DEF ReplyFirst
  <2> QED BY <1>1, <2>1, <2>2, <2>3 DEF Stages, Unasked, Waiting, TurnedDown, Seated
<1>3. CASE ForwardAnswer
  <2>1. /\ out' = out \/ out' = Append(out, "pong") \/ out' = Append(out, "error")
        /\ UNCHANGED <<task, writer, commands, assigned, wire, loop, seat>>
    BY <1>3 DEF ForwardAnswer, taskVars, loopVars
  <2>2. ReplyFirst'
    BY <1>1, <2>1, ReplyStaysFirst DEF ServerMsg
  <2>3. OnlyState'
    BY <1>1, <2>1 DEF OnlyState
  <2> QED BY <1>1, <2>1, <2>2, <2>3 DEF Stages, Unasked, Waiting, TurnedDown, Seated
<1>4. CASE LeaveRoom
  <2>1. /\ commands' = LeaveSaid /\ task' = "closed" /\ writer' = "aborted"
        /\ UNCHANGED <<assigned, out, wire, loop, seat>>
    BY <1>4 DEF LeaveRoom, loopVars
  <2>2. CASE loop = "stopped"
    <3>1. commands' = <<>> /\ seat # "taken"
      BY <2>1, <2>2 DEF LeaveSaid, Stages, Seated
    <3>2. Farewell' /\ ReplyFirst'
      BY <1>1, <2>1, <3>1 DEF Farewell, ReplyFirst
    <3> QED BY <1>1, <2>1, <2>2, <3>1, <3>2 DEF Stages, Unasked, Waiting, TurnedDown, Seated
  <2>3. CASE loop # "stopped"
    <3>1. commands' = Append(commands, "Leave")
      BY <2>1, <2>3 DEF LeaveSaid
    <3>2. /\ Len(commands') = Len(commands) + 1 /\ Len(commands) \in Nat
          /\ \A i \in 1 .. Len(commands) : commands'[i] = commands[i]
          /\ commands'[Len(commands) + 1] = "Leave" /\ commands' # <<>>
      <4>1. commands \in Seq({"Join", "State", "Leave"})
        BY DEF TypeOK
      <4>2. "Leave" \in {"Join", "State", "Leave"}
        OBVIOUS
      <4> QED BY <3>1, <4>1, <4>2, AppendTo
    <3>3. Farewell'
      BY <1>1, <3>2 DEF Farewell, OnlyState
    <3>4. ReplyFirst'
      BY <1>1, <2>1 DEF ReplyFirst
    <3> QED BY <1>1, <2>1, <2>3, <3>3, <3>4 DEF Stages, Unasked, Waiting, TurnedDown, Seated
  <2> QED BY <2>2, <2>3
<1> QED BY <1>2, <1>3, <1>4 DEF Forward

LEMMA WriterStages == TypeOK /\ Stages /\ WriterSends => Stages'
<1> SUFFICES ASSUME TypeOK, Stages, WriterSends PROVE Stages'
  OBVIOUS
<1>1. /\ writer = "running" /\ out # <<>> /\ out' = Tail(out)
      /\ \/ wire' = Append(wire, Head(out)) /\ writer' = writer
         \/ writer' = "failed" /\ wire' = wire
      /\ UNCHANGED <<task, commands, assigned, loop, seat>>
  BY DEF WriterSends, loopVars
<1>2. task = "admitted" /\ assigned = "peer" /\ OnlyState /\ ReplyFirst
  BY <1>1 DEF Stages, Seated
<1>3. OnlyState'
  BY <1>1, <1>2 DEF OnlyState
<1>4. ReplyFirst'
  <2>1. CASE wire' = Append(wire, Head(out))
    <3>1. Head(out) \in ServerMsg \cup {"close"} /\ wire \in Seq(ServerMsg \cup {"close"})
      BY <1>1, TailOf DEF TypeOK
    <3>2. wire' # <<>> /\ Head(wire') = IF wire = <<>> THEN Head(out) ELSE Head(wire)
      BY <2>1, <3>1, AppendTo
    <3> QED BY <1>1, <1>2, <3>2 DEF ReplyFirst
  <2>2. CASE writer' = "failed" /\ wire' = wire
    BY <1>2, <2>2 DEF ReplyFirst
  <2> QED BY <1>1, <2>1, <2>2
<1> QED BY <1>1, <1>2, <1>3, <1>4 DEF Stages, Unasked, Waiting, TurnedDown, Seated

-----------------------------------------------------------------------------
(* The loop's steps                                                        *)

LEMMA JoinStages == TypeOK /\ Stages /\ (LoopRefuses \/ LoopSeats) => Stages'
<1> SUFFICES ASSUME TypeOK, Stages, LoopRefuses \/ LoopSeats PROVE Stages'
  OBVIOUS
<1>1. /\ Applies("Join") /\ loop = "idle" /\ commands # <<>> /\ commands' = Tail(commands)
      /\ UNCHANGED <<task, writer, assigned, wire>>
  BY DEF LoopRefuses, LoopSeats, Applies, taskVars
<1>2. assigned = "waiting" /\ commands' = <<>>
  BY <1>1, AppliedStage
<1>3. task = "asking" /\ out = <<>> /\ seat = "none"
  BY <1>1, <1>2 DEF Stages, Waiting
<1>4. \/ loop' = "refusing" /\ out' = <<"error">> /\ seat' = "none"
      \/ loop' = "seating" /\ out' = <<"joined">> /\ seat' = "taken"
  BY <1>3 DEF LoopRefuses, LoopSeats, ToldOfRefusal, ToldOfRoom
<1> QED BY <1>1, <1>2, <1>3, <1>4 DEF Stages, Unasked, Waiting, TurnedDown, Seated, Silent

LEMMA LoopAnswersStages == TypeOK /\ Stages /\ LoopAnswers => Stages'
<1> SUFFICES ASSUME TypeOK, Stages, LoopAnswers PROVE Stages'
  OBVIOUS
<1>1. /\ loop' = "idle" /\ UNCHANGED <<task, writer, commands, out, wire, seat>>
      /\ assigned = "waiting" /\ task = "asking"
      /\ wire = <<>> /\ writer = "none"
  BY DEF LoopAnswers, taskVars, Stages, Waiting, Unasked
<1>2. CASE loop = "refusing" /\ assigned' = "refused"
  BY <1>1, <1>2 DEF Stages, Unasked, Waiting, TurnedDown, Seated, Silent
<1>3. CASE loop = "seating" /\ assigned' = "peer"
  <2>1. out = <<"joined">> /\ commands = <<>>
    BY <1>1, <1>3 DEF Stages, Waiting
  <2>2. ReplyFirst'
    BY <1>1, <2>1 DEF ReplyFirst
  <2> QED BY <1>1, <1>3, <2>1, <2>2 DEF Stages, Unasked, Waiting, TurnedDown, Seated
<1> QED BY <1>2, <1>3 DEF LoopAnswers

LEMMA CommandStages ==
  TypeOK /\ Stages /\ (LoopAppliesState \/ LoopAppliesLeave) => Stages'
<1> SUFFICES ASSUME TypeOK, Stages, LoopAppliesState \/ LoopAppliesLeave PROVE Stages'
  OBVIOUS
<1>1. PICK c \in {"State", "Leave"} :
        /\ Applies(c)
        /\ c = "State" => LoopAppliesState
        /\ c = "Leave" => LoopAppliesLeave
  BY DEF LoopAppliesState, LoopAppliesLeave
<1>2. /\ assigned = "peer" /\ task \in {"admitted", "closed"}
      /\ c = "Leave" => task = "closed" /\ Len(commands) = 1
  BY <1>1, AppliedStage
<1>3. /\ loop = "idle" /\ commands # <<>> /\ commands' = Tail(commands)
      /\ Head(commands) = c
      /\ UNCHANGED <<task, writer, assigned, wire, loop>>
      /\ out' = out \/ out' = Append(out, "push")
      /\ seat' = IF c = "Leave" THEN "gone" ELSE seat
  BY <1>1 DEF LoopAppliesState, LoopAppliesLeave, Applies, taskVars, loopVars
<1>4. /\ Len(commands) \in Nat /\ Len(commands) > 0 /\ commands[1] = c
      /\ Len(commands') = Len(commands) - 1
      /\ \A i \in 1 .. Len(commands') : commands'[i] = commands[i + 1]
      /\ commands' \in Seq({"Join", "State", "Leave"})
  BY <1>3, TailOf DEF TypeOK
<1>5. ReplyFirst'
  BY <1>2, <1>3, ReplyStaysFirst DEF Stages, Seated, ServerMsg
<1>6. CASE task = "admitted"
  <2>1. OnlyState
    BY <1>2, <1>6 DEF Stages, Seated
  <2>2. OnlyState'
    BY <1>4, <2>1 DEF OnlyState
  <2> QED BY <1>2, <1>3, <1>5, <1>6, <2>2 DEF Stages, Unasked, Waiting, TurnedDown, Seated
<1>7. CASE task = "closed"
  <2>1. Farewell
    BY <1>2, <1>7 DEF Stages, Seated
  <2>2. \A i \in 1 .. Len(commands') :
          commands'[i] = IF i = Len(commands') THEN "Leave" ELSE "State"
    <3> SUFFICES ASSUME NEW i \in 1 .. Len(commands')
                 PROVE  commands'[i] = IF i = Len(commands') THEN "Leave" ELSE "State"
      OBVIOUS
    <3>1. i + 1 \in 1 .. Len(commands) /\ (i + 1 = Len(commands) <=> i = Len(commands'))
      BY <1>4
    <3> QED BY <1>4, <2>1, <3>1 DEF Farewell
  <2>3. commands' = <<>> => seat' # "taken"
    <3>1. commands' = <<>> => Len(commands) = 1
      BY <1>4
    <3>2. Len(commands) = 1 => c = "Leave"
      BY <1>4, <2>1 DEF Farewell
    <3> QED BY <1>3, <3>1, <3>2
  <2>4. Farewell'
    BY <2>2, <2>3 DEF Farewell
  <2> QED BY <1>2, <1>3, <1>5, <1>7, <2>4 DEF Stages, Unasked, Waiting, TurnedDown, Seated
<1> QED BY <1>2, <1>6, <1>7

LEMMA RoomStages == TypeOK /\ Stages /\ (LoopPushes \/ LoopDropsPeer) => Stages'
<1> SUFFICES ASSUME TypeOK, Stages, LoopPushes \/ LoopDropsPeer PROVE Stages'
  OBVIOUS
<1>1. /\ loop = "idle" /\ seat = "taken" /\ seat' \in {"taken", "gone"}
      /\ out' = out \/ out' = Append(out, "push") \/ out' = Append(out, "replaced")
      /\ UNCHANGED <<task, writer, commands, assigned, wire, loop>>
  BY DEF LoopPushes, LoopDropsPeer, taskVars
<1>2. assigned = "peer"
  BY <1>1 DEF TypeOK, Stages, Unasked, Waiting, TurnedDown, Silent
<1>3. ReplyFirst'
  BY <1>1, <1>2, ReplyStaysFirst DEF Stages, Seated, ServerMsg
<1>4. (OnlyState => OnlyState') /\ (Farewell => Farewell')
  BY <1>1 DEF OnlyState, Farewell
<1> QED BY <1>1, <1>2, <1>3, <1>4 DEF Stages, Unasked, Waiting, TurnedDown, Seated

LEMMA StopStages == TypeOK /\ Stages /\ LoopStops => Stages'
<1> SUFFICES ASSUME TypeOK, Stages, LoopStops PROVE Stages'
  OBVIOUS
<1>1. /\ loop = "idle" /\ loop' = "stopped" /\ commands' = <<>>
      /\ assigned' = IF assigned = "waiting" THEN "dropped" ELSE assigned
      /\ seat' = IF seat = "taken" THEN "gone" ELSE seat
      /\ UNCHANGED <<task, writer, out, wire>>
  BY DEF LoopStops, JoinDropped, taskVars
<1>2. OnlyState' /\ Farewell'
  BY <1>1 DEF OnlyState, Farewell
<1>3. ReplyFirst => ReplyFirst'
  BY <1>1 DEF ReplyFirst
<1>4. CASE assigned = "waiting"
  <2>1. task = "asking" /\ seat = "none"
    BY <1>1, <1>4 DEF Stages, Waiting
  <2> QED BY <1>1, <1>4, <2>1 DEF Stages, Unasked, Waiting, TurnedDown, Seated, Silent
<1>5. CASE assigned # "waiting"
  BY <1>1, <1>2, <1>3, <1>5 DEF Stages, Unasked, Waiting, TurnedDown, Seated, Silent
<1> QED BY <1>4, <1>5

LEMMA StagesStep == TypeOK /\ Stages /\ [Next]_vars => Stages'
<1> SUFFICES ASSUME TypeOK, Stages, [Next]_vars PROVE Stages'
  OBVIOUS
<1>1. Client \/ UNCHANGED vars => UNCHANGED stageVars
  BY DEF Client, ClientSends, ClientCloses, vars, taskVars, loopVars, clientVars, stageVars
<1> QED BY <1>1, IdleStages, RefusedStages, AskStages, AnsweredStages, CloseStages,
           ForwardStages, WriterStages, JoinStages, LoopAnswersStages, CommandStages,
           RoomStages, StopStages
        DEF Next, Admit, Loop, LoopApplies

LEMMA Invariance == Spec => [](TypeOK /\ Stages)
<1>1. TypeOK /\ Stages /\ [Next]_vars => (TypeOK /\ Stages)'
  BY TypeStep, StagesStep
<1> QED BY <1>1, TypeInit, StagesInit, PTL DEF Spec

-----------------------------------------------------------------------------
(* What follows                                                            *)

\* A client the loop refuses reads why, on its own channel, before the close.
THEOREM RefusalsAreTold == Spec => []LoopRefusalTold
<1>1. TypeOK /\ Stages => LoopRefusalTold
  BY DEF Stages, TurnedDown, LoopRefusalTold
<1> QED BY <1>1, Invariance, PTL

\* Nothing the room is sent overtakes the reply to the join.
THEOREM ReplyComesFirst == Spec => []JoinedFirst
<1>1. TypeOK /\ Stages => JoinedFirst
  BY DEF Stages, Seated, ReplyFirst, JoinedFirst
<1> QED BY <1>1, Invariance, PTL

\* A session asks for nothing after its leave.
THEOREM LeaveEndsIt == Spec => []LeaveIsLast
<1>1. TypeOK /\ Stages => LeaveIsLast
  <2> SUFFICES ASSUME TypeOK, Stages, NEW i \in 1 .. Len(commands)
               PROVE  /\ commands[i] = "Leave" => i = Len(commands) /\ task = "closed"
                      /\ commands[i] = "Join" => i = 1 /\ task = "asking"
    BY DEF LeaveIsLast, TypeOK
  <2>1. commands # <<>>
    OBVIOUS
  <2>2. assigned \in {"waiting", "peer"}
    BY <2>1 DEF TypeOK, Stages, Unasked, TurnedDown, Silent
  <2>3. CASE assigned = "waiting"
    <3>1. commands = <<"Join">> /\ task = "asking"
      BY <2>1, <2>3 DEF Stages, Waiting, Silent
    <3> QED BY <3>1
  <2>4. CASE assigned = "peer"
    BY <2>1, <2>4 DEF Stages, Seated, OnlyState, Farewell
  <2> QED BY <2>2, <2>3, <2>4
<1> QED BY <1>1, Invariance, PTL

\* No seat outlives its socket unless the leave that frees it is on its way.
THEOREM SeatsAreAccountedFor == Spec => []NoOrphanSeat
<1>1. TypeOK /\ Stages => NoOrphanSeat
  <2> SUFFICES ASSUME TypeOK, Stages, task = "closed", seat = "taken"
               PROVE  commands # <<>> /\ commands[Len(commands)] = "Leave"
    BY DEF NoOrphanSeat, Last
  <2>1. assigned = "peer"
    BY DEF TypeOK, Stages, Unasked, Waiting, TurnedDown, Silent
  <2>2. Farewell /\ commands # <<>>
    BY <2>1 DEF Stages, Seated, Farewell
  <2>3. Len(commands) \in 1 .. Len(commands)
    BY <2>2, TailOf DEF TypeOK
  <2> QED BY <2>2, <2>3 DEF Farewell
<1> QED BY <1>1, Invariance, PTL

-----------------------------------------------------------------------------
(* Nobody waits for nothing                                                *)

\* A client that waits for the loop's answer has it, or the loop can still give
\* it: the join is all there is in the queue of a running loop, or the loop is
\* between its message and the oneshot.  Never is a join lost with its oneshot.
AnswerComing ==
  task = "asking" =>
    \/ assigned \in {"peer", "refused", "dropped"}
    \/ loop = "idle" /\ commands = <<"Join">>
    \/ loop \in {"refusing", "seating"}

\* The safety half of EverySocketAnswered, against a loop that ends at any moment.
THEOREM AnswerIsComing == Spec => []AnswerComing
<1>1. TypeOK /\ Stages => AnswerComing
  BY DEF TypeOK, Stages, Unasked, Waiting, AnswerComing
<1> QED BY <1>1, Invariance, PTL

\* As long as the task reads, the close of the socket is the last thing it will
\* read, and nothing else looks like one.
Listening == task \in {"opened", "asking", "admitted"}
HangupQueued == ~open /\ Listening => inbox # <<>> /\ inbox[Len(inbox)] = "close"
ClosedOnce == \A i \in 1 .. Len(inbox) : inbox[i] = "close" => ~open /\ i = Len(inbox)

LEMMA ReadHangup ==
  ASSUME TypeOK, ClosedOnce, HangupQueued, NEW frame, Reads(frame), open' = open,
         frame = "close" => task' \notin {"opened", "asking", "admitted"},
         Listening' => Listening
  PROVE  ClosedOnce' /\ HangupQueued'
<1>1. /\ inbox \in Seq(Frame) /\ inbox # <<>> /\ inbox' = Tail(inbox) /\ Head(inbox) = frame
      /\ inbox[1] = frame /\ Len(inbox) \in Nat /\ Len(inbox) > 0
      /\ inbox' \in Seq(Frame) /\ Len(inbox') = Len(inbox) - 1
      /\ \A i \in 1 .. Len(inbox') : inbox'[i] = inbox[i + 1]
  BY TailOf DEF TypeOK, Reads
<1>2. ClosedOnce'
  <2> SUFFICES ASSUME NEW i \in 1 .. Len(inbox'), inbox'[i] = "close"
               PROVE  ~open /\ i = Len(inbox')
    BY DEF ClosedOnce
  <2>1. i + 1 \in 1 .. Len(inbox) /\ inbox[i + 1] = "close"
    BY <1>1
  <2>2. ~open /\ i + 1 = Len(inbox)
    BY <2>1 DEF ClosedOnce
  <2>3. i \in Int /\ Len(inbox) \in Int /\ Len(inbox') = Len(inbox) - 1
    BY <1>1
  <2>4. i = Len(inbox')
    BY <2>2, <2>3
  <2> QED BY <2>2, <2>4
<1>3. HangupQueued'
  <2> SUFFICES ASSUME ~open, Listening, Listening'
               PROVE  inbox' # <<>> /\ inbox'[Len(inbox')] = "close"
    BY DEF HangupQueued
  <2>1. inbox[Len(inbox)] = "close" /\ frame # "close"
    BY DEF HangupQueued, Listening
  <2>2. Len(inbox) # 1
    BY <1>1, <2>1
  <2>3. Len(inbox') \in 1 .. Len(inbox') /\ Len(inbox') + 1 = Len(inbox)
    BY <1>1, <2>2
  <2>4. inbox'[Len(inbox')] = inbox[Len(inbox') + 1]
    BY <1>1, <2>3
  <2>5. inbox' # <<>>
    BY <2>3
  <2> QED BY <2>1, <2>3, <2>4, <2>5
<1> QED BY <1>2, <1>3

LEMMA HangupStep ==
  TypeOK /\ ClosedOnce /\ HangupQueued /\ [Next]_vars => ClosedOnce' /\ HangupQueued'
<1> SUFFICES ASSUME TypeOK, ClosedOnce, HangupQueued, [Next]_vars
             PROVE  ClosedOnce' /\ HangupQueued'
  OBVIOUS
<1>1. CASE Client
  <2>1. PICK frame \in Frame :
          /\ open /\ inbox' = Append(inbox, frame) /\ task' = task
          /\ (frame = "close") = ~open'
    BY <1>1 DEF Client, ClientSends, ClientCloses, Frame, taskVars
  <2>2. /\ Len(inbox') = Len(inbox) + 1 /\ Len(inbox) \in Nat /\ inbox' # <<>>
        /\ \A i \in 1 .. Len(inbox) : inbox'[i] = inbox[i]
        /\ inbox'[Len(inbox) + 1] = frame
    BY <2>1, AppendTo DEF TypeOK
  <2>3. \A i \in 1 .. Len(inbox) : inbox'[i] # "close"
    BY <2>1, <2>2 DEF ClosedOnce
  <2>4. ClosedOnce'
    <3> SUFFICES ASSUME NEW i \in 1 .. Len(inbox'), inbox'[i] = "close"
                 PROVE  ~open' /\ i = Len(inbox')
      BY DEF ClosedOnce
    <3>1. i = Len(inbox) + 1
      BY <2>2, <2>3
    <3> QED BY <2>1, <2>2, <3>1
  <2>5. HangupQueued'
    BY <2>1, <2>2 DEF HangupQueued
  <2> QED BY <2>4, <2>5
<1>2. CASE \/ FirstFrameUnreadable \/ FirstFrameRefused \/ AskLoop \/ Forward
  <2>1. PICK frame : /\ Reads(frame) /\ open' = open
                     /\ frame = "close" => task' \notin {"opened", "asking", "admitted"}
                     /\ Listening' => Listening
    BY <1>2 DEF FirstFrameUnreadable, FirstFrameRefused, AskLoop, Forward, ForwardCommand,
       ForwardAnswer, LeaveRoom, Listening, taskVars
  <2> QED BY <2>1, ReadHangup
<1>3. CASE UNCHANGED <<inbox, open>> /\ (Listening' => Listening)
  BY <1>3 DEF ClosedOnce, HangupQueued
<1>4. CASE JoinDeadline \/ Answered \/ CloseRefused
  <2>1. UNCHANGED <<inbox, open>> /\ (Listening' => Listening)
    BY <1>4 DEF JoinDeadline, Answered, CloseRefused, Listening, clientVars
  <2> QED BY <1>3, <2>1
<1>5. CASE WriterSends \/ Loop \/ UNCHANGED vars
  <2>1. UNCHANGED <<task, inbox, open>>
    BY <1>5 DEF WriterSends, Loop, LoopApplies, LoopRefuses, LoopSeats, LoopAnswers,
       LoopAppliesState, LoopAppliesLeave, LoopPushes, LoopDropsPeer, LoopStops, vars,
       taskVars, clientVars
  <2> QED BY <1>3, <2>1 DEF Listening
<1> QED BY <1>1, <1>2, <1>4, <1>5 DEF Next, Admit

\* A client that goes away is noticed by a task that still reads, whatever is in
\* front of the close: it cannot be read past.
THEOREM HangupIsNoticed == Spec => []HangupQueued
<1>1. Init => ClosedOnce /\ HangupQueued
  BY DEF Init, ClosedOnce, HangupQueued
<1>2. TypeOK /\ Stages /\ ClosedOnce /\ HangupQueued /\ [Next]_vars
        => (ClosedOnce /\ HangupQueued)'
  BY HangupStep
<1> QED BY <1>1, <1>2, Invariance, PTL DEF Spec

\* A seat whose socket is over is on its way back: a running loop has something
\* of this session to apply, every command it applies shortens the queue and none
\* is added to it, and a seat that was given back is never taken again.
SeatOwed == task = "closed" /\ seat = "taken" =>
              loop = "idle" /\ commands # <<>> /\ Head(commands) \in {"State", "Leave"}
SeatNearer ==
  task = "closed" =>
    \/ seat' # "taken"
    \/ /\ seat = "taken" /\ task' = "closed"
       /\ IF LoopApplies THEN Len(commands') < Len(commands) ELSE commands' = commands

LEMMA OwedSeats == TypeOK /\ Stages => SeatOwed
<1> SUFFICES ASSUME TypeOK, Stages, task = "closed", seat = "taken"
             PROVE  loop = "idle" /\ commands # <<>> /\ Head(commands) \in {"State", "Leave"}
  BY DEF SeatOwed
<1>1. assigned = "peer" /\ loop = "idle"
  BY DEF TypeOK, Stages, Unasked, Waiting, TurnedDown, Seated, Silent
<1>2. Farewell /\ commands # <<>>
  BY <1>1 DEF Stages, Seated, Farewell
<1>3. Head(commands) = commands[1] /\ 1 \in 1 .. Len(commands)
  BY <1>2, TailOf DEF TypeOK
<1> QED BY <1>1, <1>2, <1>3 DEF Farewell

LEMMA NearerSeats == TypeOK /\ Stages /\ [Next]_vars => SeatNearer
<1> SUFFICES ASSUME TypeOK, Stages, [Next]_vars, task = "closed", seat' = "taken"
             PROVE  /\ seat = "taken" /\ task' = "closed"
                    /\ IF LoopApplies THEN Len(commands') < Len(commands)
                                      ELSE commands' = commands
  BY DEF SeatNearer
<1>1. writer # "running" /\ assigned # "waiting"
  BY DEF Stages, Seated, Waiting
<1>2. ~LoopRefuses /\ ~LoopSeats /\ ~LoopAnswers
  BY <1>1, AppliedStage DEF LoopRefuses, LoopSeats, LoopAnswers, Stages, Waiting
<1>3. CASE LoopAppliesState \/ LoopAppliesLeave
  <2>1. /\ commands # <<>> /\ commands' = Tail(commands) /\ task' = task
        /\ seat' = seat \/ seat' = "gone"
    BY <1>3 DEF LoopAppliesState, LoopAppliesLeave, Applies, taskVars, loopVars
  <2>2. Len(commands') < Len(commands)
    BY <2>1, TailOf DEF TypeOK
  <2> QED BY <1>3, <2>1, <2>2 DEF LoopApplies
<1>4. CASE Client \/ LoopPushes \/ LoopDropsPeer \/ LoopStops \/ UNCHANGED vars
  <2>1. ~LoopStops
    BY DEF LoopStops
  <2>2. UNCHANGED <<task, commands>> /\ (seat' = seat \/ seat' = "gone")
    BY <1>4, <2>1 DEF Client, ClientSends, ClientCloses, LoopPushes, LoopDropsPeer, vars,
       taskVars, loopVars
  <2>3. ~LoopAppliesState /\ ~LoopAppliesLeave
    BY <2>2, TailOf DEF LoopAppliesState, LoopAppliesLeave, Applies, TypeOK
  <2> QED BY <1>2, <2>2, <2>3 DEF LoopApplies
<1> QED BY <1>1, <1>2, <1>3, <1>4
        DEF Next, Admit, Forward, Loop, LoopApplies, WriterSends, JoinDeadline,
            FirstFrameUnreadable, FirstFrameRefused, AskLoop, Answered, CloseRefused,
            ForwardCommand, ForwardAnswer, LeaveRoom

\* The safety half of SeatsReturned, from the end of the task on.
THEOREM SeatsComeBack == Spec => []SeatOwed /\ [][SeatNearer]_vars
<1>1. TypeOK /\ Stages /\ [Next]_vars => [SeatNearer]_vars
  BY NearerSeats
<1> QED BY <1>1, OwedSeats, Invariance, PTL DEF Spec
=============================================================================
