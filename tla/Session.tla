------------------------------- MODULE Session -------------------------------
(***************************************************************************)
(* One signaling socket (src/src/signal/session.rs): the task that admits  *)
(* a client and forwards its frames, the writer task that sends it what is *)
(* queued for it, and the media loop at the other end of the two channels. *)
(*                                                                         *)
(* The task and the media loop run on different threads and share three    *)
(* things: the command channel, the out channel, and the oneshot over      *)
(* which a join is answered.  The loop's answer is two steps: it queues a  *)
(* message on the out channel, then it sends the oneshot.                  *)
(*                                                                         *)
(* Of the loop only what this socket sees is here: it refuses or seats the *)
(* join, sends the seated client things of its own accord, and gives the   *)
(* seat up, silently when it reaps and with an error when the identity     *)
(* joined again elsewhere.  What the client sends may sit unread, and it   *)
(* may close the socket at any time.                                       *)
(***************************************************************************)
EXTENDS Naturals, Sequences, SequencesExt

CONSTANTS
  MaxFrames,  \* bound on what the client sends
  MaxPushes   \* bound on what the loop sends of its own accord

ASSUME SessionAssumption == MaxFrames \in Nat /\ MaxPushes \in Nat

VARIABLES
  task,      \* the session task: where run is
  writer,    \* the writer task
  inbox,     \* what the client sent and the task has not read
  sent,      \* how many frames the client has sent
  open,      \* the client has not closed the socket
  commands,  \* commands of this session the loop has not applied
  assigned,  \* the oneshot of the join
  out,       \* messages queued for the client
  wire,      \* what has been written to the socket
  loop,      \* the media loop: idle, between its message and the oneshot, or gone
  seat,      \* the client's peer in the loop
  pushes     \* how many messages the loop has sent of its own accord

taskVars == <<task, writer>>
clientVars == <<inbox, sent, open>>
loopVars == <<loop, seat, pushes>>
vars == <<taskVars, clientVars, loopVars, commands, assigned, out, wire>>

\* What a client may send: a join with a good token or a bad one; a command the
\* loop applies (answer, mute, screen); ping and leave; text that is not a
\* message; a frame that is not text; and the close of the socket.
Frame == {"join", "bad_token", "command", "ping", "leave", "garbage", "binary", "close"}

\* error stands for every code but that of the loop's own replaced.
ServerMsg == {"error", "joined", "pong", "push", "replaced"}

-----------------------------------------------------------------------------
(* The client                                                              *)

ClientSends ==
  /\ open /\ sent < MaxFrames
  /\ \E frame \in Frame \ {"close"} : inbox' = Append(inbox, frame)
  /\ sent' = sent + 1
  /\ UNCHANGED <<taskVars, loopVars, open, commands, assigned, out, wire>>

ClientCloses ==
  /\ open
  /\ open' = FALSE
  /\ inbox' = Append(inbox, "close")
  /\ UNCHANGED <<taskVars, loopVars, sent, commands, assigned, out, wire>>

-----------------------------------------------------------------------------
(* admit                                                                   *)

\* No frame before the deadline.
JoinDeadline ==
  /\ task = "opened"
  /\ inbox = <<>>
  /\ task' = "refused"
  /\ UNCHANGED <<writer, clientVars, loopVars, commands, assigned, out, wire>>

Reads(frame) == inbox # <<>> /\ Head(inbox) = frame /\ inbox' = Tail(inbox)

\* The socket closes, or the frame is not text: no message says so.
FirstFrameUnreadable ==
  /\ task = "opened"
  /\ Reads("close") \/ Reads("binary")
  /\ task' = "refused"
  /\ UNCHANGED <<writer, sent, open, loopVars, commands, assigned, out, wire>>

\* Text that is not a join, a token that does not verify, a loop that is gone.
FirstFrameRefused ==
  /\ task = "opened"
  /\ \/ \E frame \in {"command", "ping", "leave", "garbage", "bad_token"} : Reads(frame)
     \/ Reads("join") /\ loop = "stopped"
  /\ out' = Append(out, "error")
  /\ task' = "refused"
  /\ UNCHANGED <<writer, sent, open, loopVars, commands, assigned, wire>>

AskLoop ==
  /\ task = "opened"
  /\ Reads("join")
  /\ loop # "stopped"
  /\ commands' = Append(commands, "Join")
  /\ assigned' = "waiting"
  /\ task' = "asking"
  /\ UNCHANGED <<writer, sent, open, loopVars, out, wire>>

\* None is a refusal of the loop; an error means it dropped the request.
Answered ==
  /\ task = "asking"
  /\ \/ /\ assigned = "peer"
        /\ task' = "admitted" /\ writer' = "running"
     \/ /\ assigned \in {"refused", "dropped"}
        /\ task' = "refused" /\ UNCHANGED writer
  /\ UNCHANGED <<clientVars, loopVars, commands, assigned, out, wire>>

\* What was queued for a refused client goes out before the close.
FlushedNothing == <<>>
Flushed == out

CloseRefused ==
  /\ task = "refused"
  /\ wire' = wire \o Flushed \o <<"close">>
  /\ out' = <<>>
  /\ task' = "closed"
  /\ UNCHANGED <<writer, clientVars, loopVars, commands, assigned>>

-----------------------------------------------------------------------------
(* run, once admitted                                                      *)

ForwardCommand ==
  /\ task = "admitted"
  /\ Reads("command")
  /\ loop # "stopped"
  /\ commands' = Append(commands, "State")
  /\ UNCHANGED <<taskVars, sent, open, loopVars, assigned, out, wire>>

\* Ping, as long as somebody takes the answer, a second join, and text that is no
\* message are answered on the spot; a frame that is not text is passed over.
ForwardAnswer ==
  /\ task = "admitted"
  /\ \/ Reads("ping") /\ writer # "failed" /\ out' = Append(out, "pong")
     \/ \E frame \in {"join", "bad_token", "garbage"} :
           Reads(frame) /\ out' = Append(out, "error")
     \/ Reads("binary") /\ UNCHANGED out
  /\ UNCHANGED <<taskVars, sent, open, loopVars, commands, assigned, wire>>

\* The socket closed, the client left, the loop is gone, or the writer is and a
\* ping could not be answered: the loop is told and the writer is aborted, whatever
\* it still had to send.
LeaveUnsaid == commands
LeaveForAll == Append(commands, "Shutdown")
LeaveSaid == IF loop = "stopped" THEN commands ELSE Append(commands, "Leave")

LeaveRoom ==
  /\ task = "admitted"
  /\ \/ Reads("close") \/ Reads("leave")
     \/ Reads("command") /\ loop = "stopped"
     \/ Reads("ping") /\ writer = "failed"
  /\ commands' = LeaveSaid
  /\ task' = "closed" /\ writer' = "aborted"
  /\ UNCHANGED <<sent, open, loopVars, assigned, out, wire>>

\* The writer; a send fails once the client is gone, and with the writer ends the
\* queue of what was to be sent.
WriterSends ==
  /\ writer = "running"
  /\ out # <<>>
  /\ \/ wire' = Append(wire, Head(out)) /\ UNCHANGED writer
     \/ ~open /\ writer' = "failed" /\ UNCHANGED wire
  /\ out' = Tail(out)
  /\ UNCHANGED <<task, clientVars, loopVars, commands, assigned>>

-----------------------------------------------------------------------------
(* The media loop, as this socket sees it                                  *)

Applies(command) ==
  /\ loop = "idle"
  /\ commands # <<>> /\ Head(commands) = command
  /\ commands' = Tail(commands)

\* Room full, or an offer it cannot take.
ToldOfRefusal == Append(out, "error")
ToldNothing == out
LoopRefuses ==
  /\ Applies("Join")
  /\ out' = ToldOfRefusal
  /\ loop' = "refusing"
  /\ UNCHANGED <<taskVars, clientVars, seat, pushes, assigned, wire>>

\* The reply is queued before the peer is in the room, so before whatever the
\* room is sent.
ToldAfterRoom == out \o <<"push", "joined">>
ToldOfRoom == Append(out, "joined")
LoopSeats ==
  /\ Applies("Join")
  /\ out' = ToldOfRoom
  /\ seat' = "taken"
  /\ loop' = "seating"
  /\ UNCHANGED <<taskVars, clientVars, pushes, assigned, wire>>

LoopAnswers ==
  /\ \/ loop = "refusing" /\ assigned' = "refused"
     \/ loop = "seating" /\ assigned' = "peer"
  /\ loop' = "idle"
  /\ UNCHANGED <<taskVars, clientVars, seat, pushes, commands, out, wire>>

\* A command of a peer that is gone does nothing; the room of one that is
\* seated is told, the peer itself included, unless it was an answer.
LoopAppliesState ==
  /\ Applies("State")
  /\ \/ seat = "taken" /\ out' = Append(out, "push")
     \/ UNCHANGED out
  /\ UNCHANGED <<taskVars, clientVars, loopVars, assigned, wire>>

LoopAppliesLeave ==
  /\ Applies("Leave")
  /\ seat' = "gone"
  /\ UNCHANGED <<taskVars, clientVars, loop, pushes, assigned, out, wire>>

LoopPushes ==
  /\ loop = "idle" /\ seat = "taken" /\ pushes < MaxPushes
  /\ out' = Append(out, "push")
  /\ pushes' = pushes + 1
  /\ UNCHANGED <<taskVars, clientVars, loop, seat, commands, assigned, wire>>

LoopDropsPeer ==
  /\ loop = "idle" /\ seat = "taken"
  /\ seat' = "gone"
  /\ out' = Append(out, "replaced") \/ UNCHANGED out
  /\ UNCHANGED <<taskVars, clientVars, loop, pushes, commands, assigned, wire>>

\* The loop ends: queued commands, and the oneshots in them, are dropped.
JoinForgotten == assigned
JoinDropped == IF assigned = "waiting" THEN "dropped" ELSE assigned

LoopStops ==
  /\ loop = "idle"
  /\ loop' = "stopped"
  /\ commands' = <<>>
  /\ assigned' = JoinDropped
  /\ seat' = IF seat = "taken" THEN "gone" ELSE seat
  /\ UNCHANGED <<taskVars, clientVars, pushes, out, wire>>

-----------------------------------------------------------------------------
Init ==
  /\ task = "opened" /\ writer = "none"
  /\ inbox = <<>> /\ sent = 0 /\ open = TRUE
  /\ commands = <<>> /\ assigned = "none"
  /\ out = <<>> /\ wire = <<>>
  /\ loop = "idle" /\ seat = "none" /\ pushes = 0

Client == ClientSends \/ ClientCloses

Admit == \/ JoinDeadline \/ FirstFrameUnreadable \/ FirstFrameRefused
         \/ AskLoop \/ Answered \/ CloseRefused

Forward == ForwardCommand \/ ForwardAnswer \/ LeaveRoom

LoopApplies == \/ LoopRefuses \/ LoopSeats \/ LoopAnswers
               \/ LoopAppliesState \/ LoopAppliesLeave

Loop == LoopApplies \/ LoopPushes \/ LoopDropsPeer \/ LoopStops

Next == Client \/ Admit \/ Forward \/ WriterSends \/ Loop

Spec == Init /\ [][Next]_vars

\* The async runtime runs both tasks, the deadline strikes, and the loop keeps
\* draining its commands as long as it runs.
FairSpec ==
  Spec /\ WF_vars(Admit) /\ WF_vars(Forward) /\ WF_vars(WriterSends) /\ WF_vars(LoopApplies)

-----------------------------------------------------------------------------
(* Safety                                                                  *)

TypeOK ==
  /\ task \in {"opened", "asking", "refused", "admitted", "closed"}
  /\ writer \in {"none", "running", "aborted", "failed"}
  /\ inbox \in Seq(Frame) /\ sent \in 0 .. MaxFrames /\ open \in BOOLEAN
  /\ commands \in Seq({"Join", "State", "Leave"})
  /\ assigned \in {"none", "waiting", "peer", "refused", "dropped"}
  /\ out \in Seq(ServerMsg) /\ wire \in Seq(ServerMsg \cup {"close"})
  /\ loop \in {"idle", "refusing", "seating", "stopped"}
  /\ seat \in {"none", "taken", "gone"}
  /\ pushes \in 0 .. MaxPushes

\* A client the loop refuses (room full, bad offer) reads why before the socket
\* closes, although message and refusal take two channels.
LoopRefusalTold ==
  task = "closed" /\ assigned = "refused" => wire = <<"error", "close">>

\* Whatever its room is up to, the first thing an admitted client reads is the
\* reply to its join: it holds the roster all later messages refer to.
JoinedFirst == assigned = "peer" /\ wire # <<>> => Head(wire) = "joined"

\* A leave is the last command of its session, and nothing precedes the join.
LeaveIsLast ==
  \A i \in DOMAIN commands :
    /\ commands[i] = "Leave" => i = Len(commands) /\ task = "closed"
    /\ commands[i] = "Join" => i = 1 /\ task = "asking"

\* No seat outlives its socket unnoticed: once the task has ended, either the
\* loop has given the seat up or the leave that will make it do so is queued.
NoOrphanSeat ==
  task = "closed" /\ seat = "taken" => commands # <<>> /\ Last(commands) = "Leave"

-----------------------------------------------------------------------------
(* Liveness, under FairSpec                                                *)

\* Nobody is left hanging: every socket is admitted or closed, even if the loop
\* ends with the join in its queue.
EverySocketAnswered == (task \in {"opened", "asking"}) ~> (task \in {"admitted", "closed"})

\* A client that goes away gives its seat back, at whatever moment it goes:
\* before the loop has answered it, or with frames still unread.
SeatsReturned == ~open ~> [](seat # "taken")
=============================================================================
