------------------------------ MODULE IceGrace ------------------------------
(***************************************************************************)
(* How long a peer whose ICE is down keeps its seat (src/src/sfu/peer.rs   *)
(* and reap in join.rs).  Engine lets such a peer be abandoned at any      *)
(* sweep; here there is a clock.                                           *)
(*                                                                         *)
(* str0m changes its mind about a connection only while it is given input, *)
(* at the end of a turn of the loop, and says so in events the loop takes  *)
(* when it polls, in the next turn, before it sweeps.  The loop reads the  *)
(* clock when it takes an event and again when it sweeps, and time passes  *)
(* in every phase: what is measured lags behind what happened.             *)
(***************************************************************************)
EXTENDS Integers, Sequences

CONSTANTS
  Grace,      \* ICE_DISCONNECT_GRACE
  MaxTurn,    \* how long one turn of the loop may take
  MaxChanges, \* how often str0m may change its mind in one turn
  MaxNow      \* bound on the clock

ASSUME IceGraceAssumption ==
  /\ Grace \in Nat \ {0} /\ MaxTurn \in Nat \ {0}
  /\ MaxChanges \in Nat /\ MaxNow \in Nat

VARIABLES
  phase,             \* where the loop is; how it gave the peer up, once it has
  now,               \* the clock
  turn,              \* how long this turn has taken so far
  ice,               \* the state of the connection as str0m has it
  events,            \* changes of it that the loop has not taken
  alive,             \* Rtc::is_alive
  disconnectedSince, \* Peer.disconnected_since: no instant, or one
  downAt             \* when str0m first said Disconnected since it was last up

clock == <<now, turn>>
transport == <<ice, events, alive>>
vars == <<phase, clock, transport, disconnectedSince, downAt>>

Up == {"Connected", "Completed"}
IceConnectionState == Up \cup {"New", "Checking", "Disconnected"}
Given == {"transport closed", "ice disconnected"}
Phases == {"poll", "reap", "wait"} \cup Given

-----------------------------------------------------------------------------
(* The loop                                                                *)

\* handle_event: coming up forgets the disconnection, going down is timed from
\* its first report, anything else (trying again) leaves the timer alone.
SinceForgottenAtCompleted(state) ==
  CASE state = "Completed" -> {}
    [] state = "Disconnected" /\ disconnectedSince = {} -> {now}
    [] OTHER -> disconnectedSince
SinceDeadline(state) ==
  CASE state \in Up -> {}
    [] state = "Disconnected" /\ disconnectedSince = {} -> {now + Grace}
    [] OTHER -> disconnectedSince
SinceRestarted(state) ==
  CASE state \in Up -> {}
    [] state = "Disconnected" -> {now}
    [] OTHER -> disconnectedSince
Since(state) ==
  CASE state \in Up -> {}
    [] state = "Disconnected" /\ disconnectedSince = {} -> {now}
    [] OTHER -> disconnectedSince

PollEvent ==
  /\ phase = "poll" /\ alive /\ events # <<>>
  /\ disconnectedSince' = Since(Head(events))
  /\ events' = Tail(events)
  /\ UNCHANGED <<phase, clock, ice, alive, downAt>>

\* Polling ends when the transport asks for a timeout, or is dead.
DrainedEarly == TRUE
Drained == ~alive \/ events = <<>>

PollDone ==
  /\ phase = "poll" /\ Drained
  /\ phase' = "reap"
  /\ UNCHANGED <<clock, transport, disconnectedSince, downAt>>

AbandonedAtOnce == disconnectedSince # {}
Abandoned == \E since \in disconnectedSince : now - since >= Grace

\* The sweep: a dead transport first, then one that has been down too long.
Reap ==
  /\ phase = "reap"
  /\ phase' = IF ~alive THEN "transport closed"
              ELSE IF Abandoned THEN "ice disconnected" ELSE "wait"
  /\ UNCHANGED <<clock, transport, disconnectedSince, downAt>>

\* read_once and the timers, after which the next turn begins.
HandleInput ==
  /\ phase = "wait"
  /\ phase' = "poll" /\ turn' = 0
  /\ UNCHANGED <<now, transport, disconnectedSince, downAt>>

-----------------------------------------------------------------------------
(* str0m and the clock                                                     *)

IceChanges ==
  /\ phase = "wait" /\ alive /\ Len(events) < MaxChanges
  /\ \E state \in IceConnectionState \ {"New", ice} :
       /\ ice' = state
       /\ events' = Append(events, state)
       /\ downAt' = CASE state \in Up -> {}
                      [] state = "Disconnected" /\ downAt = {} -> {now}
                      [] OTHER -> downAt
  /\ UNCHANGED <<phase, clock, alive, disconnectedSince>>

\* An error of the transport, or DTLS being closed by the other end.
TransportFails ==
  /\ phase \in {"poll", "wait"} /\ alive
  /\ alive' = FALSE
  /\ UNCHANGED <<phase, clock, ice, events, disconnectedSince, downAt>>

Tick ==
  /\ phase \notin Given
  /\ turn < MaxTurn /\ now < MaxNow
  /\ now' = now + 1 /\ turn' = turn + 1
  /\ UNCHANGED <<phase, transport, disconnectedSince, downAt>>

-----------------------------------------------------------------------------
Init ==
  /\ phase = "poll"
  /\ now = 0 /\ turn = 0
  /\ ice = "New" /\ events = <<>> /\ alive = TRUE
  /\ disconnectedSince = {} /\ downAt = {}

Next == \/ PollEvent \/ PollDone \/ Reap \/ HandleInput
        \/ IceChanges \/ TransportFails \/ Tick

Spec == Init /\ [][Next]_vars

-----------------------------------------------------------------------------
\* The timer and what it follows hold one instant at most, and it is past.
TypeOK ==
  /\ phase \in Phases
  /\ now \in Nat /\ turn \in 0 .. MaxTurn
  /\ ice \in IceConnectionState
  /\ events \in Seq(IceConnectionState \ {"New"})
  /\ alive \in BOOLEAN
  /\ disconnectedSince \subseteq 0 .. now /\ downAt \subseteq 0 .. now
  /\ \A s, t \in disconnectedSince : s = t

\* "Transient by design: hold the peer and let it come back": a peer is given up
\* for its ICE only after it has been down without interruption for the whole
\* grace period, and not if it came back before the turn in which the sweep
\* looks, however the two clock readings fall.  Disconnections that come and go
\* do not add up.
GivenUpOnlyAfterGrace ==
  phase = "ice disconnected" => \E t \in downAt : now - t >= Grace

\* "reap gives up, once the grace period is spent": attempts to come back that
\* lead nowhere do not buy time.  A report waits at most for the end of its
\* turn and the poll of the next, and two sweeps are as far apart at most.
GivenUpInTime ==
  \A t \in downAt : now - t < Grace + 4 * MaxTurn
=============================================================================
