------------------------------ MODULE Speaking ------------------------------
(***************************************************************************)
(* Who is shown as talking in one room: the audio levels noted while the   *)
(* loop polls (src/src/sfu/peer_media.rs), the tick that turns them into a *)
(* set (tick_speaking in engine_io.rs, sync_speaking in room.rs), and what *)
(* the clients show.                                                       *)
(*                                                                         *)
(* Instants are kept relative to the present: how much of a hold is left,  *)
(* how long ago the last tick was.  A peer that leaves never comes back:   *)
(* ids are not reused.  A client shows the last set it was sent, without   *)
(* those it has been told have left; what it is sent arrives in order, so  *)
(* shown is what it shows once it has read everything.                     *)
(***************************************************************************)
EXTENDS Integers

CONSTANTS
  Peers,   \* the peers that may ever be in the room
  Hold,    \* SPEAKING_HOLD
  Period,  \* SPEAKING_TICK
  MaxTurn  \* how long one turn of the loop may take

ASSUME SpeakingAssumption ==
  /\ Hold \in Nat \ {0} /\ Period \in Nat \ {0} /\ MaxTurn \in Nat \ {0}

VARIABLES
  phase,      \* where Engine::run is in its loop
  turn,       \* how long this turn has taken so far
  room,       \* Room.peers
  gone,       \* peers that have left
  muted,      \* those of the room that are muted
  left,       \* peer -> what is left of its hold: speaking_until, seen from now
  sinceTick,  \* time since last_speaking, up to Period
  speaking,   \* Room.speaking: the last set broadcast
  shown,      \* peer -> whom its client shows as talking
  told,       \* the peers that have been sent a set since they joined
  quiet,      \* peer -> time since its last voiced packet, up to Hold
  wrong       \* peer -> how long some client has shown the wrong thing of it

time == <<turn, sinceTick, left, quiet>>
members == <<room, gone, muted>>
clients == <<speaking, shown, told>>
vars == <<phase, time, members, clients, wrong>>

\* How long a client may show the wrong thing: a tick may come a turn late, and
\* the turn before it may have begun too early.
Bound == Period + 2 * MaxTurn

-----------------------------------------------------------------------------
(* What the loop does in an instant                                        *)

Join(p) ==
  /\ phase = "drain" /\ p \notin room \cup gone
  /\ room' = room \cup {p}
  /\ UNCHANGED <<phase, time, gone, muted, clients>>

SetMuted(p) ==
  /\ phase = "drain" /\ p \in room
  /\ \E m \in BOOLEAN : muted' = IF m THEN muted \cup {p} ELSE muted \ {p}
  /\ UNCHANGED <<phase, time, room, gone, clients>>

\* A leave, a replacement or the sweep: the cached set forgets the peer, and so
\* does every client, on its own, when it reads that the peer left.
KeptGone(p) == speaking
WithoutGone(p) == speaking \ {p}

Remove(p) ==
  /\ phase \in {"drain", "reap"} /\ p \in room
  /\ room' = room \ {p} /\ gone' = gone \cup {p} /\ muted' = muted \ {p}
  /\ speaking' = WithoutGone(p)
  /\ shown' = [c \in Peers |-> IF c = p THEN {} ELSE shown[c] \ {p}]
  /\ told' = told \ {p}
  /\ UNCHANGED <<phase, time>>

\* note_audio_level: a packet above the threshold that is not marked as noise
\* extends the hold, any other changes nothing.  Muted peers are noted too.
NotedLast(p, voiced) == IF voiced THEN Hold ELSE 0
Noted(p, voiced) == IF voiced THEN Hold ELSE left[p]

AudioPacket(p) ==
  /\ phase = "poll" /\ p \in room
  /\ \E voiced \in BOOLEAN :
       /\ left' = [left EXCEPT ![p] = Noted(p, voiced)]
       /\ quiet' = [quiet EXCEPT ![p] = IF voiced THEN 0 ELSE @]
  /\ UNCHANGED <<phase, turn, sinceTick, members, clients>>

\* sync_speaking: the set is recomputed, and broadcast only if it has moved.
CurrentOfAll == {p \in room : left[p] > 0}
Current == {p \in room \ muted : left[p] > 0}
MovedByNewcomer == ~(Current \subseteq speaking)
Moved == Current # speaking

TickSpeaking ==
  /\ phase = "tick"
  /\ phase' = "wait"
  /\ \/ /\ sinceTick < Period
        /\ UNCHANGED <<sinceTick, clients>>
     \/ /\ sinceTick >= Period
        /\ sinceTick' = 0
        /\ IF Moved
           THEN /\ speaking' = Current
                /\ shown' = [c \in Peers |-> IF c \in room THEN Current ELSE {}]
                /\ told' = room
           ELSE UNCHANGED clients
  /\ UNCHANGED <<turn, left, quiet, members>>

NextPhase ==
  /\ \/ phase = "drain" /\ phase' = "poll" /\ UNCHANGED turn
     \/ phase = "poll" /\ phase' = "reap" /\ UNCHANGED turn
     \/ phase = "reap" /\ phase' = "tick" /\ UNCHANGED turn
     \/ phase = "wait" /\ phase' = "drain" /\ turn' = 0
  /\ UNCHANGED <<sinceTick, left, quiet, members, clients>>

-----------------------------------------------------------------------------
(* Time                                                                    *)

Earlier(n) == IF n = 0 THEN 0 ELSE n - 1
Later(n, max) == IF n < max THEN n + 1 ELSE max

Pass ==
  /\ turn < MaxTurn
  /\ turn' = turn + 1
  /\ sinceTick' = Later(sinceTick, Period)
  /\ left' = [p \in Peers |-> Earlier(left[p])]
  /\ quiet' = [p \in Peers |-> Later(quiet[p], Hold)]
  /\ UNCHANGED <<phase, members, clients>>

\* Somebody who has been sent a set shows something of p that is not so: p talks
\* if it is there, not muted, and was heard within the hold.
Talks(p) == p \in room \ muted /\ quiet[p] < Hold
Mistaken(p) == \E c \in told : (p \in shown[c]) # Talks(p)

\* An instant takes no time: only mistakes that are over are struck out.
Recheck == wrong' = [p \in Peers |-> IF Mistaken(p)' THEN wrong[p] ELSE 0]
Lengthen ==
  wrong' = [p \in Peers |-> IF Mistaken(p) /\ Mistaken(p)' THEN Later(wrong[p], Bound) ELSE 0]

-----------------------------------------------------------------------------
Init ==
  /\ phase = "drain" /\ turn = 0
  /\ room = {} /\ gone = {} /\ muted = {}
  /\ left = [p \in Peers |-> 0] /\ quiet = [p \in Peers |-> Hold]
  /\ sinceTick = 0
  /\ speaking = {} /\ shown = [p \in Peers |-> {}] /\ told = {}
  /\ wrong = [p \in Peers |-> 0]

Instant == \/ \E p \in Peers : Join(p) \/ SetMuted(p) \/ Remove(p) \/ AudioPacket(p)
           \/ TickSpeaking
           \/ NextPhase

Next == (Instant /\ Recheck) \/ (Pass /\ Lengthen)

Spec == Init /\ [][Next]_vars

-----------------------------------------------------------------------------
TypeOK ==
  /\ phase \in {"drain", "poll", "reap", "tick", "wait"}
  /\ turn \in 0 .. MaxTurn
  /\ room \subseteq Peers /\ gone \subseteq Peers \ room /\ muted \subseteq room
  /\ left \in [Peers -> 0 .. Hold] /\ quiet \in [Peers -> 0 .. Hold]
  /\ sinceTick \in 0 .. Period
  /\ speaking \subseteq room /\ told \subseteq room
  /\ shown \in [Peers -> SUBSET room]
  /\ wrong \in [Peers -> 0 .. Bound]

\* The set sent when it changes is enough: a client that has been sent one since
\* it joined never shows anybody wrongly, talking or silent, muted or gone, for
\* longer than the tick and the turn around it take.  (One that has not been sent
\* any shows nobody, however long somebody has been talking.)
ShownInTime == \A p \in Peers : wrong[p] < Bound

\* "Long enough that DTX gaps do not flicker the ring": nobody who is unmuted and
\* has been heard within the hold drops out of what a client shows.
NoFlicker ==
  [][\A c, p \in Peers : p \in shown[c] \ shown'[c] /\ {c, p} \subseteq room' =>
       p \in muted' \/ quiet[p] >= Hold]_vars
=============================================================================
