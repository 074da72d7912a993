# A verification project for ferrite-sfu

ferrite-sfu is a WebRTC SFU: browsers join a room over a websocket, publish
audio and a screen share, and the SFU forwards every publisher's packets to
everybody else. This directory holds TLA+ models of its protocol logic, the
configurations with which TLC checks them on small instances, and proofs,
checked by TLAPS, of what matters most for instances of any size.

Paths below are relative to the repository: `sfu/join.rs` is
`src/sfu/join.rs`.

## 1. The system

### Threads, channels, processes

- **Signaling.** One tokio task per websocket (`signal/session.rs`) admits the
  client and turns its frames into `Command`s; a second task writes what is
  queued for the client.
- **Media loop.** One OS thread (`sfu/engine.rs`) owns every room, every peer
  and the UDP socket. Each turn it drains the command queue, polls every
  transport, reports arrivals, sweeps the dead, ticks the speaking sets, reads
  one datagram and runs the timers.
- **Reports.** One tokio task (`report.rs`) posts lifecycle events to the host
  application, one at a time.

They share nothing but channels: commands (std mpsc, sessions to loop), frames
(unbounded, loop and session to writer), a oneshot that answers a join, and
reports (unbounded, loop to delivery). Nothing is persisted.

### Components

| Component | State | Operations | What makes it correct |
| --- | --- | --- | --- |
| Membership (`sfu/join.rs`, `dispatch.rs`, `engine*.rs`, `room.rs`) | `rooms`, `peer_rooms`, `next_peer`, the `Peer` flags | join (refuse, replace, seat), mute, screen, leave, report arrivals, reap | both tables agree; one seat per identity; the limit; no empty room; rosters and reports match the rooms |
| Negotiation (`sfu/negotiate.rs`, `tracks.rs`) | `tracks_out`, `pending` | subscribe, offer, accept or reject an answer, stop | everybody published is heard; dead m-lines are stopped; one offer at a time; media is attributable |
| Forwarding, keyframes (`sfu/peer_media.rs`, `room.rs`) | `tracks_in`, `tracks_out`, what one turn queues, throttle stamps | announce a track, forward a packet, ask for a keyframe, translate and serve the request | everybody is subscribed once to everybody else; packets go to the m-line of their publisher; requests reach the real encoder |
| Active speaker (`room.rs`, `peer_media.rs`, `engine_io.rs`) | `speaking_until`, the last set sent, the last tick | note a level, tick, forget a peer | clients know who speaks, soon, and without flicker |
| Transport (`sfu/peer.rs`, `join.rs`) | `connected`, `disconnected_since`, aliveness of the `Rtc` | ICE up, ICE down, failure, the 20 s grace | the dead are swept in time, those that recover are not |
| Session (`signal/session.rs`) | where the task is, both channel ends | admit, forward, leave | refusals are told, seats are returned |
| Delivery (`report.rs`, `main.rs`) | the queue, the report being tried | receive, post, retry, drop; boot announcement | the host application believes what is true |
| HTTP, tokens, configuration (`signal/http.rs`, `auth.rs`, `config.rs`) | none | pure functions and routing | — |

### What is hard here

Reconnection: a second join of an identity meets the late commands, the leave
and the sweep of the first. Replies and broadcasts travel on several channels.
One answer settles whatever is pending, and says not which offer it answers.
Publishers die between offer and answer. What peers produce is handed on a phase
later, by numbers that every browser uses alike. Timers are measured by a loop that
hears of things late. Posts time out and are handled all the same. Processes restart
and remember nothing. `PROJECT.json` lists each of these
hazards at its line with the properties that would show it going wrong, or says why
there is none.

## 2. The modules

| Module | What it is |
| --- | --- |
| `Engine` | the media loop: membership, rosters, reports |
| `Membership` | abstract: who is seated and whom the host application believes present |
| `EngineMembership` | the refinement mapping from `Engine` to `Membership` |
| `EngineProofs`, `EngineMembershipProofs` | theorems about them |
| `Subscription` | abstract: the life of one subscriber's subscriptions |
| `Negotiation`, `NegotiationProofs` | one subscriber's outbound tracks, whatever it answers, and theorems |
| `Forwarding`, `ForwardingProofs` | what the peers of one room hear of each other, and theorems |
| `NegotiationSubscription`, `ForwardingSubscription` | the mappings from both to `Subscription` |
| `IceGrace`, `IceGraceProofs` | how long a peer whose ICE is down keeps its seat, and theorems |
| `Speaking`, `SpeakingProofs` | who is shown as talking, and theorems |
| `Report`, `ReportProofs` | the delivery of reports, and theorems |
| `Delivery`, `ReportDelivery` | abstract: a channel of reports; the mapping from `Report` to it |
| `Session`, `SessionProofs` | one signaling socket between client and media loop, and theorems |
| `MCEngine`, `MCSpeaking` | instances for TLC, with their symmetry sets |
| `MCNegotiation`, `MCForwarding`, `MCIceGrace`, `MCReport`, `MCSession` | instances for TLC without symmetry: their runs check liveness, or nothing in them is interchangeable |

### Engine

`rooms` maps an open room to the ids of its peers, `peerRooms` is `peer_rooms`,
`peer` holds what the `Peer` structs keep, `nextPeer` is `next_peer`. `phase` is
the place in `Engine::run`. One action per command and outcome (`JoinFull`,
`JoinBadOffer`, `JoinAdmit`, `Mute`, `Screen`, `Leave`), one per thing a transport
can do while it is polled (`IceUp`, `IceDown`, `TransportFails`), one per phase
(`DrainDone`, `PollDone`, `ReportConnections`, `Reap`, `HandleInput`), and `Stop`.

- A command may name any id ever issued: that covers the sessions of peers that
  were replaced or swept, which go on sending.
- The frames queued for a client are folded into `view`, what the client believes
  once it has read them; reports are folded into `toldPresent` and `toldSharing`.
  `Session` and `Report` justify this: the channels are FIFO, the reply to the join
  comes first, and posts have their effect once and in order.
- The host application takes `participant_left` and `room_finished` to end a
  screen share too; a host application that does not would only do worse.
- Time is left out: a peer that is down may be abandoned at any sweep. `IceGrace`
  says when it is.

### Negotiation

`out` is `tracks_out` as a function of the tracks (a track is pushed at most once to
a subscriber, by `subscribe_to_existing` or by `propagate`), `pending` the changes of
the offer that is out, `track` whether a publisher still holds its `Arc`. `lines` and
`open` are what the transport has: the m-lines established, and those not stopped.
`PollRooms` is a turn of `poll_rooms`: negotiate, then what turned out to be
published reaches the room. An answer is *good* (str0m takes it if it describes the
m-lines of the pending offer), *rejected* or *garbled*, and a client may repeat its
last one. The client and str0m's acceptance are external. `trusted` is a history
variable: the client has so far answered every offer once and well. What depends on
the client is claimed of clients that are trusted, the rest of all.

### Subscription

A track is wanted, negotiated, open, negotiated again to be stopped, and gone; an offer
takes everything there is to take, nothing more is offered until it is settled, an
accepted answer settles all that is being negotiated and a rejected one nothing.
`Negotiation` implements it as its one subscriber, `Forwarding` as each of its peers (an
instance with the peer as a parameter). So the two models of the same code agree: the
one with all kinds of answers and channels to the client, the other with positions in
`tracks_out`, several publishers, and a queue between an event and its propagation.

### Forwarding

Here are several peers that publish, subscribe and leave, and str0m takes every
answer. A track is a publisher and a mid, and every publisher uses the same mids, as
browsers do. A subscriber's m-lines are numbered in the order in which they are made
for it; no number is used twice. While the peers are polled in the order of
their ids (`unpolled`), each may offer, announce its tracks, deliver a packet or ask
for a keyframe; what it produces goes to `queue` and is handed on by `Propagate` when
all have been polled. `out` is `tracks_out` in its order, and `Rank` and `Nth` keep
that order when an answer drops entries (`retain`). `lines` are the m-lines with a
writer, `map` the last map sent to the client. `recent` is the throttle of requests for
gaps, forgotten at any later turn. `wrote` and `asked` record what the last step
forwarded, and which encoders it asked for a keyframe. Codec parameters
(`match_params`) and writes that fail, which kill the peer, are left out; a dead peer is
one that produces nothing until it is swept.

### IceGrace

One peer and the loop around it, with a clock that may advance in every phase, at most
`MaxTurn` in a turn. str0m changes its mind (`ice`) only while it is given input, at the
end of a turn; the loop takes the `events` of it when it polls, in the next turn, and
sweeps afterwards. `disconnectedSince` is therefore later than what happened (`downAt`,
history), and the sweep later still.

### Speaking

Instants are relative to the present: `left` is what remains of `speaking_until`,
`sinceTick` how long ago the last tick was. `speaking` is the cached set, `shown` what
each client shows once it has read everything, `told` the clients that have been sent a
set. `quiet` and `wrong` are history: how long a peer has been silent, and for how long
some client has shown the wrong thing of it.

### Report

The task, its queue, the tries of the report in hand and the process around them;
`host` is what the host application believes, `holds` what it was told to. Reports of
one subject need not alternate: `join.rs` and `engine_io.rs` announce an identity again
when it reconnects, and finish rooms of which nothing was ever announced. A post is
acknowledged, refused, handled though unheard, or still on its way when the client's
timeout strikes: then it may be handled later, until the next process boots, or
never. (A host application that handles a post of a process that has since been
replaced could be wrong for good. That takes a handler that outlives a restart, and
is assumed away.) De-duplication on `id` is the host application's part, as
the repository's README asks of it.

`Delivery` is what is left without tries, acknowledgements and ids: reports are handled in
the order made, one that is given up later or never, and a new process starts with its
announcement. In the mapping a report is ahead until the host application has handled
it, and not until the task knows.

### Session

The session task, its writer, the client at one end and, of the media loop, what
this socket sees. The loop answers a join in two steps, message and oneshot, between
which the session may run. A socket's seat is `taken` from the moment the loop
seats it. A writer that failed drops its queue: what is sent to the client after that
goes nowhere, which the task notices when it cannot answer a ping, and leaves.

## 3. What TLC checks

| Run | Instance | What it shows |
| --- | --- | --- |
| `engine_room` | 3 identities, 1 room of 2 seats, 4 ids | all safety of the loop, and that it implements `Membership` |
| `engine_rooms` | 2 identities, 2 rooms of 1 seat, 3 ids, a fair loop | rooms do not affect each other; dead transports leave, arrivals are announced |
| `negotiation` | 3 tracks, any answers, one repeated, fair turns | it implements `Subscription`, nobody is missed, media is attributable, offers settle, only a rejected answer does damage; while the client is trusted, `tracks_out` and the transport agree, publishers are heard, dead m-lines stop |
| `forwarding` | 3 peers, 2 tracks each, 3 events a turn | everybody implements `Subscription`, with one subscription to each track of everybody else; packets go where the subscriber's map says; keyframe requests reach the encoder |
| `ice_grace` | grace 4, turns of at most 2, 2 changes a turn, clock to 24 | nobody is given up before the grace is spent, or keeps the seat four turns longer |
| `speaking` | 3 peers, hold 3, tick 2, turns of at most 1 | what clients show is right within a tick and two turns, and does not flicker within the hold |
| `report` | 2 subjects, 4 reports, restarts, posts that fail as often as they like, a fair task | it implements `Delivery`; the host application's belief follows unless a report was dropped; no report holds up the rest |
| `session` | 4 client frames, 2 messages of the loop, fair tasks | refusals of the loop are told, the reply comes first, every socket is answered, every seat returned |

**Bounds.** Reconnection needs two ids of one identity and a bystander that keeps
the room open; the fourth id lets a replaced replacement occur. Two seats make a
room full with and without the identity that joins. Three tracks let one be added,
one be open and one be stopped in the same offer. Three peers in `Forwarding` are a
publisher that stays, one that goes and one that hears both under the same mids. A peer
announces both its tracks in one step, so three events in a turn let an announcement
share the queue with one packet or request, and packets and requests with each other;
two announcements never meet there, which is left to the proofs. Neither track is
video: the throttle of requests for gaps, which no property is about, would multiply the
states, and the proofs hold for any `VideoMids`. The
clock of `IceGrace` lets a connection go down, come back, go down again and be given
up; its grace is two turns, so that the lag between str0m and the loop is not small
beside it. In `Speaking` the hold is longer than the tick and the tick longer than a
turn, as in the code. Four reports allow two reports of subjects on one side of a restart,
or one on each side; tries are not scaled down (3 and 12), and any number of them may fail. Four frames allow a join, two commands
and a leave, with the close behind them. `MaxPeerId`, `MaxQueue`, `MaxReports`,
`MaxResends`, `MaxFrames`, `MaxPushes`, `MaxChanges` and `MaxNow` bound counters the code
does not bound. Symmetry is used in `engine_room` for identities and in `speaking` for
peers, which are only compared there, and in no run with a liveness property.

**Deadlock.** Checked for `Negotiation`, `Forwarding` and `Speaking`. Off for `Engine`,
whose loop really stops on shutdown, `Report`, whose process may exit for good,
`Session`, which ends, and `IceGrace`, where the peer is gone in the end.

**Fairness.** `Engine`: weak fairness of the loop's phases: the thread runs, the
command queue empties from time to time, and transports come to ask for a timeout
(both inner loops end). `Negotiation`: the loop turns, and drains answers, and the
client reads its socket and answers what it reads; `OfferSettles` shows what is left
when that answer does not parse, and `trusted` excuses what a bad one breaks.
`Forwarding`, `IceGrace` and `Speaking` state no fairness: what must happen in time is
an invariant over their clocks. `Report`: the task runs, and posts end within their
timeout. `Session`: the tasks run, the deadline strikes, and the loop drains its
queue as long as it runs. The one assumption about anybody outside is `Negotiation`'s,
that the client reads and answers: without it `PublishersAreHeard`, `DeadLinesStop` and
`OfferSettles` fail, since no timeout ends an offer. No other run assumes that clients,
publishers or the host application do anything.

### Where the code and its documentation part

Four runs end in a violation, each of a sentence in the repository. `PROJECT.json`
quotes them under `findings`.

| Run | What happens |
| --- | --- |
| `ghost` | an announced peer is replaced unreported, its successor leaves before its ICE is up, and the host application believes the identity present as long as the room lives |
| `stale_share` | a peer is replaced while sharing its screen; no `track_unpublished` follows (nor does it if a sharer goes before it was ever announced, or if the successor's client says it has stopped: the flag it had was false already) |
| `rejoin_full` | a member of a full room cannot reconnect |
| `rejected_open` | after one rejected answer, the next good one opens entries whose m-line does not exist |

How far the first, second and fourth go is proved: see `GhostsComeOfReconnecting`,
`StaleSharesComeOfSilence`, `DamageHasOneCause` and `DamageIsForGood` in section 4.

Others were met and have no run of their own.

- A rejected answer to an offer that stops m-lines leaves their entries
  `NegotiatingStop`; the next accepted one drops them, and the m-lines stay open with
  nothing that would ever stop them (`NoOrphanLine` fails without `trusted`).
- The `reported` flag keeps one peer from being announced twice, but does not outlive a
  reconnection: a storm of them is a storm of arrivals.
- Three kinds of refusal (no frame in time, a first frame that is not text, a loop that
  ends with the join in its queue) close the socket without a message;
  `LoopRefusalTold` is about the refusals of a loop that runs.
- Where the repository's README calls reports at-least-once, an ordinary report is gone
  after three failed tries. So is the boot announcement after twelve, which `report.rs`
  calls the one report that must not be lost; a host application that misses it goes on
  believing in the members of the previous process's rooms until the departure of each is
  reported. `BooksFollow` says what holds as long as nothing was dropped.
- A newcomer is not told who is talking until that changes: `ShownInTime` is about
  clients that have been sent a set.
- A peer whose ICE never comes up keeps its seat as long as its socket is open: only a
  connection that was reported disconnected is timed.

## 4. What is proved

Every safety property of every passing run is proved for every value of the constants,
the four refinements among them; what is listed without a run is proved only. An
invariant is seldom inductive alone; what has to be added is named here.

Liveness is out of the prover's reach, but most of why it holds is not. For each liveness
property there are theorems about its *safety half*: whatever has to happen is not lost
but there to be done, or owed by something that is queued; the step that is due brings
it nearer or about; no other step takes it back. What is left to TLC is that fairness
makes these steps happen.

**`Engine`**, for any identities, rooms, limit and number of peers (`EngineAssumption`:
the limit is at least one, the bound on ids a natural number):

- `TypeCorrect`, `TablesAgree`, `ReconnectReplaces`, `RostersAgree`, `ArrivalsStayKnown`,
  `BooksClose`, and, without a run, `NoStaleRoom`, `CapacityRespected`, `IdsAreFresh` and
  `SharersStayKnown`.
- `LoopImplementsMembership`: the refinement of `Membership`.
- The safety halves of `ArrivalsReported` and `DeadPeersLeave`. `ArrivalsComeFirst`: whoever
  goes, by leaving, by being replaced or by the sweep, was announced if its transport
  had come up, so that no departure overtakes its arrival. `DeadAreSwept`: no sweep
  leaves a dead transport behind, and none recovers.
- The scope of two findings. `GhostsComeOfReconnecting`: a ghost is left only by a peer
  that was never announced in a seat that was (`Heir`), which takes a reconnection, and
  goes only when the identity joins again or the room is finished.
  `StaleSharesComeOfSilence`: a share that is over is believed in because its sharer was
  replaced, or left without having been announced; the client of the successor cannot
  end it by saying so.
- `RoomsAreIndependent`: one thread and one table serve all rooms, and yet a command
  changes one room at most, and nothing is broadcast in, or reported of, a room none of
  whose peers changed.

They are proved in four layers, each of which may use those before it. `Shape` (types,
agreement of the two tables, live ids below `next_peer`) stands by itself; without the
last part a new peer could take over an id, and without the agreement a command could
reach a peer of another room. `RoomsKept` (no empty room, one seat per identity, the
limit) needs that a seat names its room. `RosterAgrees` is about `view`. `BooksKept` needs
one seat per identity: a departure erases the right belief only because nobody else
holds that seat. Every step is a refused join, an admission, a change of state, a
departure, a step of the transports or idle (`StepKinds`), and each layer is proved kind
by kind. `Announced` and `Swept` rest on `Shape` and on the order of the phases, the
scope of the findings on `RoomsKept`, the independence of rooms on `RosterAgrees`:
`set_state` and `drop_peer` may be modelled over the beliefs of all clients only because
none holds a belief about another room.

**`Negotiation`**, for any tracks, kinds of answer and number of repeats:

- `NegotiationTyped`, `NobodyMissed`, `MediaAttributable`, and, without a run,
  `OfferCoversEntries` and `EntriesGoForward`. The invariant adds that a track not yet published has no
  entry (so that `propagate` never disturbs one), that no offer is out before the join,
  and that only entries of departed publishers are being stopped.
- `OpenMeansEstablished` and `EveryLineHasAnEntry`, as long as the client is `trusted`.
  The invariant is `Exchange` (an offer is out exactly as long as it or its answer is on
  its way, and that answer describes what is pending) and `LinesAgree` (the offer is all
  that is being negotiated, and the open m-lines are the entries that are open or being
  stopped). The run `rejected_open` shows that the condition is needed.
- The scope of the finding `rejected_open`, for any client. `DamageHasOneCause`
  (`OnlyRejectionHarms`, which the run checks with one repeated answer): entries
  stop being part of the pending offer (`Leftover`, `LeftStops`) by a rejected answer and
  nothing else, and only a later good answer makes of them an entry without an m-line
  (`Silent`) or an m-line without an entry (`Orphans`). `DamageIsForGood`: such a track has
  no media as long as its publisher stays, and such an m-line stays open, however well
  later offers are answered. Both rest on `LinesInUse`: an open m-line belongs to an entry
  that is past its offer, or to a publisher that is gone.
- `SubscriptionsLive`: the refinement of `Subscription`, for any client.
- The safety halves of `OfferSettles`, for any client (`OffersAreUnderWay`: an offer that is
  out, or an answer to it, is on its way, unless one did not parse), and of
  `PublishersAreHeard` and `DeadLinesStop`, while it is trusted (`TracksAreUnderWay`).

**`Forwarding`**, for any finite set of mids, number of peers and length of the queue:

- `ForwardingTyped`, with `Tidy`: what each phase leaves behind, a peer that is gone has
  nothing, and an entry has an m-line exactly when it has been offered.
- `SubscriptionsHold`. `Subscribers` relates subscriptions to the queue: what is queued
  comes from a track that is published, nothing is announced twice, nobody is
  subscribed before the announcement is handed on, and whoever is not waiting for one
  has an entry.
- `HeardFromTheirTracks`, `RequestsReachPublishers`. `LinesAgree` relates `tracks_out` to
  the client's map: an m-line has one entry and a number no greater than those made;
  nothing of a publisher that is there is being stopped; map and entries name the same
  track wherever they name the same m-line, and of publishers that are there both have
  all; a queued request names the entry it was translated by, which stays until it is
  served. The two invariants need each other: an accepted answer drops no live
  subscription only because none is being stopped.
- `EverySubscriptionLives`: the refinement of `Subscription`, for every peer.
- `TracksOutBounded`: `tracks_out` is never longer than the number of tracks the other peers
  so far may have published, and TLC finds it that long: nothing but the number of peers
  that come and go while an offer is unanswered bounds it.
- `SetInSeq` and `Places` are the lemmas about finite sets in order on which `retain` and
  the numbering rest; `Answered`, `Negotiated`, `Arrived`, `Produced` and `HandedOn` say once
  what each action does to entries and queue.

**`IceGrace`**, for any positive grace and length of a turn, and any number of changes:
`IceTyped`, `NotGivenUpEarly` and `NotHeldForGood`. The first rests on `TimerLags`: as long
as no recovery is waiting to be heard, the timer started no earlier than the
disconnection. The second on `Timely`: a disconnection the loop has not heard of is
fresh and the last thing reported, the timer of one it has heard of started within two
turns, and the last sweep found it running.

**`Speaking`**, for any peers, hold, tick and length of a turn: `SpeakingTyped`, `RingsHold`
and `MistakesEnd`. What is left of a hold is what the silence has not used up
(`HoldsFollow`); clients show the cached set (`CacheShown`); a mistake is no older than
the last tick that looked (`MistakesAge`).

**`Report`**, for any subjects and number of reports: `ReportTyped`, `HostFollows`, and,
without a run, `HandledInTurn`. `Order` says that what was or may still be handled, the
report in hand and the queue ascend in this order; `BooksAgree` that the last queued
report on a subject says what the loop holds of it, failing that the one in hand, and
failing that the host application knows. `TaskImplementsDelivery`, the refinement of
`Delivery`, rests on `Order` and on `OneReport`, that whatever carries the id of a report
is that report: a late post is the report in hand, or a stray, and never both.
`ReportsComeNearer` is the safety half of `ReportsSettle`: at most 13 steps of the task for
each report ahead.

**`Session`**, for any number of frames and messages: `SessionTyped`, `RefusalsAreTold`,
`ReplyComesFirst`, `SeatsAreAccountedFor`, and, without a run, `LeaveEndsIt`. `Stages` lists
what session, writer, channels and loop may be in at each stage of a socket. The safety
halves are `AnswerIsComing` and `HangupIsNoticed` (of `EverySocketAnswered`: who awaits the
loop has an answer coming, even from a loop that ends; a client that goes away leaves a
task that reads something to read) and `SeatsComeBack` (of `SeatsReturned`: after the
task's end a leave is queued for its seat, and nothing gets in front of it).

**Only model-checked:** liveness (`DeadPeersLeave`, `ArrivalsReported`, `PublishersAreHeard`,
`DeadLinesStop`, `OfferSettles`, `ReportsSettle`, `EverySocketAnswered`, `SeatsReturned`), which
this prover cannot conclude from fairness.

## 5. Not modelled

- Configuration (`config.rs`) is read once, before anything runs, by functions of the
  environment; a module could only restate them. The limit is a constant of `Engine`.
- The HTTP surface (`signal/http.rs`) is stateless routing; the health probe asks it from
  another process. The websocket upgrade is where `Session` begins.
- Tokens (`auth.rs`): whether one verifies is an input of `Session`; the cryptography is a
  library's.
- str0m: RTP, DTLS, SRTP, ICE and SDP, and which of its peers a datagram belongs to.
- Logging, the diagnostics page, JSON.

## 6. Plan

1. Done: all components that keep state; the abstract specifications `Membership`,
   `Subscription` (implemented twice) and `Delivery`; proofs of every safety property a run
   checks, of the safety half of every liveness property, and of how far three of the
   findings go; the bound on `tracks_out`; the independence of rooms.
2. Open: `Sfu`, `Session` composed with `Engine` for two sockets and one room, so that
   commands come from sessions. `Session` keeps of the loop only what one socket sees,
   and `Engine` lets a command name any id, so both are more general than the composition;
   what it would show is that neither assumes anything the other does not do.
3. Open: `IceGrace` as the transport of one peer of `Engine`. Its clock runs through the
   phases, and its `PollDone` and `HandleInput` each stand for two steps of `Engine`, so the
   mapping needs a finer `IceGrace` before it can be stated.
