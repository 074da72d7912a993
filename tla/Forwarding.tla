----------------------------- MODULE Forwarding -----------------------------
(***************************************************************************)
(* What the peers of one room hear of each other                           *)
(* (src/src/sfu/peer_media.rs, and propagate in room.rs): a track that     *)
(* opens, a packet and a request for a keyframe are queued while every     *)
(* peer is polled in turn, and are handed to the others once all of them   *)
(* have been polled.                                                       *)
(*                                                                         *)
(* Every publisher names its m-lines alike ("0" is the first of each), so  *)
(* a track is a publisher and a mid; the m-lines of a subscriber are made  *)
(* by the SFU and numbered here in the order they are made.                *)
(*                                                                         *)
(* Negotiation follows the offers of one subscriber whatever it answers;   *)
(* here there are several, and str0m takes every answer.  A peer that has  *)
(* died but has not been swept is one that is polled without output.       *)
(***************************************************************************)
EXTENDS Integers, Sequences, SequencesExt, FiniteSets

CONSTANTS
  Mids,       \* the m-lines a peer may publish
  VideoMids,  \* those that carry video
  MaxPeerId,  \* bound on the ids given out
  MaxQueue    \* bound on what one turn queues

ASSUME ForwardingAssumption ==
  /\ IsFiniteSet(Mids) /\ VideoMids \subseteq Mids
  /\ MaxPeerId \in Nat /\ MaxQueue \in Nat

VARIABLES
  phase,      \* where Engine::run is in its loop
  room,       \* Room.peers, in the order of their ids
  nextPeer,   \* Engine.next_peer
  tracksIn,   \* peer -> the mids it publishes
  out,        \* peer -> tracks_out, in order
  pending,    \* peer -> whether an offer is out
  lines,      \* peer -> the m-lines it can be written to
  made,       \* peer -> how many m-lines were ever made for it
  map,        \* peer -> the map in the last offer it was sent
  unpolled,   \* peers not yet polled in this turn
  queue,      \* what they produced: Propagated
  recent,     \* tracks asked for a keyframe, for a gap, less than a second ago
  wrote,      \* the packet the step just taken forwarded, and where to
  asked       \* the encoders it asked for a keyframe

peers == <<room, nextPeer>>
subscriptions == <<out, pending, lines, made, map>>
effects == <<wrote, asked>>
vars == <<phase, peers, tracksIn, subscriptions, unpolled, queue, recent, effects>>

PeerIds == 1 .. MaxPeerId
Track == [origin : PeerIds, mid : Mids]
Published == {t \in Track : t.origin \in room /\ t.mid \in tracksIn[t.origin]}

\* tracks_out: line 0 stands for no mid.
TrackOut == [track : Track, state : {"ToOpen", "Negotiating", "Open", "NegotiatingStop"}, line : Nat]
Subscription(t) == [track |-> t, state |-> "ToOpen", line |-> 0]

Nothing == [track |-> {}, to |-> <<>>]
NoEffect == wrote' = Nothing /\ asked' = {}

-----------------------------------------------------------------------------
(* Commands                                                                *)

\* subscribe_to_existing.
Subscriptions(tracks) == LET q == SetToSeq(tracks) IN [i \in DOMAIN q |-> Subscription(q[i])]

Join ==
  /\ phase = "drain" /\ nextPeer \in PeerIds
  /\ room' = room \cup {nextPeer}
  /\ nextPeer' = nextPeer + 1
  /\ out' = [out EXCEPT ![nextPeer] = Subscriptions(Published)]
  /\ UNCHANGED <<phase, tracksIn, pending, lines, made, map, unpolled, queue, recent>>

\* A leave, a replacement, or the sweep at the end of the turn: whatever the
\* peer published is dropped with it.
Gone(p) ==
  /\ phase \in {"drain", "reap"} /\ p \in room
  /\ room' = room \ {p}
  /\ tracksIn' = [tracksIn EXCEPT ![p] = {}]
  /\ out' = [out EXCEPT ![p] = <<>>]
  /\ pending' = [pending EXCEPT ![p] = FALSE]
  /\ lines' = [lines EXCEPT ![p] = {}]
  /\ map' = [map EXCEPT ![p] = {}]
  /\ recent' = {t \in recent : t.origin # p}
  /\ UNCHANGED <<phase, nextPeer, made, unpolled, queue>>

\* The place of i among I, and what is at a place.
Rank(I, i) == Cardinality({j \in I : j <= i})
Nth(I, n) == CHOOSE i \in I : Rank(I, i) = n

InState(p, S) == {i \in DOMAIN out[p] : out[p][i].state \in S}
LinesOf(p, S) == {out[p][i].line : i \in InState(p, S)}

\* accept_answer, once str0m has taken the answer.
Settled(e) == IF e.state = "Negotiating" THEN [e EXCEPT !.state = "Open"] ELSE e
KeptOpen(p) == InState(p, {"Negotiating", "Open"})
Kept(p) == InState(p, {"ToOpen", "Negotiating", "Open"})

Answer(p) ==
  /\ phase = "drain" /\ pending[p]
  /\ pending' = [pending EXCEPT ![p] = FALSE]
  /\ lines' = [lines EXCEPT ![p] = (@ \cup LinesOf(p, {"Negotiating"}))
                                     \ LinesOf(p, {"NegotiatingStop"})]
  /\ out' = [out EXCEPT ![p] = [n \in 1 .. Cardinality(Kept(p)) |-> Settled(@[Nth(Kept(p), n)])]]
  /\ UNCHANGED <<phase, peers, tracksIn, made, map, unpolled, queue, recent>>

DrainDone ==
  /\ phase = "drain" /\ phase' = "poll"
  /\ unpolled' = room
  /\ UNCHANGED <<peers, tracksIn, subscriptions, queue, recent>>

-----------------------------------------------------------------------------
(* Polling                                                                 *)

Polled(p) == phase = "poll" /\ p \in unpolled /\ \A q \in unpolled : p <= q

\* negotiate_if_needed: m-lines for subscriptions to live publishers, an end to
\* those of dead ones, unless an offer is out.
Opening(p) == {i \in InState(p, {"ToOpen"}) : out[p][i].track \in Published}
Stopping(p) == {i \in InState(p, {"Open"}) : out[p][i].track \notin Published}
Offering(p) == ~pending[p] /\ Opening(p) \cup Stopping(p) # {}

\* A fresh mid for each m-line, in the order of tracks_out.
FreshLine(p, i) == made[p] + Rank(Opening(p), i)
OfferedHalfway(p) ==
  [i \in DOMAIN out[p] |->
     IF i \in Opening(p) THEN [out[p][i] EXCEPT !.state = "Negotiating", !.line = FreshLine(p, i)]
     ELSE IF i \in Stopping(p) THEN [out[p][i] EXCEPT !.state = "ToStop"]
     ELSE out[p][i]]
Offered(p) ==
  [i \in DOMAIN out[p] |->
     IF i \in Opening(p) THEN [out[p][i] EXCEPT !.state = "Negotiating", !.line = FreshLine(p, i)]
     ELSE IF i \in Stopping(p) THEN [out[p][i] EXCEPT !.state = "NegotiatingStop"]
     ELSE out[p][i]]
TrackMap(entries) ==
  {[line |-> e.line, track |-> e.track] :
     e \in {e \in ToSet(entries) : e.state \in {"Negotiating", "Open"} /\ e.track \in Published}}

Negotiate(p) ==
  /\ Polled(p) /\ Offering(p)
  /\ out' = [out EXCEPT ![p] = Offered(p)]
  /\ pending' = [pending EXCEPT ![p] = TRUE]
  /\ made' = [made EXCEPT ![p] = @ + Cardinality(Opening(p))]
  /\ map' = [map EXCEPT ![p] = TrackMap(Offered(p))]
  /\ UNCHANGED <<phase, peers, tracksIn, lines, unpolled, queue, recent>>

Output(p, events) ==
  /\ Polled(p) /\ ~Offering(p)
  /\ Len(queue) + Len(events) <= MaxQueue
  /\ queue' = queue \o events
  /\ UNCHANGED <<phase, peers, subscriptions, unpolled>>

Event(kind, p, t) == [kind |-> kind, source |-> p, track |-> t, line |-> 0]

\* handle_media_added, for every m-line of the offer the peer joined with.
Announcements(p) ==
  LET tracks == SetToSeq([origin : {p}, mid : Mids])
  IN [i \in DOMAIN tracks |-> Event("TrackOpen", p, tracks[i])]

MediaAdded(p) ==
  /\ tracksIn[p] = {}
  /\ Output(p, Announcements(p))
  /\ tracksIn' = [tracksIn EXCEPT ![p] = Mids]
  /\ UNCHANGED recent
  /\ NoEffect

\* handle_media_data_in: a gap in video asks the publisher for a keyframe, unless
\* that was done less than a second ago.
MediaData(p) ==
  \E mid \in tracksIn[p], contiguous \in BOOLEAN :
    LET t == [origin |-> p, mid |-> mid]
        request == {r \in {t} : mid \in VideoMids /\ ~contiguous /\ t \notin recent}
    IN /\ Output(p, <<Event("Media", p, t)>>)
       /\ recent' = recent \cup request
       /\ asked' = request
       /\ wrote' = Nothing
       /\ UNCHANGED tracksIn

\* handle_incoming_keyframe_request: the m-line the subscriber names is turned
\* back into the track it carries, if its publisher is still there.
Carried(p, line) ==
  {e.track : e \in {e \in ToSet(out[p]) : e.line = line /\ e.track \in Published}}

KeyframeRequest(p) ==
  \E line \in lines[p] : \E t \in Carried(p, line) :
    /\ Output(p, <<[Event("KeyframeRequest", p, t) EXCEPT !.line = line]>>)
    /\ UNCHANGED <<tracksIn, recent>>
    /\ NoEffect

PeerPolled(p) ==
  /\ Polled(p) /\ ~Offering(p)
  /\ unpolled' = unpolled \ {p}
  /\ UNCHANGED <<phase, peers, tracksIn, subscriptions, queue, recent>>

PollDone ==
  /\ phase = "poll" /\ unpolled = {}
  /\ phase' = "propagate"
  /\ UNCHANGED <<peers, tracksIn, subscriptions, unpolled, queue, recent>>

-----------------------------------------------------------------------------
(* Propagation                                                             *)

OthersAndSelf(event) == room
Others(event) == room \ {event.source}

\* TrackOpen: one more subscription for everybody else.
Subscribed(event) ==
  [p \in PeerIds |-> IF event.kind = "TrackOpen" /\ p \in Others(event)
                     THEN Append(out[p], Subscription(event.track)) ELSE out[p]]

\* forward: the first entry that matches the packet, if it has an m-line that can
\* be written to.
MatchesMid(e, t) == e.track \in Published /\ e.track.mid = t.mid
Matches(e, t) == e.track \in Published /\ e.track = t
Matching(p, t) == {i \in DOMAIN out[p] : Matches(out[p][i], t)}
ForwardLine(p, t) ==
  {out[p][i].line : i \in {i \in Matching(p, t) : \A j \in Matching(p, t) : i <= j}} \cap lines[p]
Forwarded(event) ==
  IF event.kind # "Media" THEN Nothing
  ELSE [track |-> {event.track},
        to |-> [p \in Others(event) |-> ForwardLine(p, event.track)]]

\* serve_keyframe_request, by the publisher alone, on its own mid.
SameMidOfSource(event) == [event.track EXCEPT !.origin = event.source]
Encoder(event) == event.track
Served(event) ==
  {t \in {Encoder(event)} : /\ event.kind = "KeyframeRequest"
                            /\ t.origin \in Others(event) /\ t \in Published}

Propagate ==
  /\ phase = "propagate" /\ queue # <<>>
  /\ queue' = Tail(queue)
  /\ out' = Subscribed(Head(queue))
  /\ wrote' = Forwarded(Head(queue))
  /\ asked' = Served(Head(queue))
  /\ UNCHANGED <<phase, peers, tracksIn, pending, lines, made, map, unpolled, recent>>

PropagateDone ==
  /\ phase = "propagate" /\ queue = <<>>
  /\ phase' = "reap"
  /\ UNCHANGED <<peers, tracksIn, subscriptions, unpolled, queue, recent>>

\* The rest of the turn, in which some requests come to be a second old.
TurnDone ==
  /\ phase = "reap" /\ phase' = "drain"
  /\ recent' \in SUBSET recent
  /\ UNCHANGED <<peers, tracksIn, subscriptions, unpolled, queue>>

-----------------------------------------------------------------------------
Init ==
  /\ phase = "drain"
  /\ room = {} /\ nextPeer = 1
  /\ tracksIn = [p \in PeerIds |-> {}]
  /\ out = [p \in PeerIds |-> <<>>] /\ pending = [p \in PeerIds |-> FALSE]
  /\ lines = [p \in PeerIds |-> {}] /\ made = [p \in PeerIds |-> 0]
  /\ map = [p \in PeerIds |-> {}]
  /\ unpolled = {} /\ queue = <<>> /\ recent = {}
  /\ wrote = Nothing /\ asked = {}

Drain == Join \/ DrainDone \/ \E p \in room : Answer(p)
Poll == \E p \in room : \/ MediaAdded(p) \/ MediaData(p) \/ KeyframeRequest(p)
EndOfPoll == PollDone \/ \E p \in room : Negotiate(p) \/ PeerPolled(p)

Next ==
  \/ /\ Drain \/ EndOfPoll \/ PropagateDone \/ TurnDone \/ \E p \in room : Gone(p)
     /\ NoEffect
  \/ Poll
  \/ Propagate

Spec == Init /\ [][Next]_vars

-----------------------------------------------------------------------------
TypeOK ==
  /\ phase \in {"drain", "poll", "propagate", "reap"}
  /\ room \subseteq 1 .. nextPeer - 1 /\ nextPeer \in 1 .. MaxPeerId + 1
  /\ tracksIn \in [PeerIds -> SUBSET Mids]
  /\ out \in [PeerIds -> Seq(TrackOut)]
  /\ pending \in [PeerIds -> BOOLEAN]
  /\ lines \in [PeerIds -> SUBSET (Nat \ {0})] /\ made \in [PeerIds -> Nat]
  /\ map \in [PeerIds -> SUBSET [line : Nat \ {0}, track : Track]]
  /\ unpolled \subseteq room
  /\ queue \in Seq([kind : {"TrackOpen", "Media", "KeyframeRequest"},
                    source : room, track : Track, line : Nat])
  /\ recent \subseteq Track /\ asked \subseteq Track

\* Everybody is subscribed exactly once to every track of everybody else, and
\* never to its own, from the end of the turn in which it is published or joins
\* until its publisher is gone; and once is all, so tracks_out never holds more
\* than the tracks there have been.
Entries(p, t) == {i \in DOMAIN out[p] : out[p][i].track = t}
Announced(t) == \E i \in DOMAIN queue : queue[i].kind = "TrackOpen" /\ queue[i].track = t
SubscribedOnce ==
  \A p \in room, t \in Track :
    /\ Cardinality(Entries(p, t)) <= 1
    /\ t.origin = p => Entries(p, t) = {}
    /\ t \in Published /\ t.origin # p => (Entries(p, t) = {}) = Announced(t)

\* Nobody hears the wrong person: a packet is written to exactly the established
\* m-lines that the map its subscribers were sent last attributes to the track
\* it came from, whichever subscriptions were made or dropped since.
HeardAsSent ==
  \A t \in wrote.track :
    wrote.to = [p \in room \ {t.origin} |->
                  {line \in lines[p] : [line |-> line, track |-> t] \in map[p]}]

\* "So the request reaches the real encoder": a subscriber's request for a
\* keyframe on an m-line asks the publisher whose track that m-line carries, on
\* the publisher's own mid, and nobody else.
RequestServed ==
  phase = "propagate" /\ queue # <<>> /\ Head(queue).kind = "KeyframeRequest"
RequestsReachEncoder ==
  [][RequestServed =>
       \A m \in map[Head(queue).source] : m.line = Head(queue).line => asked' = {m.track}]_vars
=============================================================================
