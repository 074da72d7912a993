----------------------------- MODULE Negotiation -----------------------------
(***************************************************************************)
(* One subscriber's outbound tracks (src/src/sfu/negotiate.rs, and what    *)
(* feeds it in room.rs and peer_media.rs): how a track that somebody else  *)
(* in the room publishes becomes an m-line of this subscriber, carries     *)
(* media, and is stopped once its publisher is gone.                       *)
(*                                                                         *)
(* The media loop and the client talk over two reliable FIFO channels: the *)
(* offers the SFU queues on the socket, and the answers that come back as  *)
(* commands.  The client reads an offer and answers it; the answer may be  *)
(* one str0m accepts, one it rejects, or one that does not parse, and a    *)
(* client may send its last answer again.                                  *)
(*                                                                         *)
(* An m-line is named by its track: add_media hands out a fresh mid, and a *)
(* track is added at most once to one subscriber.                          *)
(*                                                                         *)
(* Left out: the first offer, which the client makes and Engine's Join     *)
(* answers, and the m-lines of its own it carries; the departure of the    *)
(* subscriber, after which nothing here is left to say.                    *)
(***************************************************************************)
EXTENDS Naturals, Sequences

CONSTANTS
  Tracks,     \* tracks the other peers of the room may publish
  Answers,    \* the kinds of answer the client may send
  MaxResends  \* bound on how often the client repeats its last answer

ASSUME NegotiationAssumption ==
  /\ Answers \subseteq {"good", "rejected", "garbled"}
  /\ MaxResends \in Nat

VARIABLES
  joined,   \* the subscriber is in the room
  track,    \* track -> whether its publisher holds the Arc
  out,      \* Peer.tracks_out: track -> TrackOutState, "none" if there is no entry
  pending,  \* Peer.pending: NoOffer, or the changes of the offer that is out
  lines,    \* m-lines the subscriber's Rtc has ever established
  open,     \* those of them that are not stopped: the ones with a writer
  offers,   \* offers queued on the socket, oldest first
  answers,  \* answers on their way to the media loop
  heard,    \* tracks of the map in the last offer the client read
  last,     \* the last answer it sent
  resends,  \* how often it has repeated one
  trusted   \* it has answered every offer once, with an answer str0m takes

server == <<joined, track, out, pending, lines, open>>
client == <<heard, last, resends, trusted>>
vars == <<server, offers, answers, client>>

\* ToStop is missing: the call that enters it also leaves it.
TrackOutState == {"none", "ToOpen", "Negotiating", "Open", "NegotiatingStop"}
NoOffer == [added |-> {}, stopped |-> {}]
NoAnswer == [kind |-> "none", lines |-> {}]
Answer == [kind : Answers, lines : SUBSET Tracks]
Offer == [lines : SUBSET Tracks, map : SUBSET Tracks]

InState(o, S) == {t \in Tracks : o[t] \in S}
Published == {t \in Tracks : track[t] = "published"}

\* The tracks whose packets forward() writes to this subscriber: an entry with
\* a mid whose Weak upgrades, and a writer for the mid.
Forwarded ==
  InState(out, {"Negotiating", "Open", "NegotiatingStop"}) \cap Published \cap open

-----------------------------------------------------------------------------
(* The media loop                                                          *)

\* subscribe_to_existing: an entry for everything already being published.
SubscribeToNothing(S) == out
Subscribe(S) == [t \in Tracks |-> IF t \in S THEN "ToOpen" ELSE out[t]]

Join ==
  /\ ~joined
  /\ joined' = TRUE
  /\ out' = Subscribe(Published)
  /\ UNCHANGED <<track, pending, lines, open, offers, answers, client>>

\* The publisher of some tracks leaves, is replaced or is reaped: its Arcs go.
PublisherGone ==
  /\ \E S \in SUBSET Published \ {{}} :
        track' = [t \in Tracks |-> IF t \in S THEN "gone" ELSE track[t]]
  /\ UNCHANGED <<joined, out, pending, lines, open, offers, answers, client>>

\* Subscriptions that need an m-line, and m-lines whose publisher is gone.
Added == InState(out, {"ToOpen"}) \cap Published
StoppedNever == {}
Stopped == InState(out, {"Open"}) \ Published

\* An offer must settle before the next one is made.
OfferingAnyway == joined /\ Added \cup Stopped # {}
Offering == joined /\ pending = NoOffer /\ Added \cup Stopped # {}

\* tracks_out once negotiate_if_needed returns.
NegotiatedHalfway ==
  IF ~Offering THEN out
  ELSE [t \in Tracks |-> IF t \in Added THEN "Negotiating"
                         ELSE IF t \in Stopped THEN "ToStop" ELSE out[t]]
Negotiated ==
  IF ~Offering THEN out
  ELSE [t \in Tracks |-> IF t \in Added THEN "Negotiating"
                         ELSE IF t \in Stopped THEN "NegotiatingStop" ELSE out[t]]

\* track_map: every m-line with a live publisher that is not being stopped.
TrackMapOfNew(o) == InState(o, {"Negotiating"}) \cap Published
TrackMap(o) == InState(o, {"Negotiating", "Open"}) \cap Published

\* TrackOpen events, handed to the rest of the room.
PropagatedToNobody(o, S) == o
Propagated(o, S) == [t \in Tracks |-> IF joined /\ t \in S THEN "ToOpen" ELSE o[t]]

\* One turn of the loop: the subscriber is polled, which may send an offer;
\* others turn out to have published; that reaches the room once everybody has
\* been polled.
PollRooms ==
  /\ \/ /\ Offering
        /\ pending' = [added |-> Added, stopped |-> Stopped]
        /\ offers' = Append(offers, [lines |-> lines \cup Added, map |-> TrackMap(Negotiated)])
     \/ ~Offering /\ UNCHANGED <<pending, offers>>
  /\ \E S \in SUBSET {t \in Tracks : track[t] = "unborn"} :
        /\ track' = [t \in Tracks |-> IF t \in S THEN "published" ELSE track[t]]
        /\ out' = Propagated(Negotiated, S)
  /\ UNCHANGED <<joined, lines, open, answers, client>>

\* accept_answer once str0m has taken the answer: what was being added is
\* open, what was being stopped is dropped.
SettledAllOpen ==
  [t \in Tracks |-> IF out[t] \in {"Negotiating", "NegotiatingStop"} THEN "Open" ELSE out[t]]
SettledWhileAlive ==
  [t \in Tracks |-> CASE t \notin Published -> "none"
                     [] out[t] = "Negotiating" -> "Open"
                     [] OTHER -> out[t]]
Settled == [t \in Tracks |-> CASE out[t] = "Negotiating" -> "Open"
                               [] out[t] = "NegotiatingStop" -> "none"
                               [] OTHER -> out[t]]

\* str0m takes an answer that describes the m-lines of the offer.
Fits(answer) == answer.kind = "good" /\ answer.lines = lines \cup pending.added

\* What is left of the offer when an answer that parsed has been looked at:
\* it is taken out of the peer first, whatever str0m then says of the answer.
PendingKept == pending
PendingTaken == NoOffer

\* handle_answer: an answer that does not parse, or that nothing is pending
\* for, changes nothing; one that str0m rejects still consumes the offer.
Unusable(answer) == answer.kind = "garbled" \/ pending = NoOffer

AnswerIgnored ==
  /\ answers # <<>>
  /\ joined
  /\ Unusable(Head(answers))
  /\ answers' = Tail(answers)
  /\ UNCHANGED <<server, offers, client>>

AnswerRejected ==
  /\ answers # <<>>
  /\ ~Unusable(Head(answers))
  /\ ~Fits(Head(answers))
  /\ answers' = Tail(answers)
  /\ pending' = PendingTaken
  /\ UNCHANGED <<joined, track, out, lines, open, offers, client>>

AnswerAccepted ==
  /\ answers # <<>>
  /\ ~Unusable(Head(answers))
  /\ Fits(Head(answers))
  /\ answers' = Tail(answers)
  /\ pending' = PendingTaken
  /\ out' = Settled
  /\ lines' = lines \cup pending.added
  /\ open' = (open \cup pending.added) \ pending.stopped
  /\ UNCHANGED <<joined, track, offers, client>>

-----------------------------------------------------------------------------
(* The client                                                              *)

\* It reads the oldest offer, takes over its map, and answers.
ReadOffer ==
  /\ offers # <<>>
  /\ offers' = Tail(offers)
  /\ heard' = Head(offers).map
  /\ \E kind \in Answers : last' = [kind |-> kind, lines |-> Head(offers).lines]
  /\ answers' = Append(answers, last')
  /\ trusted' = (trusted /\ last'.kind = "good")
  /\ UNCHANGED <<server, resends>>

Resend ==
  /\ last # NoAnswer
  /\ resends < MaxResends
  /\ resends' = resends + 1
  /\ answers' = Append(answers, last)
  /\ trusted' = FALSE
  /\ UNCHANGED <<server, offers, heard, last>>

-----------------------------------------------------------------------------
Init ==
  /\ joined = FALSE
  /\ track = [t \in Tracks |-> "unborn"]
  /\ out = [t \in Tracks |-> "none"]
  /\ pending = NoOffer
  /\ lines = {} /\ open = {}
  /\ offers = <<>> /\ answers = <<>>
  /\ heard = {} /\ last = NoAnswer /\ resends = 0 /\ trusted = TRUE

HandleAnswer == AnswerIgnored \/ AnswerRejected \/ AnswerAccepted

Next == Join \/ PublisherGone \/ PollRooms \/ HandleAnswer \/ ReadOffer \/ Resend

Spec == Init /\ [][Next]_vars

\* The loop keeps turning, which both polls the subscriber and drains its
\* answers, and the client keeps reading its socket.
FairSpec == Spec /\ WF_vars(PollRooms) /\ WF_vars(HandleAnswer) /\ WF_vars(ReadOffer)

-----------------------------------------------------------------------------
(* Whatever the client answers                                             *)

TypeOK ==
  /\ joined \in BOOLEAN
  /\ track \in [Tracks -> {"unborn", "published", "gone"}]
  /\ out \in [Tracks -> TrackOutState]
  /\ pending \in [added : SUBSET Tracks, stopped : SUBSET Tracks]
  /\ open \subseteq lines /\ lines \subseteq Tracks
  /\ offers \in Seq(Offer) /\ answers \in Seq(Answer)
  /\ heard \subseteq Tracks
  /\ last \in Answer \cup {NoAnswer}
  /\ resends \in 0 .. MaxResends /\ trusted \in BOOLEAN

\* A subscriber misses nobody: whether a track was published before it joined
\* (subscribe_to_existing) or after (propagate, deferred to the end of the
\* turn), tracks_out has an entry for it as long as it is published.  Nobody who
\* is not in the room has entries.
SubscribedToAll ==
  /\ joined => Published \subseteq {t \in Tracks : out[t] # "none"}
  /\ ~joined => \A t \in Tracks : out[t] = "none"

\* The offer that is out names entries that are still waiting for it: no other
\* answer, late or repeated, has settled them meanwhile.
PendingCovers ==
  /\ pending.added \subseteq InState(out, {"Negotiating"})
  /\ pending.stopped \subseteq InState(out, {"NegotiatingStop"})

\* The client can tell whose media arrives on an m-line: a subscription that has
\* an m-line and a publisher is in the newest map on its way to the client, even
\* if the offer that made the m-line was answered badly.  The map of every offer
\* is the whole of the subscriptions, never just what the offer changes.
NewestMap == IF offers = <<>> THEN heard ELSE offers[Len(offers)].map
AttributionKept == InState(out, {"Negotiating", "Open"}) \cap Published \subseteq NewestMap

\* An entry only moves forward, and one that is gone never comes back: a
\* publisher that left cannot be subscribed to again.
Rank(state) == CASE state = "ToOpen" -> 1 [] state = "Negotiating" -> 2
                 [] state = "Open" -> 3 [] state = "NegotiatingStop" -> 4
                 [] OTHER -> 5
EntriesAdvance ==
  [][joined => \A t \in Tracks :
       \/ Rank(out'[t]) >= Rank(out[t])
       \/ out[t] = "none" /\ track[t] = "unborn" /\ out'[t] = "ToOpen"]_vars

-----------------------------------------------------------------------------
(* While the client keeps to its part                                      *)

\* "Anything mid-negotiation becomes live": an entry that says Open has an
\* m-line that str0m has established.
NegotiatedIsLive == InState(out, {"Open"}) \subseteq open
OpenIsEstablished == trusted => NegotiatedIsLive

\* "Anything mid-stop is dropped so its m-line can be recycled": an m-line that
\* is open has an entry that will stop it.
NoOrphanLine == trusted => open \subseteq InState(out, {"Open", "NegotiatingStop"})

-----------------------------------------------------------------------------
(* When it does not                                                        *)

\* Entries and m-lines that no offer will ever settle again.  Silent entries say
\* Open and have no m-line; an orphan is an m-line that no entry will stop.
Leftover == InState(out, {"Negotiating"}) \ pending.added
LeftStops == InState(out, {"NegotiatingStop"}) \ pending.stopped
Silent == InState(out, {"Open"}) \ open
Orphans == open \ InState(out, {"Open", "NegotiatingStop"})

\* Late, repeated and garbled answers do no harm, nor do publishers that go while
\* an offer is out.  Entries are left over by an answer str0m rejects
\* (accept_answer has taken the offer out of the peer by then), and only those of
\* that offer; and it takes a further answer, a good one to another offer, to turn
\* what is left over into a silent entry or an orphan.
DamageBegins ==
  /\ Leftover' \ Leftover # {} => AnswerRejected /\ Leftover' \ Leftover \subseteq pending.added
  /\ LeftStops' \ LeftStops # {}
       => AnswerRejected /\ LeftStops' \ LeftStops \subseteq pending.stopped
  /\ Silent' \ Silent # {} => AnswerAccepted /\ Silent' \ Silent \subseteq Leftover
  /\ Orphans' \ Orphans # {} => AnswerAccepted /\ Orphans' \ Orphans \subseteq LeftStops
OnlyRejectionHarms == [][DamageBegins]_vars

-----------------------------------------------------------------------------
(* What must happen                                                        *)

\* Whoever publishes is heard: a published track is forwarded on an
\* established m-line, unless its publisher goes first.
PublishersAreHeard ==
  \A t \in Tracks : (joined /\ t \in Published)
                      ~> (t \in Forwarded \/ track[t] = "gone" \/ ~trusted)

\* A publisher leaving is self-healing: an m-line whose publisher is gone is
\* stopped.
DeadLinesStop ==
  \A t \in Tracks : (track[t] = "gone" /\ t \in open) ~> (t \notin open \/ ~trusted)

\* No offer stays out for good: whether str0m takes or rejects the answer, and
\* whichever offer it was meant for, the next one can be made.  An answer that
\* does not parse is the exception: nothing ever settles the offer then.
OfferSettles == (pending # NoOffer) ~> (pending = NoOffer \/ last.kind = "garbled")
=============================================================================
