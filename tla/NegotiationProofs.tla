-------------------------- MODULE NegotiationProofs --------------------------
(***************************************************************************)
(* Proofs about one subscriber's tracks, for any tracks, any client and    *)
(* any number of repeated answers; where a theorem says trusted, it is     *)
(* about a client that has kept to its part so far.                        *)
(***************************************************************************)
EXTENDS NegotiationSubscription, TLAPS, SequenceTheorems

-----------------------------------------------------------------------------
(* Types                                                                   *)

\* An offer starts from the m-lines there are and adds to them.
LEMMA OffersTyped ==
  ASSUME TypeOK
  PROVE  /\ Added \in SUBSET Tracks /\ Stopped \in SUBSET Tracks
         /\ Negotiated \in [Tracks -> TrackOutState]
         /\ \A o : TrackMap(o) \in SUBSET Tracks
         /\ Settled \in [Tracks -> TrackOutState]
         /\ \A S : /\ Propagated(Negotiated, S) \in [Tracks -> TrackOutState]
                   /\ Subscribe(S) \in [Tracks -> TrackOutState]
<1>1. Added \in SUBSET Tracks /\ Stopped \in SUBSET Tracks
  BY DEF Added, Stopped, InState
<1>2. Negotiated \in [Tracks -> TrackOutState]
  BY DEF Negotiated, TypeOK, TrackOutState
<1>3. \A o : TrackMap(o) \in SUBSET Tracks
  BY DEF TrackMap, InState
<1>4. Settled \in [Tracks -> TrackOutState]
  BY DEF Settled, TypeOK, TrackOutState
<1>5. \A S : /\ Propagated(Negotiated, S) \in [Tracks -> TrackOutState]
             /\ Subscribe(S) \in [Tracks -> TrackOutState]
  BY <1>2 DEF Propagated, Subscribe, TypeOK, TrackOutState
<1> QED BY <1>1, <1>2, <1>3, <1>4, <1>5

LEMMA TypeInit == Init => TypeOK
<1> SUFFICES ASSUME Init PROVE TypeOK
  OBVIOUS
<1>1. offers \in Seq(Offer) /\ answers \in Seq(Answer)
  BY DEF Init
<1>2. pending \in [added : SUBSET Tracks, stopped : SUBSET Tracks]
  BY DEF Init, NoOffer
<1>3. last \in Answer \cup {NoAnswer} /\ resends \in 0 .. MaxResends /\ trusted \in BOOLEAN
  BY NegotiationAssumption DEF Init
<1> QED BY <1>1, <1>2, <1>3 DEF Init, TypeOK, TrackOutState

LEMMA TypeStep == TypeOK /\ [Next]_vars => TypeOK'
<1> SUFFICES ASSUME TypeOK, [Next]_vars PROVE TypeOK'
  OBVIOUS
<1> USE NegotiationAssumption
<1>1. CASE Join
  BY <1>1, OffersTyped DEF TypeOK, Join, client
<1>2. CASE PublisherGone
  BY <1>2 DEF TypeOK, PublisherGone, client
<1>3. CASE PollRooms
  <2>1. pending' \in [added : SUBSET Tracks, stopped : SUBSET Tracks]
    BY <1>3, OffersTyped DEF TypeOK, PollRooms
  <2>2. offers' \in Seq(Offer)
    <3>1. [lines |-> lines \cup Added, map |-> TrackMap(Negotiated)] \in Offer
      BY OffersTyped DEF Offer, TypeOK
    <3>2. offers \in Seq(Offer)
      BY DEF TypeOK
    <3>3. \/ offers' = Append(offers, [lines |-> lines \cup Added, map |-> TrackMap(Negotiated)])
          \/ offers' = offers
      BY <1>3 DEF PollRooms
    <3> QED BY <3>1, <3>2, <3>3
  <2>3. track' \in [Tracks -> {"unborn", "published", "gone"}]
    BY <1>3 DEF TypeOK, PollRooms
  <2>4. out' \in [Tracks -> TrackOutState]
    BY <1>3, OffersTyped DEF PollRooms
  <2> QED BY <1>3, <2>1, <2>2, <2>3, <2>4 DEF TypeOK, PollRooms, client
<1>4. CASE AnswerIgnored
  BY <1>4 DEF TypeOK, AnswerIgnored, server, client
<1>5. CASE AnswerRejected
  BY <1>5 DEF TypeOK, AnswerRejected, client, PendingTaken, NoOffer
<1>6. CASE AnswerAccepted
  BY <1>6, OffersTyped DEF TypeOK, AnswerAccepted, client, PendingTaken, NoOffer
<1>7. CASE ReadOffer
  <2>1. Head(offers) \in Offer /\ offers' \in Seq(Offer)
    BY <1>7 DEF TypeOK, ReadOffer
  <2>2. last' \in Answer
    BY <1>7, <2>1 DEF ReadOffer, Answer, Offer
  <2>3. trusted' \in BOOLEAN
    BY <1>7 DEF ReadOffer
  <2>4. heard' \in SUBSET Tracks
    BY <1>7, <2>1 DEF ReadOffer, Offer
  <2>5. answers' \in Seq(Answer)
    BY <1>7, <2>2 DEF TypeOK, ReadOffer
  <2> QED BY <1>7, <2>1, <2>2, <2>3, <2>4, <2>5 DEF TypeOK, ReadOffer, server
<1>8. CASE Resend
  <2>1. last \in Answer /\ answers' = Append(answers, last)
    BY <1>8 DEF TypeOK, Resend
  <2>2. answers' \in Seq(Answer)
    BY <2>1 DEF TypeOK
  <2>3. resends' \in 0 .. MaxResends
    <3>1. resends \in 0 .. MaxResends /\ resends < MaxResends /\ resends' = resends + 1
      BY <1>8 DEF TypeOK, Resend
    <3> QED BY <3>1
  <2>4. trusted' \in BOOLEAN
    BY <1>8 DEF Resend
  <2> QED BY <1>8, <2>2, <2>3, <2>4 DEF TypeOK, Resend, server
<1>9. CASE UNCHANGED vars
  BY <1>9 DEF TypeOK, vars, server, client
<1> QED
  BY <1>1, <1>2, <1>3, <1>4, <1>5, <1>6, <1>7, <1>8, <1>9 DEF Next, HandleAnswer

\* The subscriptions, the offer that is out and both channels keep their types.
THEOREM NegotiationTyped == Spec => []TypeOK
BY TypeInit, TypeStep, PTL DEF Spec

-----------------------------------------------------------------------------
(* What holds whatever the client answers                                  *)

\* Nobody is subscribed to a track that is not published yet; a subscriber that
\* is not in the room has no offer out; only a line whose publisher is gone is
\* being stopped.
UnbornUnknown == \A t \in Tracks : track[t] = "unborn" => out[t] = "none"
NoOfferBeforeJoin == ~joined => pending = NoOffer
StopsAreDead == InState(out, {"NegotiatingStop"}) \cap Published = {}

Subscriptions ==
  /\ SubscribedToAll
  /\ UnbornUnknown
  /\ NoOfferBeforeJoin
  /\ StopsAreDead
  /\ PendingCovers
Attributed == TypeOK /\ Subscriptions /\ AttributionKept

\* The steps that leave alone what Subscriptions and AttributionKept speak of.
LEMMA NewestMapRead ==
  ASSUME TypeOK, ReadOffer
  PROVE  NewestMap' = NewestMap
<1>1. offers \in Seq(Offer) /\ offers # <<>> /\ offers' = Tail(offers)
  BY DEF TypeOK, ReadOffer
<1>2. CASE Len(offers) = 1
  <2>1. offers' = <<>> /\ Head(offers) = offers[Len(offers)]
    BY <1>1, <1>2
  <2> QED BY <1>1, <2>1 DEF NewestMap, ReadOffer
<1>3. CASE Len(offers) # 1
  <2>1. /\ offers' # <<>>
        /\ Len(offers') = Len(offers) - 1
        /\ offers'[Len(offers')] = offers[Len(offers)]
    <3>1. /\ Len(Tail(offers)) = Len(offers) - 1
          /\ \A i \in 1 .. Len(Tail(offers)) : Tail(offers)[i] = offers[i + 1]
      BY <1>1, HeadTailProperties
    <3>2. Len(offers) \in Nat /\ Len(offers) > 1
      <4>1. Len(offers) \in Nat /\ Len(offers) # 0
        BY <1>1, EmptySeq
      <4> QED BY <1>3, <4>1
    <3>3. Len(offers') = Len(offers) - 1
      BY <1>1, <3>1
    <3>4. offers' # <<>>
      BY <3>2, <3>3, EmptySeq
    <3>5. offers'[Len(offers) - 1] = offers[Len(offers)]
      BY <1>1, <3>1, <3>2
    <3> QED BY <3>3, <3>4, <3>5
  <2> QED BY <1>1, <2>1 DEF NewestMap
<1> QED BY <1>2, <1>3

\* What a turn of the loop does to a single entry.
LEMMA PolledEntry ==
  ASSUME TypeOK, UnbornUnknown, SubscribedToAll, PollRooms
  PROVE  \A t \in Tracks :
           \/ /\ track[t] = "unborn" /\ track'[t] = "published"
              /\ out'[t] = IF joined THEN "ToOpen" ELSE out[t]
           \/ track'[t] = track[t] /\ out'[t] = Negotiated[t]
<1>1. PICK S \in SUBSET {t \in Tracks : track[t] = "unborn"} :
        /\ track' = [t \in Tracks |-> IF t \in S THEN "published" ELSE track[t]]
        /\ out' = Propagated(Negotiated, S)
  BY DEF PollRooms
<1>2. \A t \in Tracks : track[t] = "unborn" => Negotiated[t] = out[t]
  BY DEF Negotiated, Added, Stopped, InState, UnbornUnknown, TypeOK
<1> QED BY <1>1, <1>2 DEF Propagated, TypeOK

LEMMA SubscriptionsInit == Init => Subscriptions
BY DEF Init, Subscriptions, SubscribedToAll, UnbornUnknown, NoOfferBeforeJoin,
       StopsAreDead, PendingCovers, InState, Published, NoOffer

LEMMA SubscriptionsStep ==
  ASSUME TypeOK, Subscriptions, [Next]_vars
  PROVE  Subscriptions'
<1> USE DEF Subscriptions
<1>1. CASE Join
  <2>1. /\ track' = track /\ pending' = pending /\ ~joined /\ joined'
        /\ out' = [t \in Tracks |-> IF t \in Published THEN "ToOpen" ELSE out[t]]
    BY <1>1 DEF Join, Subscribe
  <2>2. \A t \in Tracks : out[t] = "none"
    BY <2>1 DEF SubscribedToAll
  <2> QED
    BY <2>1, <2>2 DEF SubscribedToAll, UnbornUnknown, NoOfferBeforeJoin,
       StopsAreDead, PendingCovers, InState, Published, NoOffer
<1>2. CASE PublisherGone
  <2>1. /\ out' = out /\ pending' = pending /\ joined' = joined
        /\ \A t \in Tracks : track'[t] = track[t] \/ track'[t] = "gone"
    BY <1>2 DEF PublisherGone, TypeOK
  <2> QED
    BY <2>1 DEF SubscribedToAll, UnbornUnknown, NoOfferBeforeJoin,
       StopsAreDead, PendingCovers, InState, Published
<1>3. CASE PollRooms
  <2>1. /\ joined' = joined
        /\ \/ Offering /\ pending' = [added |-> Added, stopped |-> Stopped]
           \/ ~Offering /\ pending' = pending
    BY <1>3 DEF PollRooms
  <2>2. \A t \in Tracks :
           \/ /\ track[t] = "unborn" /\ track'[t] = "published"
              /\ out'[t] = IF joined THEN "ToOpen" ELSE out[t]
           \/ track'[t] = track[t] /\ out'[t] = Negotiated[t]
    BY <1>3, PolledEntry
  <2>3. SubscribedToAll'
    BY <2>1, <2>2 DEF SubscribedToAll, Negotiated, Offering, Published, TypeOK
  <2>4. UnbornUnknown'
    BY <2>1, <2>2 DEF UnbornUnknown, Negotiated, Added, Stopped, InState, Published, TypeOK
  <2>5. NoOfferBeforeJoin'
    BY <2>1 DEF NoOfferBeforeJoin, Offering
  <2>6. StopsAreDead'
    BY <2>2 DEF StopsAreDead, UnbornUnknown, Negotiated, Added, Stopped, InState, Published, TypeOK
  <2>7. PendingCovers'
    <3>1. CASE Offering
      <4>1. \A t \in Added : Negotiated[t] = "Negotiating"
        BY <3>1 DEF Negotiated, Added, InState
      <4>2. \A t \in Stopped : Negotiated[t] = "NegotiatingStop"
        BY <3>1 DEF Negotiated, Added, Stopped, InState
      <4>3. \A t \in Added \cup Stopped : t \in Tracks /\ track[t] # "unborn"
        BY DEF Added, Stopped, InState, Published, UnbornUnknown
      <4> QED BY <2>1, <2>2, <3>1, <4>1, <4>2, <4>3 DEF PendingCovers, InState
    <3>2. CASE ~Offering
      <4>1. Negotiated = out
        BY <3>2 DEF Negotiated
      <4> QED BY <2>1, <2>2, <3>2, <4>1 DEF PendingCovers, InState, UnbornUnknown
    <3> QED BY <3>1, <3>2
  <2> QED BY <2>3, <2>4, <2>5, <2>6, <2>7
<1>4. CASE AnswerIgnored \/ ReadOffer \/ Resend \/ UNCHANGED vars
  BY <1>4 DEF AnswerIgnored, ReadOffer, Resend, vars, server, SubscribedToAll,
     UnbornUnknown, NoOfferBeforeJoin, StopsAreDead, PendingCovers, InState, Published
<1>5. CASE AnswerRejected
  BY <1>5 DEF AnswerRejected, PendingTaken, NoOffer, SubscribedToAll,
     UnbornUnknown, NoOfferBeforeJoin, StopsAreDead, PendingCovers, InState, Published
<1>6. CASE AnswerAccepted
  <2>1. joined' = joined /\ track' = track /\ pending' = NoOffer /\ out' = Settled
    BY <1>6 DEF AnswerAccepted, PendingTaken
  <2>2. \A t \in Tracks :
          \/ out[t] = "Negotiating" /\ out'[t] = "Open"
          \/ out[t] = "NegotiatingStop" /\ out'[t] = "none"
          \/ out[t] \notin {"Negotiating", "NegotiatingStop"} /\ out'[t] = out[t]
    BY <2>1 DEF Settled
  <2> QED
    BY <2>1, <2>2 DEF NoOffer, SubscribedToAll, UnbornUnknown, NoOfferBeforeJoin,
       StopsAreDead, PendingCovers, InState, Published, TypeOK
<1> QED BY <1>1, <1>2, <1>3, <1>4, <1>5, <1>6 DEF Next, HandleAnswer

LEMMA AttributionStep ==
  ASSUME TypeOK, Subscriptions, AttributionKept, [Next]_vars
  PROVE  AttributionKept'
<1> USE DEF Subscriptions
<1>1. CASE Join
  <2>1. /\ track' = track /\ NewestMap' = NewestMap /\ ~joined
        /\ out' = [t \in Tracks |-> IF t \in Published THEN "ToOpen" ELSE out[t]]
    BY <1>1 DEF Join, Subscribe, NewestMap, client
  <2> QED BY <2>1 DEF AttributionKept, InState, Published, SubscribedToAll
<1>2. CASE PublisherGone
  <2>1. /\ out' = out /\ NewestMap' = NewestMap
        /\ \A t \in Tracks : track'[t] = track[t] \/ track'[t] = "gone"
    BY <1>2 DEF PublisherGone, TypeOK, NewestMap, client
  <2> QED BY <2>1 DEF AttributionKept, InState, Published
<1>3. CASE PollRooms
  <2>1. \A t \in Tracks :
           \/ /\ track[t] = "unborn" /\ track'[t] = "published"
              /\ out'[t] = IF joined THEN "ToOpen" ELSE out[t]
           \/ track'[t] = track[t] /\ out'[t] = Negotiated[t]
    BY <1>3, PolledEntry
  <2>2. InState(out', {"Negotiating", "Open"}) \cap Published' \subseteq TrackMap(Negotiated)
    BY <2>1 DEF InState, Published, TrackMap, UnbornUnknown
  <2>3. CASE Offering
    <3>1. NewestMap' = TrackMap(Negotiated)
      BY <1>3, <2>3 DEF PollRooms, NewestMap, TypeOK
    <3> QED BY <2>2, <3>1 DEF AttributionKept, InState, Published
  <2>4. CASE ~Offering
    <3>1. NewestMap' = NewestMap /\ Negotiated = out
      BY <1>3, <2>4 DEF PollRooms, NewestMap, client, Negotiated
    <3> QED BY <2>2, <3>1 DEF AttributionKept, InState, Published, TrackMap
  <2> QED BY <2>3, <2>4
<1>4. CASE ReadOffer
  <2>1. out' = out /\ track' = track
    BY <1>4 DEF ReadOffer, server
  <2> QED BY <1>4, <2>1, NewestMapRead DEF AttributionKept, InState, Published
<1>5. CASE AnswerIgnored \/ AnswerRejected \/ Resend \/ UNCHANGED vars
  <2>1. out' = out /\ track' = track /\ NewestMap' = NewestMap
    BY <1>5 DEF AnswerIgnored, AnswerRejected, Resend, vars, server, client, NewestMap
  <2> QED BY <2>1 DEF AttributionKept, InState, Published
<1>6. CASE AnswerAccepted
  <2>1. /\ track' = track /\ NewestMap' = NewestMap
        /\ \A t \in Tracks : out'[t] \in {"Negotiating", "Open"} =>
                                out[t] \in {"Negotiating", "Open"}
    BY <1>6 DEF AnswerAccepted, Settled, NewestMap, client
  <2> QED BY <2>1 DEF AttributionKept, InState, Published
<1> QED BY <1>1, <1>2, <1>3, <1>4, <1>5, <1>6 DEF Next, HandleAnswer

LEMMA AttributedInvariant == Spec => []Attributed
<1>1. Init => Attributed
  <2>1. Init => AttributionKept
    BY DEF Init, AttributionKept, InState, NewestMap
  <2> QED BY <2>1, TypeInit, SubscriptionsInit DEF Attributed
<1>2. Attributed /\ [Next]_vars => Attributed'
  BY TypeStep, SubscriptionsStep, AttributionStep DEF Attributed
<1> QED BY <1>1, <1>2, PTL DEF Spec

\* A subscriber misses nobody, whether a track was published before it joined or
\* after, in whatever turn of the loop.
THEOREM NobodyMissed == Spec => []SubscribedToAll
BY AttributedInvariant, PTL DEF Attributed, Subscriptions

\* No late, repeated or rejected answer settles entries of an offer that is out.
THEOREM OfferCoversEntries == Spec => []PendingCovers
BY AttributedInvariant, PTL DEF Attributed, Subscriptions

\* The newest map on its way to the client names every subscription that has an
\* m-line and a publisher.
THEOREM MediaAttributable == Spec => []AttributionKept
BY AttributedInvariant, PTL DEF Attributed

\* An entry only goes forward, and a publisher that left is never subscribed to
\* again.
THEOREM EntriesGoForward == Spec => EntriesAdvance
<1>1. ASSUME Attributed, [Next]_vars, joined, NEW t \in Tracks
      PROVE  \/ Rank(out'[t]) >= Rank(out[t])
             \/ out[t] = "none" /\ track[t] = "unborn" /\ out'[t] = "ToOpen"
  <2> USE DEF Attributed, Subscriptions
  <2>1. CASE PollRooms
    <3>1. \/ track[t] = "unborn" /\ out'[t] = "ToOpen"
          \/ out'[t] = Negotiated[t]
      BY <1>1, <2>1, PolledEntry
    <3>2. Rank(Negotiated[t]) >= Rank(out[t])
      BY <1>1 DEF Negotiated, Added, Stopped, InState, Rank, TypeOK, TrackOutState
    <3> QED BY <1>1, <3>1, <3>2 DEF UnbornUnknown
  <2>2. CASE AnswerAccepted
    BY <2>2 DEF AnswerAccepted, Settled, Rank, TypeOK, TrackOutState
  <2>3. CASE ~PollRooms /\ ~AnswerAccepted
    <3>1. out' = out
      BY <1>1, <2>3 DEF Next, Join, PublisherGone, HandleAnswer, AnswerIgnored,
         AnswerRejected, ReadOffer, Resend, vars, server
    <3> QED BY <3>1 DEF Rank
  <2> QED BY <2>1, <2>2, <2>3
<1>2. ASSUME Attributed, [Next]_vars
      PROVE  [joined => \A t \in Tracks :
                \/ Rank(out'[t]) >= Rank(out[t])
                \/ out[t] = "none" /\ track[t] = "unborn" /\ out'[t] = "ToOpen"]_vars
  BY <1>1, <1>2
<1> QED BY <1>2, AttributedInvariant, PTL DEF Spec, EntriesAdvance

-----------------------------------------------------------------------------
(* Every subscription lives as promised                                    *)

LEMMA LifeInit == Init => Life!Init
BY DEF Init, Life!Init, NoOffer

\* What is published, to open and to stop is so in both.
LEMMA SameView ==
  ASSUME TypeOK
  PROVE  /\ Life!Published = Published
         /\ Life!Opening = Added /\ Life!Stopping = Stopped
         /\ \A s : Life!In(s) = {t \in Tracks : out[t] = s}
BY DEF Life!Published, Published, Life!Opening, Life!Stopping, Life!In, Added, Stopped, InState

LEMMA LifeTurn ==
  ASSUME TypeOK, Subscriptions, PollRooms
  PROVE  \E offering \in BOOLEAN, S, W \in SUBSET Tracks : Life!Turn(offering, S, W)
<1>1. PICK S \in SUBSET {t \in Tracks : track[t] = "unborn"} :
        /\ track' = [t \in Tracks |-> IF t \in S THEN "published" ELSE track[t]]
        /\ out' = Propagated(Negotiated, S)
  BY DEF PollRooms
<1> DEFINE W == IF joined THEN S ELSE {}
<1>2. /\ (pending' # NoOffer) = (pending # NoOffer \/ Offering)
      /\ joined' = joined
  <2>1. CASE Offering
    <3>1. pending' # NoOffer
      BY <2>1 DEF Offering, PollRooms, NoOffer
    <3> QED BY <2>1, <3>1 DEF PollRooms
  <2>2. CASE ~Offering
    BY <2>2 DEF PollRooms
  <2> QED BY <2>1, <2>2
<1>3. W \subseteq {t \in Tracks : out[t] = "none"} \cap S
  BY DEF Subscriptions, UnbornUnknown
<1>4. out' = [t \in Tracks |-> IF t \in W THEN "ToOpen"
                               ELSE IF Offering THEN Life!Taken[t] ELSE out[t]]
  <2>1. Negotiated = [t \in Tracks |-> IF Offering THEN Life!Taken[t] ELSE out[t]]
    BY SameView DEF Negotiated, Life!Taken, TypeOK
  <2> QED BY <1>1, <2>1 DEF Propagated
<1>5. Offering => joined /\ pending = NoOffer /\ Added \cup Stopped # {}
  BY DEF Offering
<1>6. Offering \in BOOLEAN
  BY DEF Offering
<1>7. Life!Turn(Offering, S, W)
  <2> HIDE DEF W
  <2>1. W # {} => joined
    BY DEF W
  <2> QED BY <1>1, <1>2, <1>3, <1>4, <1>5, <2>1, SameView DEF Life!Turn
<1> QED BY <1>1, <1>6, <1>7

LEMMA LifeStep == Attributed /\ [Next]_vars => [Life!Next]_(Life!vars)
<1> SUFFICES ASSUME TypeOK, Subscriptions, [Next]_vars
             PROVE  Life!Next \/ UNCHANGED Life!vars
  BY DEF Attributed
<1>1. CASE Join
  <2>1. out' = [t \in Tracks |-> IF t \in Published THEN "ToOpen" ELSE "none"]
    BY <1>1 DEF Join, Subscribe, Subscriptions, SubscribedToAll
  <2> QED BY <1>1, <2>1, SameView DEF Join, Life!Next, Life!Join
<1>2. CASE PublisherGone
  <2>1. PICK S \in SUBSET Published :
          track' = [t \in Tracks |-> IF t \in S THEN "gone" ELSE track[t]]
    BY <1>2 DEF PublisherGone
  <2>2. S \in SUBSET Tracks /\ S \subseteq {t \in Tracks : track[t] # "gone"}
    BY DEF Published
  <2>3. Life!Depart(S)
    BY <1>2, <2>1, <2>2 DEF PublisherGone, Life!Depart
  <2> QED BY <2>2, <2>3 DEF Life!Next
<1>3. CASE PollRooms
  BY <1>3, LifeTurn DEF Life!Next
<1>4. CASE AnswerRejected
  <2>1. pending # NoOffer /\ pending' = NoOffer
    BY <1>4 DEF AnswerRejected, Unusable, PendingTaken
  <2> QED BY <1>4, <2>1 DEF AnswerRejected, Life!Next, Life!Reject
<1>5. CASE AnswerAccepted
  <2>1. pending # NoOffer /\ pending' = NoOffer
    BY <1>5 DEF AnswerAccepted, Unusable, PendingTaken
  <2> QED BY <1>5, <2>1 DEF AnswerAccepted, Settled, Life!Next, Life!Accept
<1>6. CASE AnswerIgnored \/ ReadOffer \/ Resend \/ UNCHANGED vars
  BY <1>6 DEF AnswerIgnored, ReadOffer, Resend, vars, server, Life!vars
<1> QED BY <1>1, <1>2, <1>3, <1>4, <1>5, <1>6 DEF Next, HandleAnswer

\* Whatever the client answers, every subscription has the life it is promised.
THEOREM SubscriptionsLive == Spec => ImplementsSubscription
<1>1. Init => Life!Init
  BY LifeInit
<1>2. Attributed /\ [Next]_vars => [Life!Next]_(Life!vars)
  BY LifeStep
<1> QED BY <1>1, <1>2, AttributedInvariant, PTL DEF Spec, ImplementsSubscription, Life!Spec

-----------------------------------------------------------------------------
(* What holds while the client keeps to its part                           *)

\* One exchange at a time: an offer is out exactly as long as it, or the answer
\* to it, is on its way.
Exchange ==
  \/ pending = NoOffer /\ offers = <<>> /\ answers = <<>>
  \/ /\ pending # NoOffer /\ answers = <<>>
     /\ \E o : offers = <<o>> /\ o.lines = lines \cup pending.added
  \/ /\ pending # NoOffer /\ offers = <<>>
     /\ \E a : /\ answers = <<a>> /\ a.kind = "good"
              /\ a.lines = lines \cup pending.added

\* The offer that is out is all that is being negotiated, and the transport has
\* an open m-line for exactly the entries that are open or being stopped.
LinesAgree ==
  /\ InState(out, {"Negotiating"}) = pending.added
  /\ InState(out, {"NegotiatingStop"}) = pending.stopped
  /\ open = InState(out, {"Open", "NegotiatingStop"})

Settles == Attributed /\ (trusted => Exchange /\ LinesAgree)

LEMMA SettlesInit == Init => Settles
<1> SUFFICES ASSUME Init PROVE Settles
  OBVIOUS
<1>1. Attributed
  <2>1. AttributionKept
    BY DEF Init, AttributionKept, InState, NewestMap
  <2> QED BY <2>1, TypeInit, SubscriptionsInit DEF Attributed
<1>2. Exchange
  BY DEF Init, Exchange
<1>3. LinesAgree
  BY DEF Init, LinesAgree, InState, NoOffer
<1> QED BY <1>1, <1>2, <1>3 DEF Settles

LEMMA SettlesStep ==
  ASSUME Settles, [Next]_vars
  PROVE  Settles'
<1>0. Attributed'
  BY TypeStep, SubscriptionsStep, AttributionStep DEF Settles, Attributed
<1>1. CASE ~trusted'
  BY <1>0, <1>1 DEF Settles
<1> SUFFICES ASSUME trusted' PROVE Exchange' /\ LinesAgree'
  BY <1>0, <1>1 DEF Settles
<1>9. trusted
  BY DEF Next, Join, PublisherGone, PollRooms, HandleAnswer, AnswerIgnored, AnswerRejected,
     AnswerAccepted, ReadOffer, Resend, vars, client
<1>10. Attributed /\ Exchange /\ LinesAgree
  BY <1>9 DEF Settles
<1> USE <1>10
<1>2. CASE Join
  <2>1. /\ pending' = pending /\ offers' = offers /\ answers' = answers
        /\ lines' = lines /\ open' = open /\ pending = NoOffer
        /\ \A t \in Tracks : out[t] = "none" /\ out'[t] \in {"none", "ToOpen"}
    BY <1>2 DEF Join, Subscribe, Attributed, Subscriptions, SubscribedToAll, NoOfferBeforeJoin
  <2>2. Exchange'
    BY <2>1 DEF Exchange, NoOffer
  <2>3. LinesAgree'
    BY <2>1 DEF LinesAgree, InState
  <2> QED BY <2>2, <2>3
<1>3. CASE PublisherGone \/ UNCHANGED vars
  <2>1. /\ pending' = pending /\ offers' = offers /\ answers' = answers
        /\ lines' = lines /\ open' = open /\ out' = out
    BY <1>3 DEF PublisherGone, vars, server
  <2> QED BY <2>1 DEF Exchange, LinesAgree, InState, NoOffer
<1>4. CASE PollRooms
  <2>1. /\ lines' = lines /\ open' = open /\ answers' = answers
        /\ \A t \in Tracks :
              \/ out[t] = "none" /\ out'[t] \in {"none", "ToOpen"}
              \/ out'[t] = Negotiated[t]
    <3>1. PollRooms => lines' = lines /\ open' = open /\ answers' = answers
      BY DEF PollRooms
    <3>2. UnbornUnknown /\ SubscribedToAll /\ TypeOK
      BY DEF Attributed, Subscriptions
    <3> QED BY <1>4, <3>1, <3>2, PolledEntry DEF UnbornUnknown
  <2>2. CASE Offering
    <3>1. /\ pending = NoOffer /\ Added \cup Stopped # {}
          /\ pending' = [added |-> Added, stopped |-> Stopped]
          /\ offers' = Append(offers, [lines |-> lines \cup Added, map |-> TrackMap(Negotiated)])
      BY <1>4, <2>2 DEF PollRooms, Offering
    <3>2. Exchange'
      <4>1. offers = <<>> /\ answers = <<>>
        BY <3>1 DEF Exchange
      <4>2. pending' # NoOffer'
        BY <3>1 DEF NoOffer
      <4>3. /\ offers' = <<[lines |-> lines \cup Added, map |-> TrackMap(Negotiated)]>>
            /\ answers' = <<>>
        BY <2>1, <3>1, <4>1
      <4> QED BY <2>1, <3>1, <4>2, <4>3 DEF Exchange
    <3>3. \A t \in Tracks :
            Negotiated[t] = IF t \in Added THEN "Negotiating"
                            ELSE IF t \in Stopped THEN "NegotiatingStop" ELSE out[t]
      BY <2>2 DEF Negotiated
    <3>4. \A t \in Tracks : out[t] \notin {"Negotiating", "NegotiatingStop"}
      BY <3>1 DEF LinesAgree, InState, NoOffer
    <3>5. LinesAgree'
      <4>1. InState(out, {"Negotiating"})' = Added
        BY <2>1, <3>3, <3>4 DEF InState, Added
      <4>2. InState(out, {"NegotiatingStop"})' = Stopped
        BY <2>1, <3>3, <3>4 DEF InState, Added, Stopped
      <4>3. InState(out, {"Open", "NegotiatingStop"})' = open
        BY <2>1, <3>3, <3>4 DEF LinesAgree, InState, Added, Stopped
      <4> QED BY <2>1, <3>1, <4>1, <4>2, <4>3 DEF LinesAgree
    <3> QED BY <3>2, <3>5
  <2>3. CASE ~Offering
    <3>1. pending' = pending /\ offers' = offers /\ Negotiated = out
      BY <1>4, <2>3 DEF PollRooms, Negotiated
    <3> QED BY <2>1, <3>1 DEF Exchange, LinesAgree, InState, NoOffer
  <2> QED BY <2>2, <2>3
<1>5. CASE AnswerIgnored \/ AnswerRejected
  <2>1. PICK a : /\ answers = <<a>> /\ a.kind = "good" /\ pending # NoOffer
                 /\ a.lines = lines \cup pending.added
    BY <1>5 DEF Exchange, AnswerIgnored, AnswerRejected
  <2>2. Fits(Head(answers)) /\ ~Unusable(Head(answers))
    BY <2>1 DEF Fits, Unusable
  <2> QED BY <1>5, <2>2 DEF AnswerIgnored, AnswerRejected
<1>6. CASE AnswerAccepted
  <2>1. /\ pending' = NoOffer /\ answers' = Tail(answers) /\ offers' = offers
        /\ open' = (open \cup pending.added) \ pending.stopped /\ out' = Settled
    BY <1>6 DEF AnswerAccepted, PendingTaken
  <2>2. Exchange'
    <3>1. offers = <<>> /\ answers' = <<>>
      BY <1>6, <2>1 DEF Exchange, AnswerAccepted
    <3> QED BY <2>1, <3>1 DEF Exchange, NoOffer
  <2>3. LinesAgree'
    BY <2>1 DEF LinesAgree, InState, Settled, NoOffer
  <2> QED BY <2>2, <2>3
<1>7. CASE ReadOffer
  <2>1. PICK o : /\ offers = <<o>> /\ answers = <<>> /\ pending # NoOffer
                 /\ o.lines = lines \cup pending.added
    BY <1>7 DEF Exchange, ReadOffer
  <2>2. /\ offers' = <<>> /\ pending' = pending /\ lines' = lines
        /\ out' = out /\ open' = open
        /\ answers' = <<[kind |-> "good", lines |-> o.lines]>>
    <3>1. Head(offers) = o /\ Tail(offers) = <<>>
      BY <2>1
    <3>2. last' = [kind |-> "good", lines |-> o.lines]
      <4>1. PICK kind \in Answers : last' = [kind |-> kind, lines |-> o.lines]
        BY <1>7, <3>1 DEF ReadOffer
      <4>2. last'.kind = "good"
        BY <1>7 DEF ReadOffer
      <4> QED BY <4>1, <4>2
    <3>3. answers' = Append(<<>>, last')
      BY <1>7, <2>1 DEF ReadOffer
    <3>4. answers' = <<[kind |-> "good", lines |-> o.lines]>>
      BY <3>2, <3>3
    <3>5. /\ offers' = <<>> /\ pending' = pending /\ lines' = lines
          /\ out' = out /\ open' = open
      BY <1>7, <3>1 DEF ReadOffer, server
    <3> QED BY <3>4, <3>5
  <2>3. Exchange'
    BY <2>1, <2>2 DEF Exchange, NoOffer
  <2> QED BY <2>2, <2>3 DEF LinesAgree, InState
<1>8. CASE Resend
  BY <1>8 DEF Resend
<1> QED BY <1>2, <1>3, <1>4, <1>5, <1>6, <1>7, <1>8 DEF Next, HandleAnswer

LEMMA SettlesInvariant == Spec => []Settles
<1>1. Settles /\ [Next]_vars => Settles'
  BY SettlesStep
<1> QED BY <1>1, SettlesInit, PTL DEF Spec

\* As long as the client keeps to its part, an entry that says Open has an m-line
\* that carries media.
THEOREM OpenMeansEstablished == Spec => []OpenIsEstablished
<1>1. Settles => OpenIsEstablished
  BY DEF Settles, LinesAgree, OpenIsEstablished, NegotiatedIsLive, InState
<1> QED BY <1>1, SettlesInvariant, PTL

\* As long as the client keeps to its part, every open m-line has the entry that
\* will stop it once its publisher is gone.
THEOREM EveryLineHasAnEntry == Spec => []NoOrphanLine
<1>1. Settles => NoOrphanLine
  BY DEF Settles, LinesAgree, NoOrphanLine, InState
<1> QED BY <1>1, SettlesInvariant, PTL

-----------------------------------------------------------------------------
(* Nothing waits for what is not on its way                                *)

\* Whatever the client answers: an offer that is out is still to be read, or an
\* answer that will settle it, its own or one to an earlier offer, is queued.
\* Only a last answer that does not parse leaves it with nothing to wait for.
Readable(q) == \E i \in 1 .. Len(q) : q[i].kind # "garbled"
OfferUnderWay ==
  pending # NoOffer => offers # <<>> \/ Readable(answers) \/ last.kind = "garbled"

LEMMA ReadableTail ==
  ASSUME NEW q \in Seq(Answer), q # <<>>, Readable(q), Head(q).kind = "garbled"
  PROVE  Readable(Tail(q))
<1>1. /\ Len(q) \in Nat /\ Head(q) = q[1] /\ Len(Tail(q)) = Len(q) - 1
      /\ \A i \in 1 .. Len(Tail(q)) : Tail(q)[i] = q[i + 1]
  BY HeadTailProperties, EmptySeq
<1>2. PICK i \in 1 .. Len(q) : q[i].kind # "garbled"
  BY DEF Readable
<1>3. i - 1 \in 1 .. Len(Tail(q)) /\ (i - 1) + 1 = i
  BY <1>1, <1>2
<1>4. Tail(q)[i - 1] = q[(i - 1) + 1]
  BY <1>1, <1>3
<1>5. Tail(q)[i - 1].kind # "garbled"
  BY <1>2, <1>3, <1>4
<1> QED BY <1>3, <1>5 DEF Readable

LEMMA ReadableAppend ==
  ASSUME NEW q \in Seq(Answer), NEW a \in Answer
  PROVE  /\ Readable(q) => Readable(Append(q, a))
         /\ a.kind # "garbled" => Readable(Append(q, a))
<1>1. /\ Len(q) \in Nat /\ Len(Append(q, a)) = Len(q) + 1
      /\ \A i \in 1 .. Len(q) : Append(q, a)[i] = q[i]
      /\ Append(q, a)[Len(q) + 1] = a
  BY AppendProperties
<1>2. Len(q) + 1 \in 1 .. Len(Append(q, a)) /\ 1 .. Len(q) \subseteq 1 .. Len(Append(q, a))
  BY <1>1
<1> QED BY <1>1, <1>2 DEF Readable

LEMMA UnderWayStep == TypeOK /\ OfferUnderWay /\ [Next]_vars => OfferUnderWay'
<1> SUFFICES ASSUME TypeOK, OfferUnderWay, [Next]_vars, pending' # NoOffer
             PROVE  offers' # <<>> \/ Readable(answers') \/ last'.kind = "garbled"
  BY DEF OfferUnderWay
<1>0. answers \in Seq(Answer) /\ offers \in Seq(Offer)
  BY DEF TypeOK
<1>1. CASE UNCHANGED <<pending, offers, answers, last>>
  BY <1>1 DEF OfferUnderWay
<1>2. CASE Join \/ PublisherGone \/ UNCHANGED vars
  <2>1. UNCHANGED <<pending, offers, answers, last>>
    BY <1>2 DEF Join, PublisherGone, vars, server, client
  <2> QED BY <1>1, <2>1
<1>3. CASE PollRooms
  <2>1. CASE Offering
    <3>1. PICK o : offers' = Append(offers, o)
      BY <1>3, <2>1 DEF PollRooms
    <3> QED BY <1>0, <3>1
  <2>2. CASE ~Offering
    BY <1>1, <1>3, <2>2 DEF PollRooms, client
  <2> QED BY <2>1, <2>2
<1>4. CASE AnswerIgnored
  <2>1. /\ answers # <<>> /\ answers' = Tail(answers)
        /\ UNCHANGED <<pending, offers, last>> /\ Head(answers).kind = "garbled"
    BY <1>4 DEF AnswerIgnored, Unusable, server, client
  <2> QED BY <1>0, <2>1, ReadableTail DEF OfferUnderWay
<1>5. CASE AnswerRejected \/ AnswerAccepted
  BY <1>5 DEF AnswerRejected, AnswerAccepted, PendingTaken
<1>6. CASE ReadOffer
  <2>1. Head(offers) \in Offer
    BY <1>0, <1>6 DEF ReadOffer
  <2>2. Head(offers).lines \in SUBSET Tracks
    BY <2>1 DEF Offer
  <2>3. answers' = Append(answers, last') /\ last' \in Answer
    BY <1>6, <2>2 DEF ReadOffer, Answer
  <2> QED BY <1>0, <2>3, ReadableAppend
<1>7. CASE Resend
  <2>1. /\ answers' = Append(answers, last) /\ last \in Answer
        /\ UNCHANGED <<pending, offers, last>>
    BY <1>7 DEF Resend, TypeOK, server
  <2> QED BY <1>0, <2>1, ReadableAppend DEF OfferUnderWay
<1> QED BY <1>2, <1>3, <1>4, <1>5, <1>6, <1>7 DEF Next, HandleAnswer

\* The safety half of OfferSettles: an offer never waits in vain, but for an
\* answer that does not parse.
THEOREM OffersAreUnderWay == Spec => []OfferUnderWay
<1>1. Init => OfferUnderWay
  BY DEF Init, OfferUnderWay
<1>2. TypeOK /\ OfferUnderWay /\ [Next]_vars => OfferUnderWay'
  BY UnderWayStep
<1> QED BY <1>1, <1>2, NegotiationTyped, PTL DEF Spec

\* While the client keeps to its part, every published track is forwarded, in the
\* offer that is out, or in the next one; every open m-line has a live publisher,
\* or is stopped by the offer that is out, or by the next one; and the offer that
\* is out, or the one answer to it, is on its way, an answer that str0m will take.
TracksUnderWay ==
  trusted =>
    /\ joined => Published \subseteq Forwarded \cup pending.added \cup Added
    /\ open \subseteq Published \cup pending.stopped \cup Stopped
    /\ pending # NoOffer => Len(offers) + Len(answers) = 1
    /\ answers # <<>> => Fits(Head(answers))

\* A turn of the loop with no offer out offers all of the next offer's tracks; an
\* answer brings all that was offered to its end.
TracksAdvance ==
  trusted =>
    /\ PollRooms /\ pending = NoOffer
         => Added \subseteq pending'.added /\ Stopped \subseteq pending'.stopped
    /\ HandleAnswer
         => pending.added \cap Published' \subseteq Forwarded' /\ pending.stopped \cap open' = {}

LEMMA UnderWay == Settles => TracksUnderWay
<1> SUFFICES ASSUME Settles, trusted
             PROVE  /\ joined => Published \subseteq Forwarded \cup pending.added \cup Added
                    /\ open \subseteq Published \cup pending.stopped \cup Stopped
                    /\ pending # NoOffer => Len(offers) + Len(answers) = 1
                    /\ answers # <<>> => Fits(Head(answers))
  BY DEF TracksUnderWay
<1>1. Exchange /\ LinesAgree /\ TypeOK /\ SubscribedToAll /\ StopsAreDead
  BY DEF Settles, Attributed, Subscriptions
<1>2. ASSUME joined, NEW t \in Published PROVE t \in Forwarded \cup pending.added \cup Added
  <2>1. t \in Tracks /\ out[t] \in TrackOutState /\ out[t] # "none" /\ out[t] # "NegotiatingStop"
    BY <1>1, <1>2 DEF TypeOK, SubscribedToAll, StopsAreDead, InState, Published
  <2>2. CASE out[t] = "ToOpen"
    BY <2>1, <2>2 DEF Added, InState
  <2>3. CASE out[t] = "Negotiating"
    BY <1>1, <2>1, <2>3 DEF LinesAgree, InState
  <2>4. CASE out[t] = "Open"
    BY <1>1, <2>1, <2>4 DEF LinesAgree, InState, Forwarded
  <2> QED BY <2>1, <2>2, <2>3, <2>4 DEF TrackOutState
<1>3. open \subseteq Published \cup pending.stopped \cup Stopped
  BY <1>1 DEF LinesAgree, InState, Stopped
<1>4. pending # NoOffer => Len(offers) + Len(answers) = 1
  <2>1. \A x : Len(<<x>>) = 1
    OBVIOUS
  <2>2. CASE answers = <<>> /\ \E o : offers = <<o>>
    <3>1. Len(offers) = 1 /\ Len(answers) = 0
      BY <2>1, <2>2
    <3> QED BY <3>1
  <2>3. CASE offers = <<>> /\ \E a : answers = <<a>>
    <3>1. Len(offers) = 0 /\ Len(answers) = 1
      BY <2>1, <2>3
    <3> QED BY <3>1
  <2> QED BY <1>1, <2>2, <2>3 DEF Exchange
<1>5. answers # <<>> => Fits(Head(answers))
  BY <1>1 DEF Exchange, Fits
<1> QED BY <1>2, <1>3, <1>4, <1>5

LEMMA Advancing == Settles /\ [Next]_vars => TracksAdvance
<1> SUFFICES ASSUME Settles, trusted
             PROVE  /\ PollRooms /\ pending = NoOffer
                         => Added \subseteq pending'.added /\ Stopped \subseteq pending'.stopped
                    /\ HandleAnswer
                         => /\ pending.added \cap Published' \subseteq Forwarded'
                            /\ pending.stopped \cap open' = {}
  BY DEF TracksAdvance
<1>1. Exchange /\ LinesAgree /\ TypeOK /\ SubscribedToAll /\ TracksUnderWay
  BY UnderWay DEF Settles, Attributed, Subscriptions
<1>2. ASSUME PollRooms, pending = NoOffer
      PROVE  Added \subseteq pending'.added /\ Stopped \subseteq pending'.stopped
  <2>1. CASE Offering
    BY <1>2, <2>1 DEF PollRooms
  <2>2. CASE ~Offering
    <3>1. Added = {} /\ Stopped = {}
      BY <1>1, <1>2, <2>2 DEF Offering, SubscribedToAll, Added, Stopped, InState, TypeOK
    <3> QED BY <3>1
  <2> QED BY <2>1, <2>2
<1>3. ASSUME HandleAnswer
      PROVE  /\ pending.added \cap Published' \subseteq Forwarded'
             /\ pending.stopped \cap open' = {}
  <2>1. answers # <<>> /\ Fits(Head(answers)) /\ pending # NoOffer
    BY <1>1, <1>3 DEF HandleAnswer, AnswerIgnored, AnswerRejected, AnswerAccepted, Exchange,
       TracksUnderWay
  <2>2. AnswerAccepted
    BY <1>3, <2>1 DEF HandleAnswer, AnswerIgnored, AnswerRejected, Unusable, Fits
  <2>3. /\ out' = Settled /\ open' = (open \cup pending.added) \ pending.stopped
        /\ track' = track
    BY <2>2 DEF AnswerAccepted
  <2>4. \A t \in pending.added : t \in Tracks /\ out'[t] = "Open" /\ t \in open'
    BY <1>1, <2>3 DEF LinesAgree, InState, Settled
  <2> QED BY <2>3, <2>4 DEF Forwarded, InState
<1> QED BY <1>2, <1>3

\* The safety halves of PublishersAreHeard and DeadLinesStop: once the exchange
\* that is under way is over, one turn of the loop and one more exchange bring
\* every track and every m-line to its end.
THEOREM TracksAreUnderWay == Spec => []TracksUnderWay /\ [][TracksAdvance]_vars
<1>1. Settles /\ [Next]_vars => [TracksAdvance]_vars
  BY Advancing
<1> QED BY <1>1, UnderWay, SettlesInvariant, PTL DEF Spec

-----------------------------------------------------------------------------
(* How far the finding about a rejected answer goes                        *)

\* An m-line belongs to an entry that has got past its offer, or to a
\* publisher that is gone for good.
LinesInUse ==
  /\ ~joined => open = {}
  /\ \A t \in open : /\ track[t] # "unborn"
                     /\ out[t] \notin {"ToOpen", "Negotiating"}
                     /\ out[t] = "none" => track[t] = "gone"
Damaged == Attributed /\ LinesInUse

\* Nothing repairs the damage: as long as its publisher stays, a track that lost its
\* offer has no media, and an orphan stays open.
DamageStays ==
  /\ (Leftover \cup Silent) \cap Published' \subseteq Leftover' \cup Silent'
  /\ (Leftover \cup Silent) \cap (Forwarded \cup Forwarded') = {}
  /\ Orphans \subseteq Orphans'

LEMMA DamagedInit == Init => Damaged
<1>1. Init => AttributionKept
  BY DEF Init, AttributionKept, InState, NewestMap
<1>2. Init => LinesInUse
  BY DEF Init, LinesInUse
<1> QED BY <1>1, <1>2, TypeInit, SubscriptionsInit DEF Damaged, Attributed

\* What every step does to one entry, its m-line and its place in the offer.
EntryStays(t) ==
  /\ out'[t] = out[t]
  /\ (t \in open' <=> t \in open)
  /\ (t \in pending'.added <=> t \in pending.added)
  /\ (t \in pending'.stopped <=> t \in pending.stopped)
EntryOffered(t) ==
  /\ pending = NoOffer
  /\ (t \in open' <=> t \in open)
  /\ \/ out[t] = "ToOpen" /\ out'[t] = "Negotiating" /\ t \in pending'.added
     \/ out[t] = "Open" /\ out'[t] = "NegotiatingStop" /\ t \in pending'.stopped
        /\ track[t] = "gone"
     \/ out'[t] = out[t]
     \/ out[t] = "none" /\ out'[t] = "ToOpen" /\ track[t] = "unborn"
EntryAppears(t) ==
  /\ (t \in open' <=> t \in open) /\ pending' = pending
  /\ out[t] = "none" /\ out'[t] = "ToOpen"
  /\ (track[t] = "unborn" \/ ~joined)
EntrySettled(t) ==
  /\ (t \in open' <=> (t \in open \/ t \in pending.added) /\ t \notin pending.stopped)
  /\ pending' = NoOffer
  /\ out'[t] = CASE out[t] = "Negotiating" -> "Open"
                 [] out[t] = "NegotiatingStop" -> "none"
                 [] OTHER -> out[t]

LEMMA EntrySteps ==
  ASSUME Attributed, [Next]_vars, NEW t \in Tracks
  PROVE  \/ EntryStays(t)
         \/ PollRooms /\ EntryOffered(t)
         \/ EntryAppears(t)
         \/ AnswerAccepted /\ EntrySettled(t)
         \/ /\ AnswerRejected /\ pending' = NoOffer
            /\ out' = out /\ open' = open
<1>0. TypeOK /\ UnbornUnknown /\ SubscribedToAll /\ NoOfferBeforeJoin
  BY DEF Attributed, Subscriptions
<1>1. CASE Join
  <2>1. out[t] = "none" /\ ~joined /\ open' = open /\ pending' = pending
    BY <1>0, <1>1 DEF Join, SubscribedToAll
  <2>2. out'[t] \in {"none", "ToOpen"}
    BY <1>1, <2>1 DEF Join, Subscribe
  <2> QED BY <2>1, <2>2 DEF EntryStays, EntryAppears
<1>2. CASE PublisherGone \/ AnswerIgnored \/ ReadOffer \/ Resend \/ UNCHANGED vars
  BY <1>2 DEF PublisherGone, AnswerIgnored, ReadOffer, Resend, vars, server, EntryStays
<1>3. CASE PollRooms
  <2>1. open' = open
    BY <1>3 DEF PollRooms
  <2>2. \/ track[t] = "unborn" /\ out'[t] = (IF joined THEN "ToOpen" ELSE out[t])
        \/ out'[t] = Negotiated[t]
    BY <1>0, <1>3, PolledEntry
  <2>3. track[t] = "unborn" => out[t] = "none"
    BY <1>0 DEF UnbornUnknown
  <2>4. CASE Offering
    <3>1. pending = NoOffer /\ pending' = [added |-> Added, stopped |-> Stopped]
      BY <1>3, <2>4 DEF PollRooms, Offering
    <3>2. Negotiated[t] = IF t \in Added THEN "Negotiating"
                          ELSE IF t \in Stopped THEN "NegotiatingStop" ELSE out[t]
      BY <2>4 DEF Negotiated
    <3>3. t \in Added => out[t] = "ToOpen" /\ t \in pending'.added
      BY <3>1 DEF Added, InState
    <3>4. t \in Stopped => out[t] = "Open" /\ track[t] # "published" /\ t \in pending'.stopped
      BY <3>1 DEF Stopped, InState, Published
    <3>5. track[t] \in {"unborn", "published", "gone"}
      BY <1>0 DEF TypeOK
    <3>6. EntryOffered(t)
      BY <2>1, <2>2, <2>3, <3>1, <3>2, <3>3, <3>4, <3>5 DEF EntryOffered
    <3> QED BY <1>3, <3>6
  <2>5. CASE ~Offering
    <3>1. pending' = pending /\ Negotiated = out
      BY <1>3, <2>5 DEF PollRooms, Negotiated
    <3> QED BY <2>1, <2>2, <2>3, <3>1 DEF EntryStays, EntryAppears
  <2> QED BY <2>4, <2>5
<1>4. CASE AnswerRejected
  BY <1>4 DEF AnswerRejected, PendingTaken
<1>5. CASE AnswerAccepted
  <2>1. /\ open' = (open \cup pending.added) \ pending.stopped
        /\ pending' = NoOffer /\ out' = Settled
    BY <1>5 DEF AnswerAccepted, PendingTaken
  <2>2. EntrySettled(t)
    BY <2>1 DEF EntrySettled, Settled
  <2> QED BY <1>5, <2>2
<1> QED BY <1>1, <1>2, <1>3, <1>4, <1>5 DEF Next, HandleAnswer

\* A track goes from unborn to published to gone, and nobody who has joined is
\* outside again.
LEMMA TracksGoForward ==
  ASSUME Attributed, [Next]_vars
  PROVE  /\ \A t \in Tracks : /\ track[t] # "unborn" => track'[t] # "unborn"
                              /\ track[t] = "gone" => track'[t] = "gone"
         /\ joined => joined'
<1>0. TypeOK /\ UnbornUnknown /\ SubscribedToAll
  BY DEF Attributed, Subscriptions
<1>1. CASE PollRooms
  <2>1. joined' = joined
    BY <1>1 DEF PollRooms
  <2> QED BY <1>0, <1>1, <2>1, PolledEntry
<1>2. CASE PublisherGone
  BY <1>0, <1>2 DEF PublisherGone, TypeOK
<1>3. CASE Join \/ HandleAnswer \/ ReadOffer \/ Resend \/ UNCHANGED vars
  BY <1>3 DEF Join, HandleAnswer, AnswerIgnored, AnswerRejected, AnswerAccepted, ReadOffer,
     Resend, vars, server
<1> QED BY <1>1, <1>2, <1>3 DEF Next

LEMMA DamagedStep == Damaged /\ [Next]_vars => Damaged'
<1> SUFFICES ASSUME Damaged, [Next]_vars PROVE Damaged'
  OBVIOUS
<1>0. Attributed /\ Attributed' /\ LinesInUse
  BY TypeStep, SubscriptionsStep, AttributionStep DEF Damaged, Attributed
<1>1. /\ open' \subseteq Tracks /\ open \subseteq Tracks
      /\ pending.added \subseteq InState(out, {"Negotiating"})
      /\ pending.stopped \subseteq InState(out, {"NegotiatingStop"})
      /\ \A t \in Tracks : out[t] = "NegotiatingStop" => track[t] # "published"
      /\ \A t \in Tracks : track[t] = "unborn" => out[t] = "none"
      /\ \A t \in Tracks : track[t] \in {"unborn", "published", "gone"}
      /\ ~joined => pending = NoOffer
  BY <1>0 DEF Attributed, TypeOK, Subscriptions, PendingCovers, StopsAreDead, UnbornUnknown,
     NoOfferBeforeJoin, InState, Published
<1>2. ASSUME NEW t \in open'
      PROVE  /\ track'[t] # "unborn" /\ out'[t] \notin {"ToOpen", "Negotiating"}
             /\ out'[t] = "none" => track'[t] = "gone"
             /\ joined'
  <2>1. t \in Tracks
    BY <1>1, <1>2
  <2>2. /\ t \in open => /\ track[t] # "unborn" /\ out[t] \notin {"ToOpen", "Negotiating"}
                         /\ out[t] = "none" => track[t] = "gone"
                         /\ joined
    BY <1>0 DEF LinesInUse
  <2>3. /\ track[t] # "unborn" => track'[t] # "unborn"
        /\ track[t] = "gone" => track'[t] = "gone"
        /\ joined => joined'
    BY <1>0, <2>1, TracksGoForward
  <2>4. CASE EntryStays(t)
    BY <1>2, <2>2, <2>3, <2>4 DEF EntryStays
  <2>5. CASE EntryOffered(t)
    BY <1>2, <2>2, <2>3, <2>5 DEF EntryOffered
  <2>6. CASE EntryAppears(t)
    BY <1>2, <2>2, <2>3, <2>6 DEF EntryAppears
  <2>7. CASE EntrySettled(t)
    <3>1. t \in pending.added => out[t] = "Negotiating" /\ joined
      BY <1>1 DEF InState, NoOffer
    <3>2. out[t] = "NegotiatingStop" => track[t] = "gone"
      BY <1>1, <2>1
    <3>3. track[t] = "unborn" => out[t] = "none"
      BY <1>1, <2>1
    <3> QED BY <1>2, <2>2, <2>3, <2>7, <3>1, <3>2, <3>3 DEF EntrySettled
  <2>8. CASE out' = out /\ open' = open
    BY <1>2, <2>2, <2>3, <2>8
  <2> QED BY <1>0, <2>1, <2>4, <2>5, <2>6, <2>7, <2>8, EntrySteps
<1>3. LinesInUse'
  BY <1>2 DEF LinesInUse
<1> QED BY <1>0, <1>3 DEF Damaged

LEMMA DamageCauses == Damaged /\ [Next]_vars => DamageBegins
<1> SUFFICES ASSUME Damaged, [Next]_vars PROVE DamageBegins
  OBVIOUS
<1>0. Attributed /\ LinesInUse
  BY DEF Damaged
<1>1. /\ open \subseteq Tracks /\ open' \subseteq Tracks
      /\ pending.added \subseteq InState(out, {"Negotiating"})
      /\ pending.stopped \subseteq InState(out, {"NegotiatingStop"})
  BY <1>0, TypeStep DEF Attributed, TypeOK, Subscriptions, PendingCovers
<1>2. ASSUME NEW t \in Tracks
      PROVE  /\ t \in Leftover' \ Leftover => AnswerRejected /\ t \in pending.added
             /\ t \in LeftStops' \ LeftStops => AnswerRejected /\ t \in pending.stopped
             /\ t \in Silent' \ Silent => AnswerAccepted /\ t \in Leftover
             /\ t \in Orphans' \ Orphans => AnswerAccepted /\ t \in LeftStops
  <2> USE DEF Leftover, LeftStops, Silent, Orphans, InState
  <2>1. CASE EntryStays(t)
    BY <2>1 DEF EntryStays
  <2>2. CASE EntryOffered(t)
    BY <2>2 DEF EntryOffered, NoOffer
  <2>3. CASE EntryAppears(t)
    <3>1. t \notin open
      BY <1>0, <2>3 DEF LinesInUse, EntryAppears
    <3> QED BY <2>3, <3>1 DEF EntryAppears
  <2>4. CASE AnswerAccepted /\ EntrySettled(t)
    BY <1>1, <2>4 DEF EntrySettled, NoOffer
  <2>5. CASE AnswerRejected /\ pending' = NoOffer /\ out' = out /\ open' = open
    BY <2>5
  <2> QED BY <1>0, <2>1, <2>2, <2>3, <2>4, <2>5, EntrySteps
<1>3. /\ Leftover' \cup LeftStops' \cup Silent' \subseteq Tracks
      /\ Orphans' \subseteq Tracks
  BY <1>1 DEF Leftover, LeftStops, Silent, Orphans, InState
<1> QED BY <1>2, <1>3 DEF DamageBegins

LEMMA DamageLasts == Damaged /\ [Next]_vars => DamageStays
<1> SUFFICES ASSUME Damaged, [Next]_vars PROVE DamageStays
  OBVIOUS
<1>0. Attributed /\ Attributed' /\ LinesInUse /\ LinesInUse'
  BY DamagedStep DEF Damaged
<1>1. /\ open \subseteq Tracks
      /\ pending.added \subseteq InState(out, {"Negotiating"})
      /\ pending.stopped \subseteq InState(out, {"NegotiatingStop"})
  BY <1>0 DEF Attributed, TypeOK, Subscriptions, PendingCovers
<1>2. \A t \in Leftover \cup Silent : t \in Tracks /\ t \notin open
  BY <1>0 DEF Leftover, Silent, LinesInUse, InState
<1>3. ASSUME NEW t \in Leftover \cup Silent
      PROVE  /\ t \notin open'
             /\ t \in Published' => t \in Leftover' \cup Silent'
  <2>0. t \in Tracks /\ t \notin open
    BY <1>2
  <2>1. /\ out[t] = "Negotiating" /\ t \notin pending.added
        \/ out[t] = "Open"
    BY DEF Leftover, Silent, InState
  <2>2. /\ t \notin pending.added /\ t \notin open'
        /\ t \in Published' => out'[t] \in {"Negotiating", "Open"}
        /\ out'[t] = "Negotiating" => t \notin pending'.added
    <3>0. t \notin pending.added
      BY <1>1, <2>1 DEF InState
    <3>1. CASE EntryStays(t)
      BY <2>0, <2>1, <3>0, <3>1 DEF EntryStays
    <3>2. CASE PollRooms /\ EntryOffered(t)
      <4>1. track[t] = "gone" => track'[t] = "gone"
        BY <1>0, <2>0, TracksGoForward
      <4>2. out[t] = "Negotiating" => t \notin pending'.added
        <5>1. pending' = pending \/ pending'.added = Added
          BY <3>2 DEF PollRooms
        <5> QED BY <3>0, <5>1 DEF Added, InState
      <4> QED BY <2>0, <2>1, <3>0, <3>2, <4>1, <4>2 DEF EntryOffered, Published
    <3>3. CASE EntryAppears(t)
      BY <2>1, <3>3 DEF EntryAppears
    <3>4. CASE EntrySettled(t)
      BY <2>0, <2>1, <3>0, <3>4 DEF EntrySettled
    <3>5. CASE pending' = NoOffer /\ out' = out /\ open' = open
      BY <2>0, <2>1, <3>0, <3>5 DEF NoOffer
    <3> QED BY <1>0, <2>0, <3>1, <3>2, <3>3, <3>4, <3>5, EntrySteps
  <2> QED BY <2>0, <2>2 DEF Leftover, Silent, InState
<1>4. ASSUME NEW t \in Orphans
      PROVE  t \in Orphans'
  <2>1. t \in open /\ t \in Tracks /\ out[t] \notin {"Open", "NegotiatingStop"}
    BY <1>1 DEF Orphans, InState
  <2>2. track[t] = "gone" /\ out[t] \notin {"ToOpen", "Negotiating"} /\ joined
        /\ track[t] # "unborn"
    <3>1. out[t] = "none"
      BY <1>0, <2>1 DEF LinesInUse, Attributed, TypeOK, TrackOutState
    <3> QED BY <1>0, <2>1, <3>1 DEF LinesInUse
  <2>3. t \notin pending.stopped
    BY <1>1, <2>1 DEF InState
  <2>4. t \in open' /\ out'[t] = out[t]
    <3>1. CASE EntryStays(t)
      BY <2>1, <3>1 DEF EntryStays
    <3>2. CASE EntryOffered(t)
      BY <2>1, <2>2, <3>2 DEF EntryOffered
    <3>3. CASE EntryAppears(t)
      BY <2>1, <2>2, <3>3 DEF EntryAppears
    <3>4. CASE EntrySettled(t)
      BY <2>1, <2>2, <2>3, <3>4 DEF EntrySettled
    <3>5. CASE out' = out /\ open' = open
      BY <2>1, <3>5
    <3> QED BY <1>0, <2>1, <3>1, <3>2, <3>3, <3>4, <3>5, EntrySteps
  <2> QED BY <2>1, <2>4 DEF Orphans, InState
<1> QED BY <1>2, <1>3, <1>4 DEF DamageStays, Forwarded

\* Whatever the client answers, the damage that the finding about NegotiatedIsLive
\* shows has one cause: accept_answer takes the offer out of the peer before
\* str0m has looked at the answer, so a rejected answer leaves the entries of
\* that offer, and only those, waiting for nothing, and the next good answer
\* settles them on the strength of an offer they were not in.
THEOREM DamageHasOneCause == Spec => OnlyRejectionHarms
<1>1. Damaged /\ [Next]_vars => [DamageBegins]_vars
  BY DamageCauses
<1> QED BY <1>1, DamagedInit, DamagedStep, PTL DEF Spec, OnlyRejectionHarms

\* One rejected answer costs the subscriber every track the offer added for as
\* long as their publishers stay: no later exchange, however well answered, gives
\* them media.  And an m-line that has lost the entry that would stop it stays open.
THEOREM DamageIsForGood == Spec => [][DamageStays]_vars
<1>1. Damaged /\ [Next]_vars => [DamageStays]_vars
  BY DamageLasts
<1> QED BY <1>1, DamagedInit, DamagedStep, PTL DEF Spec
=============================================================================
