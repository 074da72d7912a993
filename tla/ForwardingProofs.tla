--------------------------- MODULE ForwardingProofs ---------------------------
(***************************************************************************)
(* Who hears whom, proved for any peers, m-lines and lengths of the queue. *)
(***************************************************************************)
EXTENDS ForwardingSubscription, TLAPS, FiniteSetTheorems, SequenceTheorems

-----------------------------------------------------------------------------
(* Finite sets in order                                                    *)

LEMMA TracksFinite == IsFiniteSet(Track) /\ IsFiniteSet(Published)
<1> DEFINE Pairs == PeerIds \X Mids
           f == [x \in Pairs |-> [origin |-> x[1], mid |-> x[2]]]
<1>1. IsFiniteSet(PeerIds)
  BY FS_Interval, ForwardingAssumption DEF PeerIds
<1>2. IsFiniteSet(Pairs)
  BY <1>1, FS_Product, ForwardingAssumption
<1>3. \A t \in Track : <<t.origin, t.mid>> \in Pairs /\ f[<<t.origin, t.mid>>] = t
  BY DEF Track
<1>4. f \in Surjection(Pairs, Track)
  <2>1. f \in [Pairs -> Track]
    BY DEF Track
  <2>2. \A t \in Track : \E x \in Pairs : f[x] = t
    BY <1>3
  <2> QED BY <2>1, <2>2 DEF Surjection
<1>5. IsFiniteSet(Track)
  BY <1>2, <1>4, FS_Surjection
<1> QED BY <1>5, FS_Subset DEF Published

\* SetToSeq names every element of a finite set once.
LEMMA SetInSeq ==
  ASSUME NEW S, IsFiniteSet(S)
  PROVE  /\ Cardinality(S) \in Nat
         /\ SetToSeq(S) \in [1 .. Cardinality(S) -> S]
         /\ \A i, j \in 1 .. Cardinality(S) : SetToSeq(S)[i] = SetToSeq(S)[j] => i = j
         /\ \A x \in S : \E i \in 1 .. Cardinality(S) : SetToSeq(S)[i] = x
<1> DEFINE n == Cardinality(S)
           q == SetToSeq(S)
<1>1. n \in Nat /\ ExistsBijection(1 .. n, S)
  BY FS_CardinalityType
<1>2. \E f \in [1 .. n -> S] : IsInjective(f)
  BY <1>1 DEF ExistsBijection, Bijection, Injection
<1>3. q \in [1 .. n -> S] /\ IsInjective(q)
  BY <1>2 DEF SetToSeq
<1>4. q \in Injection(1 .. n, S)
  BY <1>3 DEF Injection
<1>5. Cardinality(1 .. n) = n
  BY <1>1, FS_Interval
<1>6. q \in Surjection(1 .. n, S)
  BY <1>4, <1>5, FS_Injection
<1> QED BY <1>1, <1>3, <1>6 DEF IsInjective, Surjection

\* The places of a finite set of numbers are 1, 2, ..., each with one occupant.
LEMMA Places ==
  ASSUME NEW n \in Nat, NEW I \in SUBSET (1 .. n)
  PROVE  /\ Cardinality(I) \in Nat
         /\ \A i \in I : Rank(I, i) \in 1 .. Cardinality(I)
         /\ \A i, j \in I : Rank(I, i) = Rank(I, j) => i = j
         /\ \A k \in 1 .. Cardinality(I) : Nth(I, k) \in I /\ Rank(I, Nth(I, k)) = k
<1> DEFINE Upto(i) == {j \in I : j <= i}
           rank == [i \in I |-> Rank(I, i)]
<1>1. IsFiniteSet(I) /\ Cardinality(I) \in Nat
  <2>1. IsFiniteSet(1 .. n)
    BY FS_Interval
  <2>2. IsFiniteSet(I)
    BY <2>1, FS_Subset
  <2> QED BY <2>2, FS_CardinalityType
<1>2. ASSUME NEW i \in I
      PROVE  IsFiniteSet(Upto(i)) /\ Rank(I, i) \in 1 .. Cardinality(I)
  <2>1. IsFiniteSet(Upto(i)) /\ Cardinality(Upto(i)) <= Cardinality(I)
    BY <1>1, FS_Subset, Upto(i) \in SUBSET I
  <2>2. Cardinality(Upto(i)) \in Nat
    BY <2>1, FS_CardinalityType
  <2>3. Upto(i) # {}
    OBVIOUS
  <2>4. Cardinality(Upto(i)) # 0
    BY <2>1, <2>3, FS_EmptySet
  <2> QED BY <1>1, <2>1, <2>2, <2>4 DEF Rank
<1>3. ASSUME NEW i \in I, NEW j \in I, i < j
      PROVE  Rank(I, i) # Rank(I, j)
  <2>0. \A x \in I : x <= i => x <= j
    BY <1>3
  <2>1. Upto(i) \in SUBSET Upto(j)
    BY <2>0
  <2>2. j \in Upto(j)
    OBVIOUS
  <2>3. j \notin Upto(i)
    BY <1>3
  <2>4. Cardinality(Upto(i)) # Cardinality(Upto(j))
    BY <2>1, <2>2, <2>3, <1>2, FS_Subset
  <2> QED BY <2>4 DEF Rank
<1>4. \A i, j \in I : Rank(I, i) = Rank(I, j) => i = j
  BY <1>3
<1>5. rank \in Injection(I, 1 .. Cardinality(I))
  BY <1>2, <1>4 DEF Injection, IsInjective
<1>6. Cardinality(1 .. Cardinality(I)) = Cardinality(I) /\ IsFiniteSet(1 .. Cardinality(I))
  BY <1>1, FS_Interval
<1>7. rank \in Surjection(I, 1 .. Cardinality(I))
  BY <1>5, <1>6, FS_Injection
<1>8. ASSUME NEW k \in 1 .. Cardinality(I)
      PROVE  Nth(I, k) \in I /\ Rank(I, Nth(I, k)) = k
  <2>1. \E i \in I : Rank(I, i) = k
    BY <1>7 DEF Surjection
  <2> QED BY <2>1 DEF Nth
<1> QED BY <1>1, <1>2, <1>4, <1>8
-----------------------------------------------------------------------------
(* The invariant                                                           *)

\* What a phase leaves behind, and a peer; and an entry has an m-line once it has
\* been offered.
Tidy ==
  /\ phase # "poll" => unpolled = {}
  /\ phase \in {"drain", "reap"} => queue = <<>>
  /\ \A p \in PeerIds \ room :
       tracksIn[p] = {} /\ out[p] = <<>> /\ lines[p] = {} /\ map[p] = {}
  /\ \A p \in PeerIds : \A i \in DOMAIN out[p] :
       out[p][i].state = "ToOpen" <=> out[p][i].line = 0

Base == TypeOK /\ Tidy

\* What is queued comes from a track that is published, and nothing is announced
\* twice.
Queued ==
  \A i \in DOMAIN queue :
    /\ queue[i].track \in Published
    /\ queue[i].kind \in {"TrackOpen", "Media"} => queue[i].source = queue[i].track.origin
    /\ queue[i].kind = "TrackOpen" =>
         \A j \in DOMAIN queue :
           queue[j].kind = "TrackOpen" /\ queue[j].track = queue[i].track => j = i

\* A subscription is to a track of somebody else that is or was published, is
\* made once, and not before the announcement has been propagated.
Known(t) == t.origin < nextPeer /\ (t.origin \in room => t \in Published)
Subscriber(p) ==
  \A i \in DOMAIN out[p] :
    /\ out[p][i].track.origin # p
    /\ Known(out[p][i].track) /\ ~Announced(out[p][i].track)
    /\ \A j \in DOMAIN out[p] : out[p][j].track = out[p][i].track => j = i
Complete ==
  \A p \in room, t \in Published :
    t.origin # p /\ ~Announced(t) => \E i \in DOMAIN out[p] : out[p][i].track = t

Subscribers == Queued /\ (\A p \in PeerIds : Subscriber(p)) /\ Complete

\* An m-line has one entry, and was given its number when it was first offered.
Numbered(p) ==
  \A i \in DOMAIN out[p] :
    /\ out[p][i].line <= made[p]
    /\ \A j \in DOMAIN out[p] : out[p][j].line = out[p][i].line /\ out[p][i].line # 0 => j = i

\* Nothing of a publisher that is there is being stopped.
Stopped(p) ==
  \A i \in DOMAIN out[p] :
    out[p][i].state = "NegotiatingStop" => out[p][i].track.origin \notin room

\* The map the client has been sent and tracks_out agree on every m-line they
\* both have, and of publishers that are there both have all.
Mapped(p) ==
  /\ \A m \in map[p] :
       /\ m.line <= made[p] /\ Known(m.track)
       /\ \A i \in DOMAIN out[p] : out[p][i].line = m.line => out[p][i].track = m.track
       /\ m.track.origin \in room =>
            \E i \in DOMAIN out[p] : out[p][i].track = m.track /\ out[p][i].line = m.line
  /\ \A i \in DOMAIN out[p] :
       out[p][i].state \in {"Negotiating", "Open"} /\ out[p][i].track.origin \in room
         => [line |-> out[p][i].line, track |-> out[p][i].track] \in map[p]

\* A request in the queue names the entry it was translated by.
Translated ==
  \A k \in DOMAIN queue :
    queue[k].kind = "KeyframeRequest" =>
      /\ queue[k].line # 0
      /\ \E i \in DOMAIN out[queue[k].source] :
           /\ out[queue[k].source][i].line = queue[k].line
           /\ out[queue[k].source][i].track = queue[k].track

LinesAgree == (\A p \in PeerIds : Numbered(p) /\ Stopped(p) /\ Mapped(p)) /\ Translated

Inv == Base /\ Subscribers /\ LinesAgree

-----------------------------------------------------------------------------
(* What the actions do to entries and to the queue                         *)

LEMMA Domains ==
  ASSUME TypeOK, NEW p \in PeerIds
  PROVE  /\ out[p] \in Seq(TrackOut) /\ Len(out[p]) \in Nat /\ DOMAIN out[p] = 1 .. Len(out[p])
         /\ \A i \in DOMAIN out[p] : out[p][i] \in TrackOut
BY DEF TypeOK

LEMMA SettledEntry ==
  ASSUME NEW e \in TrackOut
  PROVE  /\ Settled(e) \in TrackOut
         /\ Settled(e).track = e.track /\ Settled(e).line = e.line
         /\ Settled(e).state = IF e.state = "Negotiating" THEN "Open" ELSE e.state
BY DEF Settled, TrackOut

\* What an accepted answer makes of the entries.
LEMMA Answered ==
  ASSUME TypeOK, NEW p \in PeerIds, Answer(p)
  PROVE  /\ out' \in [PeerIds -> Seq(TrackOut)]
         /\ \A q \in PeerIds \ {p} : out'[q] = out[q]
         /\ \E from \in [DOMAIN out'[p] -> Kept(p)] :
              /\ \A n \in DOMAIN out'[p] : out'[p][n] = Settled(out[p][from[n]])
              /\ \A m, n \in DOMAIN out'[p] : from[m] = from[n] => m = n
              /\ \A i \in Kept(p) : \E n \in DOMAIN out'[p] : from[n] = i
<1> DEFINE K == Kept(p)
           N == Cardinality(K)
           from == [n \in 1 .. N |-> Nth(K, n)]
           new == [n \in 1 .. N |-> Settled(out[p][Nth(K, n)])]
<1>1. Len(out[p]) \in Nat /\ K \in SUBSET (1 .. Len(out[p]))
  BY Domains DEF Kept, InState
<1>2. /\ N \in Nat
      /\ \A i \in K : Rank(K, i) \in 1 .. N
      /\ \A i, j \in K : Rank(K, i) = Rank(K, j) => i = j
      /\ \A k \in 1 .. N : Nth(K, k) \in K /\ Rank(K, Nth(K, k)) = k
  BY <1>1, Places
<1>3. \A i \in K : Nth(K, Rank(K, i)) = i
  BY <1>2
<1>4. \A n \in 1 .. N : Settled(out[p][Nth(K, n)]) \in TrackOut
  <2>1. \A i \in K : out[p][i] \in TrackOut
    BY <1>1, Domains
  <2> QED BY <1>2, <2>1, SettledEntry
<1>5. new \in Seq(TrackOut) /\ DOMAIN new = 1 .. N
  BY <1>2, <1>4, IsASeq
<1>6. out' = [out EXCEPT ![p] = new]
  BY DEF Answer
<1>7. out'[p] = new /\ out' \in [PeerIds -> Seq(TrackOut)] /\ \A q \in PeerIds \ {p} : out'[q] = out[q]
  BY <1>5, <1>6 DEF TypeOK
<1>8. from \in [1 .. N -> K]
  BY <1>2
<1>9. \A m, n \in 1 .. N : from[m] = from[n] => m = n
  BY <1>2
<1>10. \A i \in K : \E n \in 1 .. N : from[n] = i
  BY <1>2, <1>3
<1>11. /\ from \in [DOMAIN out'[p] -> K]
       /\ \A n \in DOMAIN out'[p] : out'[p][n] = Settled(out[p][from[n]])
       /\ \A m, n \in DOMAIN out'[p] : from[m] = from[n] => m = n
       /\ \A i \in K : \E n \in DOMAIN out'[p] : from[n] = i
  BY <1>5, <1>7, <1>8, <1>9, <1>10
<1> HIDE DEF from
<1> QED BY <1>7, <1>11

\* What an offer makes of them.
LEMMA Negotiated ==
  ASSUME TypeOK, NEW p \in PeerIds, Negotiate(p)
  PROVE  /\ out' \in [PeerIds -> Seq(TrackOut)]
         /\ \A q \in PeerIds \ {p} : out'[q] = out[q]
         /\ DOMAIN out'[p] = DOMAIN out[p]
         /\ \A i \in DOMAIN out[p] :
              /\ out'[p][i].track = out[p][i].track
              /\ i \in Opening(p) => /\ out'[p][i].state = "Negotiating"
                                     /\ out'[p][i].line = FreshLine(p, i)
              /\ i \notin Opening(p) => out'[p][i].line = out[p][i].line
              /\ i \in Stopping(p) => out'[p][i].state = "NegotiatingStop"
              /\ i \notin Opening(p) \cup Stopping(p) => out'[p][i].state = out[p][i].state
         /\ made'[p] = made[p] + Cardinality(Opening(p)) /\ Cardinality(Opening(p)) \in Nat
         /\ \A i \in Opening(p) : FreshLine(p, i) \in made[p] + 1 .. made[p] + Cardinality(Opening(p))
         /\ \A i, j \in Opening(p) : FreshLine(p, i) = FreshLine(p, j) => i = j
         /\ \A i \in Opening(p) : out[p][i].state = "ToOpen" /\ out[p][i].track \in Published
         /\ \A i \in Stopping(p) : out[p][i].state = "Open" /\ out[p][i].track \notin Published
<1> DEFINE I == Opening(p)
<1>1. /\ Len(out[p]) \in Nat /\ I \in SUBSET (1 .. Len(out[p]))
      /\ DOMAIN out[p] = 1 .. Len(out[p])
  BY Domains DEF Opening, InState
<1>2. /\ Cardinality(I) \in Nat
      /\ \A i \in I : Rank(I, i) \in 1 .. Cardinality(I)
      /\ \A i, j \in I : Rank(I, i) = Rank(I, j) => i = j
  BY <1>1, Places
<1>3. made[p] \in Nat /\ made'[p] = made[p] + Cardinality(I)
  BY DEF TypeOK, Negotiate
<1>4. \A i \in I : FreshLine(p, i) \in made[p] + 1 .. made[p] + Cardinality(I)
  BY <1>2, <1>3 DEF FreshLine
<1>5. \A i, j \in I : FreshLine(p, i) = FreshLine(p, j) => i = j
  <2> SUFFICES ASSUME NEW i \in I, NEW j \in I, FreshLine(p, i) = FreshLine(p, j)
               PROVE  i = j
    OBVIOUS
  <2>1. Rank(I, i) \in Nat /\ Rank(I, j) \in Nat
    BY <1>2
  <2>2. Rank(I, i) = Rank(I, j)
    BY <1>3, <2>1 DEF FreshLine
  <2> QED BY <1>2, <2>2
<1>6. \A i \in I : out[p][i].state = "ToOpen" /\ out[p][i].track \in Published
  BY DEF Opening, InState
<1>7. \A i \in Stopping(p) : out[p][i].state = "Open" /\ out[p][i].track \notin Published
  BY DEF Stopping, InState
<1>8. ASSUME NEW i \in DOMAIN out[p]
      PROVE  /\ Offered(p)[i] \in TrackOut
             /\ Offered(p)[i].track = out[p][i].track
             /\ i \in Opening(p) => /\ Offered(p)[i].state = "Negotiating"
                                    /\ Offered(p)[i].line = FreshLine(p, i)
             /\ i \notin Opening(p) => Offered(p)[i].line = out[p][i].line
             /\ i \in Stopping(p) => Offered(p)[i].state = "NegotiatingStop"
             /\ i \notin Opening(p) \cup Stopping(p) => Offered(p)[i].state = out[p][i].state
  <2>1. out[p][i] \in TrackOut
    BY Domains
  <2>2. CASE i \in I
    <3>1. Offered(p)[i] = [out[p][i] EXCEPT !.state = "Negotiating", !.line = FreshLine(p, i)]
      BY <2>2 DEF Offered
    <3>2. FreshLine(p, i) \in Nat /\ i \notin Stopping(p)
      BY <1>3, <1>4, <1>6, <1>7, <2>2
    <3> QED BY <2>1, <2>2, <3>1, <3>2 DEF TrackOut
  <2>3. CASE i \in Stopping(p) /\ i \notin I
    <3>1. Offered(p)[i] = [out[p][i] EXCEPT !.state = "NegotiatingStop"]
      BY <2>3 DEF Offered
    <3> QED BY <2>1, <2>3, <3>1 DEF TrackOut
  <2>4. CASE i \notin Stopping(p) /\ i \notin I
    BY <2>1, <2>4 DEF Offered
  <2> QED BY <2>2, <2>3, <2>4
<1>9. DOMAIN Offered(p) = DOMAIN out[p]
  BY DEF Offered
<1>10. Offered(p) \in Seq(TrackOut)
  <2>1. Offered(p) = [i \in 1 .. Len(out[p]) |-> Offered(p)[i]]
    BY <1>1 DEF Offered
  <2> QED BY <1>1, <1>8, <2>1, IsASeq
<1>11. out' = [out EXCEPT ![p] = Offered(p)]
  BY DEF Negotiate
<1>12. /\ out'[p] = Offered(p) /\ out' \in [PeerIds -> Seq(TrackOut)]
       /\ \A q \in PeerIds \ {p} : out'[q] = out[q]
  BY <1>10, <1>11 DEF TypeOK
<1> QED BY <1>2, <1>3, <1>4, <1>5, <1>6, <1>7, <1>8, <1>9, <1>12

\* What a newcomer subscribes to.
LEMMA Arrived ==
  ASSUME TypeOK
  PROVE  LET new == Subscriptions(Published)
         IN  /\ new \in Seq(TrackOut)
             /\ \A i \in DOMAIN new : /\ new[i].state = "ToOpen" /\ new[i].line = 0
                                      /\ new[i].track \in Published
             /\ \A i, j \in DOMAIN new : new[i].track = new[j].track => i = j
             /\ \A t \in Published : \E i \in DOMAIN new : new[i].track = t
<1> DEFINE N == Cardinality(Published)
           q == SetToSeq(Published)
           new == Subscriptions(Published)
<1>1. /\ N \in Nat /\ q \in [1 .. N -> Published]
      /\ \A i, j \in 1 .. N : q[i] = q[j] => i = j
      /\ \A t \in Published : \E i \in 1 .. N : q[i] = t
  BY SetInSeq, TracksFinite
<1>2. new = [i \in 1 .. N |-> Subscription(q[i])]
  BY <1>1 DEF Subscriptions
<1>3. \A t \in Published : /\ Subscription(t) \in TrackOut /\ Subscription(t).track = t
                           /\ Subscription(t).state = "ToOpen" /\ Subscription(t).line = 0
  BY DEF Subscription, TrackOut, Published
<1>4. \A i \in 1 .. N : Subscription(q[i]) \in TrackOut
  BY <1>1, <1>3
<1>5. new \in Seq(TrackOut) /\ DOMAIN new = 1 .. N
  BY <1>1, <1>2, <1>4, IsASeq
<1>6. \A i \in 1 .. N : /\ new[i].track = q[i] /\ new[i].state = "ToOpen" /\ new[i].line = 0
                        /\ new[i].track \in Published
  BY <1>1, <1>2, <1>3
<1> HIDE DEF new, q
<1> QED BY <1>1, <1>5, <1>6 DEF new

QueueEvent == [kind : {"TrackOpen", "Media", "KeyframeRequest"}, source : room, track : Track, line : Nat]

LEMMA Events ==
  ASSUME TypeOK, NEW k \in DOMAIN queue
  PROVE  queue[k] \in QueueEvent
<1>1. queue \in Seq(QueueEvent)
  BY DEF TypeOK, QueueEvent
<1>2. DOMAIN queue = 1 .. Len(queue)
  BY <1>1, LenProperties
<1> QED BY <1>1, <1>2, ElementOfSeq

\* What a peer says of itself while it is polled goes behind what is queued.
LEMMA Produced ==
  ASSUME TypeOK, NEW events \in Seq(QueueEvent), queue' = queue \o events
  PROVE  /\ queue' \in Seq(QueueEvent)
         /\ Len(queue) \in Nat /\ DOMAIN queue = 1 .. Len(queue)
         /\ Len(events) \in Nat /\ DOMAIN events = 1 .. Len(events)
         /\ DOMAIN queue' = 1 .. Len(queue) + Len(events)
         /\ \A i \in DOMAIN queue : queue'[i] = queue[i]
         /\ \A i \in DOMAIN queue' \ DOMAIN queue :
              i - Len(queue) \in DOMAIN events /\ queue'[i] = events[i - Len(queue)]
<1>1. queue \in Seq(QueueEvent)
  BY DEF TypeOK, QueueEvent
<1>2. /\ queue' \in Seq(QueueEvent) /\ Len(queue') = Len(queue) + Len(events)
      /\ Len(queue) \in Nat /\ Len(events) \in Nat
      /\ DOMAIN queue = 1 .. Len(queue) /\ DOMAIN events = 1 .. Len(events)
      /\ DOMAIN queue' = 1 .. Len(queue')
  BY <1>1, ConcatProperties, LenProperties
<1>3. \A i \in 1 .. Len(queue) + Len(events) :
        queue'[i] = IF i <= Len(queue) THEN queue[i] ELSE events[i - Len(queue)]
  BY <1>1, ConcatProperties
<1> QED BY <1>2, <1>3

LEMMA ProducedOne ==
  ASSUME TypeOK, NEW e \in QueueEvent, queue' = queue \o <<e>>
  PROVE  /\ queue' \in Seq(QueueEvent)
         /\ Len(queue) \in Nat /\ DOMAIN queue = 1 .. Len(queue)
         /\ DOMAIN queue' = 1 .. Len(queue) + 1
         /\ \A i \in DOMAIN queue : queue'[i] = queue[i]
         /\ queue'[Len(queue) + 1] = e
<1>1. queue \in Seq(QueueEvent)
  BY DEF TypeOK, QueueEvent
<1>2. queue' = Append(queue, e)
  BY <1>1, AppendIsConcat
<1> QED BY <1>1, <1>2, AppendProperties, LenProperties

\* The tracks a peer publishes, announced one after the other.
LEMMA AnnouncedInTurn ==
  ASSUME NEW p \in PeerIds, p \in room
  PROVE  LET own == Announcements(p)
         IN  /\ own \in Seq(QueueEvent)
             /\ \A i \in DOMAIN own : /\ own[i].kind = "TrackOpen" /\ own[i].source = p
                                      /\ own[i].track \in [origin : {p}, mid : Mids]
             /\ \A i, j \in DOMAIN own : own[i].track = own[j].track => i = j
             /\ \A t \in [origin : {p}, mid : Mids] : \E i \in DOMAIN own : own[i].track = t
<1> DEFINE T == [origin : {p}, mid : Mids]
           q == SetToSeq(T)
           N == Cardinality(T)
           own == Announcements(p)
<1>1. T \in SUBSET Track
  BY DEF Track
<1>2. IsFiniteSet(T)
  BY <1>1, TracksFinite, FS_Subset
<1>3. /\ N \in Nat /\ q \in [1 .. N -> T]
      /\ \A i, j \in 1 .. N : q[i] = q[j] => i = j
      /\ \A t \in T : \E i \in 1 .. N : q[i] = t
  BY <1>2, SetInSeq
<1>4. own = [i \in 1 .. N |-> Event("TrackOpen", p, q[i])]
  BY <1>3 DEF Announcements
<1>5. \A t \in T : /\ Event("TrackOpen", p, t) \in QueueEvent /\ Event("TrackOpen", p, t).track = t
                   /\ Event("TrackOpen", p, t).kind = "TrackOpen"
                   /\ Event("TrackOpen", p, t).source = p
  BY <1>1 DEF Event, QueueEvent
<1> HIDE DEF own, q, T
<1>6. \A i \in 1 .. N : Event("TrackOpen", p, q[i]) \in QueueEvent
  BY <1>3, <1>5
<1>7. own \in Seq(QueueEvent) /\ DOMAIN own = 1 .. N
  BY <1>3, <1>4, <1>6, IsASeq
<1>8. \A i \in 1 .. N : /\ own[i].kind = "TrackOpen" /\ own[i].source = p
                        /\ own[i].track = q[i] /\ own[i].track \in T
  BY <1>3, <1>4, <1>5
<1>9. /\ \A i \in DOMAIN own : own[i].kind = "TrackOpen" /\ own[i].source = p /\ own[i].track \in T
      /\ \A i, j \in DOMAIN own : own[i].track = own[j].track => i = j
      /\ \A t \in T : \E i \in DOMAIN own : own[i].track = t
  BY <1>3, <1>7, <1>8
<1> QED BY <1>7, <1>9 DEF own, T

\* The head of the queue reaches the others.
LEMMA HandedOn ==
  ASSUME TypeOK, Propagate
  PROVE  /\ Head(queue) \in QueueEvent /\ Head(queue) = queue[1] /\ 1 \in DOMAIN queue
         /\ queue' \in Seq(QueueEvent)
         /\ Len(queue) \in Nat /\ DOMAIN queue = 1 .. Len(queue) /\ DOMAIN queue' = 1 .. Len(queue) - 1
         /\ \A i \in DOMAIN queue' : i + 1 \in DOMAIN queue /\ queue'[i] = queue[i + 1]
         /\ out' \in [PeerIds -> Seq(TrackOut)]
         /\ \A p \in PeerIds :
              IF Head(queue).kind = "TrackOpen" /\ p \in Others(Head(queue))
              THEN /\ DOMAIN out'[p] = 1 .. Len(out[p]) + 1
                   /\ out'[p][Len(out[p]) + 1] = Subscription(Head(queue).track)
                   /\ \A i \in DOMAIN out[p] : out'[p][i] = out[p][i]
              ELSE out'[p] = out[p]
<1>1. queue \in Seq(QueueEvent) /\ queue # <<>>
  BY DEF TypeOK, QueueEvent, Propagate
<1>2. /\ Head(queue) \in QueueEvent /\ Tail(queue) \in Seq(QueueEvent)
      /\ Len(Tail(queue)) = Len(queue) - 1
      /\ \A i \in 1 .. Len(Tail(queue)) : Tail(queue)[i] = queue[i + 1]
  BY <1>1, HeadTailProperties
<1>3. Len(queue) \in Nat \ {0} /\ DOMAIN queue = 1 .. Len(queue) /\ Head(queue) = queue[1]
  BY <1>1, LenProperties
<1>4. queue' = Tail(queue) /\ DOMAIN Tail(queue) = 1 .. Len(Tail(queue))
  BY <1>2 DEF Propagate
<1>5. Subscription(Head(queue).track) \in TrackOut
  BY <1>2 DEF QueueEvent, Subscription, TrackOut
<1>6. ASSUME NEW p \in PeerIds
      PROVE  /\ Append(out[p], Subscription(Head(queue).track)) \in Seq(TrackOut)
             /\ out'[p] = IF Head(queue).kind = "TrackOpen" /\ p \in Others(Head(queue))
                          THEN Append(out[p], Subscription(Head(queue).track)) ELSE out[p]
  BY <1>5, Domains, AppendProperties DEF Propagate, Subscribed
<1>7. out' \in [PeerIds -> Seq(TrackOut)]
  BY <1>6, Domains DEF Propagate, Subscribed
<1>8. ASSUME NEW p \in PeerIds
      PROVE  LET a == Append(out[p], Subscription(Head(queue).track))
             IN  /\ DOMAIN a = 1 .. Len(out[p]) + 1
                 /\ a[Len(out[p]) + 1] = Subscription(Head(queue).track)
                 /\ \A i \in DOMAIN out[p] : a[i] = out[p][i]
  BY <1>5, <1>6, Domains, AppendProperties, LenProperties
<1>9. ASSUME NEW p \in PeerIds
      PROVE  IF Head(queue).kind = "TrackOpen" /\ p \in Others(Head(queue))
             THEN /\ DOMAIN out'[p] = 1 .. Len(out[p]) + 1
                  /\ out'[p][Len(out[p]) + 1] = Subscription(Head(queue).track)
                  /\ \A i \in DOMAIN out[p] : out'[p][i] = out[p][i]
             ELSE out'[p] = out[p]
  BY <1>6, <1>8
<1>10. DOMAIN queue' = 1 .. Len(queue) - 1 /\ queue' \in Seq(QueueEvent) /\ 1 \in DOMAIN queue
  BY <1>2, <1>3, <1>4
<1>11. \A i \in DOMAIN queue' : i + 1 \in DOMAIN queue /\ queue'[i] = queue[i + 1]
  BY <1>2, <1>3, <1>4
<1> QED BY <1>2, <1>3, <1>7, <1>9, <1>10, <1>11
-----------------------------------------------------------------------------
(* Types                                                                   *)

LEMMA BaseInit == Init => Base
BY ForwardingAssumption DEF Init, Base, TypeOK, Tidy, PeerIds

LEMMA Seats == TypeOK => room \subseteq PeerIds
BY ForwardingAssumption DEF TypeOK, PeerIds

LEMMA JoinBase == Base /\ Join /\ NoEffect => Base'
<1> SUFFICES ASSUME Base, Join, NoEffect
             PROVE  Base'
  OBVIOUS
<1> DEFINE new == Subscriptions(Published)
<1>1. nextPeer \in PeerIds /\ new \in Seq(TrackOut) /\ queue = <<>>
  BY Arrived DEF Join, Base, Tidy
<1>2. \A i \in DOMAIN new : new[i].state = "ToOpen" /\ new[i].line = 0
  BY Arrived DEF Base
<1>3. /\ out' \in [PeerIds -> Seq(TrackOut)] /\ out'[nextPeer] = new
      /\ \A q \in PeerIds \ {nextPeer} : out'[q] = out[q]
  BY <1>1 DEF Join, Base, TypeOK
<1>4. nextPeer' \in 1 .. MaxPeerId + 1 /\ room' \subseteq 1 .. nextPeer' - 1
  BY ForwardingAssumption DEF Join, Base, TypeOK, PeerIds
<1>5. TypeOK'
  BY <1>1, <1>3, <1>4 DEF Join, Base, TypeOK, NoEffect
<1>6. \A p \in PeerIds : \A i \in DOMAIN out'[p] : out'[p][i].state = "ToOpen" <=> out'[p][i].line = 0
  BY <1>2, <1>3 DEF Base, Tidy
<1>7. Tidy'
  BY <1>3, <1>6 DEF Join, Base, Tidy
<1> QED BY <1>5, <1>7 DEF Base

LEMMA GoneBase == ASSUME Base, NEW p \in room, Gone(p), NoEffect PROVE Base'
<1>1. p \in PeerIds /\ queue = <<>> /\ unpolled = {}
  BY Seats DEF Gone, Base, Tidy
<1>2. /\ out' \in [PeerIds -> Seq(TrackOut)] /\ out'[p] = <<>>
      /\ \A q \in PeerIds \ {p} : out'[q] = out[q]
  BY <1>1 DEF Gone, Base, TypeOK
<1>3. TypeOK'
  BY <1>1, <1>2 DEF Gone, Base, TypeOK, NoEffect
<1>4. /\ tracksIn'[p] = {} /\ lines'[p] = {} /\ map'[p] = {}
      /\ \A q \in PeerIds \ {p} : /\ tracksIn'[q] = tracksIn[q] /\ lines'[q] = lines[q]
                                  /\ map'[q] = map[q]
  BY <1>1 DEF Gone, Base, TypeOK
<1>5. Tidy'
  BY <1>1, <1>2, <1>4 DEF Gone, Base, Tidy
<1> QED BY <1>3, <1>5 DEF Base

LEMMA AnswerBase == ASSUME Base, NEW p \in room, Answer(p), NoEffect PROVE Base'
<1>1. p \in PeerIds
  BY Seats DEF Base
<1>2. /\ out' \in [PeerIds -> Seq(TrackOut)]
      /\ \A q \in PeerIds \ {p} : out'[q] = out[q]
  BY <1>1, Answered DEF Base
<1>3. PICK from \in [DOMAIN out'[p] -> Kept(p)] :
        \A n \in DOMAIN out'[p] : out'[p][n] = Settled(out[p][from[n]])
  BY <1>1, Answered DEF Base
<1>4. \A i \in DOMAIN out[p] : /\ Settled(out[p][i]).state = "ToOpen" <=> out[p][i].state = "ToOpen"
                               /\ Settled(out[p][i]).line = out[p][i].line
  BY <1>1, Domains, SettledEntry DEF Base
<1>5. Kept(p) \subseteq DOMAIN out[p]
  BY DEF Kept, InState
<1>6. \A i \in DOMAIN out'[p] : out'[p][i].state = "ToOpen" <=> out'[p][i].line = 0
  BY <1>1, <1>3, <1>4, <1>5 DEF Base, Tidy
<1>7. LinesOf(p, {"Negotiating"}) \subseteq Nat \ {0}
  BY <1>1, Domains DEF LinesOf, InState, Base, Tidy, TrackOut
<1>8. lines' \in [PeerIds -> SUBSET (Nat \ {0})]
  BY <1>1, <1>7 DEF Answer, Base, TypeOK
<1>9. TypeOK'
  BY <1>1, <1>2, <1>8 DEF Answer, Base, TypeOK, NoEffect, peers
<1>10. \A q \in PeerIds \ {p} : lines'[q] = lines[q]
  BY <1>1 DEF Answer, Base, TypeOK
<1>11. Tidy'
  BY <1>1, <1>2, <1>6, <1>10 DEF Answer, Base, Tidy, peers
<1> QED BY <1>9, <1>11 DEF Base

LEMMA NegotiateBase == ASSUME Base, NEW p \in room, Negotiate(p), NoEffect PROVE Base'
<1> USE DEF Base
<1>1. p \in PeerIds
  BY Seats
<1>2. /\ out' \in [PeerIds -> Seq(TrackOut)]
      /\ \A q \in PeerIds \ {p} : out'[q] = out[q]
      /\ DOMAIN out'[p] = DOMAIN out[p]
  BY <1>1, Negotiated
<1>3. \A i \in DOMAIN out'[p] : out'[p][i].state = "ToOpen" <=> out'[p][i].line = 0
  <2>1. made[p] \in Nat
    BY <1>1 DEF TypeOK
  <2>2. \A i \in Opening(p) : FreshLine(p, i) # 0
    BY <1>1, <2>1, Negotiated
  <2> SUFFICES ASSUME NEW i \in DOMAIN out[p]
               PROVE  out'[p][i].state = "ToOpen" <=> out'[p][i].line = 0
    BY <1>2
  <2>3. CASE i \in Opening(p)
    BY <1>1, <2>2, <2>3, Negotiated
  <2>4. CASE i \in Stopping(p) /\ i \notin Opening(p)
    BY <1>1, <2>4, Negotiated DEF Tidy
  <2>5. CASE i \notin Opening(p) \cup Stopping(p)
    BY <1>1, <2>5, Negotiated DEF Tidy
  <2> QED BY <2>3, <2>4, <2>5
<1>4. made' \in [PeerIds -> Nat]
  <2>1. Cardinality(Opening(p)) \in Nat
    BY <1>1, Negotiated
  <2> QED BY <1>1, <2>1 DEF Negotiate, TypeOK
<1>5. out'[p] = Offered(p)
  BY <1>1 DEF Negotiate, TypeOK
<1>6. TrackMap(Offered(p)) \subseteq [line : Nat \ {0}, track : Track]
  <2>1. \A i \in DOMAIN out'[p] : out'[p][i] \in TrackOut
    BY <1>1, <1>2
  <2>2. \A e \in ToSet(Offered(p)) : e \in TrackOut /\ (e.state = "ToOpen" <=> e.line = 0)
    BY <1>3, <1>5, <2>1 DEF ToSet
  <2> QED BY <2>2 DEF TrackMap, TrackOut
<1>7. map' \in [PeerIds -> SUBSET [line : Nat \ {0}, track : Track]]
  BY <1>1, <1>6 DEF Negotiate, TypeOK
<1>8. \A q \in PeerIds \ {p} : map'[q] = map[q]
  BY <1>1 DEF Negotiate, TypeOK
<1>9. TypeOK'
  BY <1>1, <1>2, <1>4, <1>7 DEF Negotiate, TypeOK, NoEffect, peers
<1>10. Tidy'
  BY <1>1, <1>2, <1>3, <1>8 DEF Negotiate, Tidy, Polled, peers
<1> QED BY <1>9, <1>10
LEMMA MediaAddedBase == ASSUME Base, NEW p \in room, MediaAdded(p) PROVE Base'
<1>1. p \in PeerIds
  BY Seats DEF Base
<1>2. queue' \in Seq(QueueEvent)
  BY <1>1, AnnouncedInTurn, Produced DEF Base, MediaAdded, Output
<1>3. TypeOK'
  BY <1>1, <1>2 DEF MediaAdded, Output, Base, TypeOK, QueueEvent, NoEffect, peers, subscriptions
<1>4. \A q \in PeerIds \ {p} : tracksIn'[q] = tracksIn[q]
  BY <1>1 DEF MediaAdded, Base, TypeOK
<1>5. Tidy'
  BY <1>4 DEF MediaAdded, Output, Polled, Base, Tidy, peers, subscriptions
<1> QED BY <1>3, <1>5 DEF Base

\* A packet's event and a request's, by what is in them.
LEMMA PacketEvent ==
  ASSUME TypeOK, NEW p \in room, MediaData(p)
  PROVE  \E e \in QueueEvent :
           /\ Output(p, <<e>>) /\ UNCHANGED tracksIn
           /\ e.kind = "Media" /\ e.source = p /\ e.track \in Published /\ e.track.origin = p
           /\ recent' \subseteq recent \cup {e.track} /\ asked' \subseteq {e.track}
           /\ wrote' = Nothing
<1>1. p \in PeerIds
  BY Seats
<1>2. PICK mid \in tracksIn[p], contiguous \in BOOLEAN :
        LET t == [origin |-> p, mid |-> mid]
            request == {r \in {t} : mid \in VideoMids /\ ~contiguous /\ t \notin recent}
        IN /\ Output(p, <<Event("Media", p, t)>>)
           /\ recent' = recent \cup request
           /\ asked' = request
           /\ wrote' = Nothing
           /\ UNCHANGED tracksIn
  BY DEF MediaData
<1> DEFINE t == [origin |-> p, mid |-> mid]
<1>3. t \in Track /\ t \in Published /\ t.origin = p
  BY <1>1 DEF TypeOK, Track, Published
<1>4. Event("Media", p, t) \in QueueEvent
  BY <1>3 DEF Event, QueueEvent
<1>5. /\ Event("Media", p, t).kind = "Media" /\ Event("Media", p, t).source = p
      /\ Event("Media", p, t).track = t
  BY DEF Event
<1> QED BY <1>2, <1>3, <1>4, <1>5

LEMMA RequestEvent ==
  ASSUME Base, NEW p \in room, KeyframeRequest(p)
  PROVE  \E e \in QueueEvent :
           /\ Output(p, <<e>>) /\ UNCHANGED <<tracksIn, recent>> /\ NoEffect
           /\ e.kind = "KeyframeRequest" /\ e.source = p /\ e.track \in Published /\ e.line # 0
           /\ \E i \in DOMAIN out[p] : out[p][i].line = e.line /\ out[p][i].track = e.track
<1>1. p \in PeerIds
  BY Seats DEF Base
<1>2. PICK line \in lines[p] : \E t \in Carried(p, line) :
        /\ Output(p, <<[Event("KeyframeRequest", p, t) EXCEPT !.line = line]>>)
        /\ UNCHANGED <<tracksIn, recent>>
        /\ NoEffect
  BY DEF KeyframeRequest
<1>3. PICK t \in Carried(p, line) :
        /\ Output(p, <<[Event("KeyframeRequest", p, t) EXCEPT !.line = line]>>)
        /\ UNCHANGED <<tracksIn, recent>>
        /\ NoEffect
  BY <1>2
<1>4. line \in Nat \ {0}
  BY <1>1 DEF Base, TypeOK
<1>5. t \in Published /\ \E i \in DOMAIN out[p] : out[p][i].line = line /\ out[p][i].track = t
  BY DEF Carried, ToSet
<1> DEFINE e == [Event("KeyframeRequest", p, t) EXCEPT !.line = line]
<1>6. t \in Track
  BY <1>5 DEF Published
<1>7. /\ e \in QueueEvent /\ e.kind = "KeyframeRequest" /\ e.source = p /\ e.track = t
      /\ e.line = line
  BY <1>4, <1>6 DEF Event, QueueEvent
<1> QED BY <1>3, <1>4, <1>5, <1>7

LEMMA MediaDataBase == ASSUME Base, NEW p \in room, MediaData(p) PROVE Base'
<1>1. PICK e \in QueueEvent :
        /\ Output(p, <<e>>) /\ UNCHANGED tracksIn
        /\ e.track \in Published
        /\ recent' \subseteq recent \cup {e.track} /\ asked' \subseteq {e.track}
  BY PacketEvent DEF Base
<1>2. queue' \in Seq(QueueEvent)
  BY <1>1, ProducedOne DEF Output, Base
<1>3. TypeOK'
  BY <1>1, <1>2 DEF Output, Base, TypeOK, QueueEvent, peers, subscriptions, Published
<1>4. Tidy'
  BY <1>1 DEF Output, Polled, Base, Tidy, peers, subscriptions
<1> QED BY <1>3, <1>4 DEF Base

LEMMA RequestBase == ASSUME Base, NEW p \in room, KeyframeRequest(p) PROVE Base'
<1>1. PICK e \in QueueEvent : Output(p, <<e>>) /\ UNCHANGED <<tracksIn, recent>> /\ NoEffect
  BY RequestEvent
<1>2. queue' \in Seq(QueueEvent)
  BY <1>1, ProducedOne DEF Output, Base
<1>3. TypeOK'
  BY <1>1, <1>2 DEF Output, Base, TypeOK, QueueEvent, NoEffect, peers, subscriptions
<1>4. Tidy'
  BY <1>1 DEF Output, Polled, Base, Tidy, peers, subscriptions
<1> QED BY <1>3, <1>4 DEF Base

LEMMA PropagateBase == Base /\ Propagate => Base'
<1> SUFFICES ASSUME Base, Propagate
             PROVE  Base'
  OBVIOUS
<1> USE DEF Base
<1>1. out' \in [PeerIds -> Seq(TrackOut)] /\ queue' \in Seq(QueueEvent)
  BY HandedOn
<1>2. asked' \subseteq Track
  <2>1. Head(queue).track \in Track
    BY HandedOn DEF QueueEvent
  <2> QED BY <2>1 DEF Propagate, Served, Encoder
<1>3. TypeOK'
  BY <1>1, <1>2 DEF Propagate, TypeOK, QueueEvent, peers
<1>4. \A p \in PeerIds : \A i \in DOMAIN out'[p] : out'[p][i].state = "ToOpen" <=> out'[p][i].line = 0
  <2> SUFFICES ASSUME NEW p \in PeerIds, NEW i \in DOMAIN out'[p]
               PROVE  out'[p][i].state = "ToOpen" <=> out'[p][i].line = 0
    OBVIOUS
  <2>1. CASE i \in DOMAIN out[p] /\ out'[p][i] = out[p][i]
    BY <2>1 DEF Tidy
  <2>2. CASE out'[p][i] = Subscription(Head(queue).track)
    BY <2>2 DEF Subscription
  <2>3. CASE Head(queue).kind = "TrackOpen" /\ p \in Others(Head(queue))
    <3>1. /\ DOMAIN out'[p] = 1 .. Len(out[p]) + 1
          /\ out'[p][Len(out[p]) + 1] = Subscription(Head(queue).track)
          /\ \A n \in DOMAIN out[p] : out'[p][n] = out[p][n]
      BY <2>3, HandedOn
    <3>2. Len(out[p]) \in Nat /\ DOMAIN out[p] = 1 .. Len(out[p])
      BY Domains
    <3>3. i \in DOMAIN out[p] \/ i = Len(out[p]) + 1
      BY <3>1, <3>2
    <3> QED BY <2>1, <2>2, <3>1, <3>3
  <2>4. CASE ~(Head(queue).kind = "TrackOpen" /\ p \in Others(Head(queue)))
    <3>1. out'[p] = out[p]
      BY <2>4, HandedOn
    <3> QED BY <2>1, <3>1
  <2> QED BY <2>3, <2>4
<1>5. \A p \in PeerIds \ room : out'[p] = out[p]
  BY HandedOn DEF Others
<1>6. Tidy'
  BY <1>4, <1>5 DEF Propagate, Tidy, peers
<1> QED BY <1>3, <1>6

LEMMA BaseStep == Base /\ [Next]_vars => Base'
<1> SUFFICES ASSUME Base, [Next]_vars
             PROVE  Base'
  OBVIOUS
<1>1. CASE DrainDone /\ NoEffect
  BY <1>1 DEF Base, DrainDone, TypeOK, Tidy, subscriptions, NoEffect, peers
<1>2. ASSUME NEW p \in room, PeerPolled(p) /\ NoEffect
      PROVE  Base'
  BY <1>2 DEF Base, PeerPolled, Polled, TypeOK, Tidy, peers, subscriptions, NoEffect
<1>3. CASE PollDone /\ NoEffect
  BY <1>3 DEF Base, PollDone, TypeOK, Tidy, peers, subscriptions, NoEffect
<1>4. CASE PropagateDone /\ NoEffect
  BY <1>4 DEF Base, PropagateDone, TypeOK, Tidy, peers, subscriptions, NoEffect
<1>5. CASE TurnDone /\ NoEffect
  BY <1>5 DEF Base, TurnDone, TypeOK, Tidy, peers, subscriptions, NoEffect
<1>6. CASE UNCHANGED vars
  BY <1>6 DEF Base, vars, peers, subscriptions, effects, TypeOK, Tidy
<1> QED BY <1>1, <1>2, <1>3, <1>4, <1>5, <1>6, JoinBase, GoneBase, AnswerBase, NegotiateBase,
           MediaAddedBase, MediaDataBase, RequestBase, PropagateBase
        DEF Next, Drain, EndOfPoll, Poll

\* Subscriptions, queue, m-lines and maps keep their types, whoever comes and goes.
THEOREM ForwardingTyped == Spec => []TypeOK
<1>1. Base /\ [Next]_vars => Base'
  BY BaseStep
<1>2. Base => TypeOK
  BY DEF Base
<1> QED BY <1>1, <1>2, BaseInit, PTL DEF Spec
-----------------------------------------------------------------------------
(* Who is subscribed to whom                                               *)

LEMMA SubscribersInit == Init => Subscribers
BY DEF Init, Subscribers, Queued, Subscriber, Complete, Published

\* Who is there, what is published, queued and subscribed to is all that matters.
LEMMA SubscribersSame ==
  Subscribers /\ UNCHANGED <<room, nextPeer, tracksIn, out, queue>> => Subscribers'
BY DEF Subscribers, Queued, Subscriber, Complete, Published, Known, Announced

LEMMA JoinSubscribers == Inv /\ Join => Subscribers'
<1> SUFFICES ASSUME Inv, Join
             PROVE  Subscribers'
  OBVIOUS
<1> USE DEF Inv, Base
<1> DEFINE new == Subscriptions(Published)
<1>1. /\ nextPeer \in PeerIds /\ nextPeer \in Nat /\ room' = room \cup {nextPeer}
      /\ nextPeer' = nextPeer + 1 /\ tracksIn' = tracksIn
      /\ queue = <<>> /\ queue' = <<>> /\ out' = [out EXCEPT ![nextPeer] = new]
  BY ForwardingAssumption DEF Join, Tidy, PeerIds
<1>2. \A q \in room : q \in PeerIds /\ q < nextPeer /\ q \in Nat
  BY ForwardingAssumption DEF TypeOK, PeerIds
<1>3. nextPeer \notin room
  BY <1>1, <1>2
<1>4. Published' = Published
  BY <1>1, <1>3 DEF Published, Tidy
<1>5. \A t : ~Announced(t) /\ ~Announced(t)'
  BY <1>1 DEF Announced
<1>6. out'[nextPeer] = new /\ \A q \in PeerIds \ {nextPeer} : out'[q] = out[q]
  BY <1>1 DEF TypeOK
<1>7. Queued'
  BY <1>1 DEF Queued
<1>8. \A t \in Published : t.origin \in room
  BY DEF Published
<1>9. \A t \in Track : t.origin \in Nat
  BY DEF Track, PeerIds
<1>10. ASSUME NEW p \in PeerIds
       PROVE  Subscriber(p)'
  <2>1. CASE p = nextPeer
    <3>1. \A i \in DOMAIN new : /\ new[i].track \in Published
                                /\ \A j \in DOMAIN new : new[j].track = new[i].track => j = i
      BY Arrived
    <3>2. \A t \in Published : t.origin # p /\ Known(t)'
      BY <1>1, <1>2, <1>3, <1>4, <1>8, <2>1 DEF Known
    <3> HIDE DEF new
    <3> QED BY <1>5, <1>6, <2>1, <3>1, <3>2 DEF Subscriber
  <2>2. CASE p # nextPeer
    <3>1. Subscriber(p) /\ out'[p] = out[p]
      BY <1>6, <2>2 DEF Subscribers
    <3>2. \A i \in DOMAIN out[p] : out[p][i].track \in Track
      BY Domains DEF TrackOut
    <3>3. \A t \in Track : Known(t) => Known(t)'
      BY <1>1, <1>4, <1>9 DEF Known
    <3> QED BY <1>5, <3>1, <3>2, <3>3 DEF Subscriber
  <2> QED BY <2>1, <2>2
<1>11. Complete'
  <2> SUFFICES ASSUME NEW p \in room', NEW t \in Published, t.origin # p
               PROVE  \E i \in DOMAIN out'[p] : out'[p][i].track = t
    BY <1>4 DEF Complete
  <2>1. CASE p = nextPeer
    BY <1>6, <2>1, Arrived
  <2>2. CASE p # nextPeer
    BY <1>1, <1>2, <1>5, <1>6, <2>2 DEF Subscribers, Complete
  <2> QED BY <2>1, <2>2
<1> QED BY <1>7, <1>10, <1>11 DEF Subscribers

LEMMA GoneSubscribers == ASSUME Inv, NEW p \in room, Gone(p) PROVE Subscribers'
<1> USE DEF Inv, Base
<1>1. p \in PeerIds /\ queue = <<>> /\ queue' = <<>> /\ room' = room \ {p} /\ nextPeer' = nextPeer
  BY Seats DEF Gone, Tidy
<1>2. /\ out'[p] = <<>> /\ \A q \in PeerIds \ {p} : out'[q] = out[q]
      /\ \A q \in PeerIds \ {p} : tracksIn'[q] = tracksIn[q]
  BY <1>1 DEF Gone, TypeOK
<1>3. Published' = {t \in Published : t.origin # p}
  BY <1>1, <1>2 DEF Published, Track
<1>4. \A t : ~Announced(t) /\ ~Announced(t)'
  BY <1>1 DEF Announced
<1>5. Queued'
  BY <1>1 DEF Queued
<1>6. \A t : Known(t) => Known(t)'
  BY <1>1, <1>3 DEF Known
<1>7. ASSUME NEW q \in PeerIds
      PROVE  Subscriber(q)'
  <2>1. CASE q = p
    BY <1>2, <2>1 DEF Subscriber
  <2>2. CASE q # p
    BY <1>2, <1>4, <1>6, <2>2 DEF Subscribers, Subscriber
  <2> QED BY <2>1, <2>2
<1>8. Complete'
  <2> SUFFICES ASSUME NEW q \in room', NEW t \in Published', t.origin # q
               PROVE  \E i \in DOMAIN out'[q] : out'[q][i].track = t
    BY DEF Complete
  <2>1. q \in PeerIds \ {p} /\ q \in room
    BY <1>1, Seats
  <2>2. t \in Published
    BY <1>3
  <2> QED BY <1>2, <1>4, <2>1, <2>2 DEF Subscribers, Complete
<1> QED BY <1>5, <1>7, <1>8 DEF Subscribers

LEMMA AnswerSubscribers == ASSUME Inv, NEW p \in room, Answer(p) PROVE Subscribers'
<1> USE DEF Inv, Base
<1>1. /\ p \in PeerIds /\ room' = room /\ nextPeer' = nextPeer /\ tracksIn' = tracksIn
      /\ queue' = queue
  BY Seats DEF Answer, peers
<1>2. Published' = Published
  BY <1>1 DEF Published
<1>3. \A t : Announced(t)' = Announced(t)
  BY <1>1 DEF Announced
<1>4. \A t : Known(t)' = Known(t)
  BY <1>1, <1>2 DEF Known
<1>5. Queued'
  BY <1>1, <1>2 DEF Subscribers, Queued
<1>6. PICK from \in [DOMAIN out'[p] -> Kept(p)] :
        /\ \A n \in DOMAIN out'[p] : out'[p][n] = Settled(out[p][from[n]])
        /\ \A m, n \in DOMAIN out'[p] : from[m] = from[n] => m = n
        /\ \A i \in Kept(p) : \E n \in DOMAIN out'[p] : from[n] = i
  BY <1>1, Answered
<1>7. Kept(p) \subseteq DOMAIN out[p]
  BY DEF Kept, InState
<1>8. \A i \in DOMAIN out[p] : Settled(out[p][i]).track = out[p][i].track
  BY <1>1, Domains, SettledEntry
<1>9. \A n \in DOMAIN out'[p] : from[n] \in DOMAIN out[p] /\ out'[p][n].track = out[p][from[n]].track
  BY <1>6, <1>7, <1>8
<1>10. \A q \in PeerIds \ {p} : out'[q] = out[q]
  BY <1>1, Answered
<1>11. ASSUME NEW q \in PeerIds
       PROVE  Subscriber(q)'
  <2>1. Subscriber(q)
    BY DEF Subscribers
  <2>2. CASE q = p
    BY <1>3, <1>4, <1>6, <1>9, <2>1, <2>2 DEF Subscriber
  <2>3. CASE q # p
    BY <1>3, <1>4, <1>10, <2>1, <2>3 DEF Subscriber
  <2> QED BY <2>2, <2>3
<1>12. Complete'
  <2> SUFFICES ASSUME NEW q \in room, NEW t \in Published, t.origin # q, ~Announced(t)
               PROVE  \E i \in DOMAIN out'[q] : out'[q][i].track = t
    BY <1>1, <1>2, <1>3 DEF Complete
  <2>1. PICK i \in DOMAIN out[q] : out[q][i].track = t
    BY DEF Subscribers, Complete
  <2>2. CASE q = p
    <3>1. out[p][i].state # "NegotiatingStop"
      BY <1>1, <2>1, <2>2 DEF LinesAgree, Stopped, Published
    <3>2. out[p][i].state \in {"ToOpen", "Negotiating", "Open"}
      BY <1>1, <2>1, <2>2, <3>1, Domains DEF TrackOut
    <3>3. i \in Kept(p)
      BY <2>1, <2>2, <3>2 DEF Kept, InState
    <3> QED BY <1>6, <1>9, <2>1, <2>2, <3>3
  <2>3. CASE q # p
    BY <1>10, <2>1, <2>3, Seats
  <2> QED BY <2>2, <2>3
<1> QED BY <1>5, <1>11, <1>12 DEF Subscribers

LEMMA NegotiateSubscribers == ASSUME Inv, NEW p \in room, Negotiate(p) PROVE Subscribers'
<1> USE DEF Inv, Base
<1>1. /\ p \in PeerIds /\ room' = room /\ nextPeer' = nextPeer /\ tracksIn' = tracksIn
      /\ queue' = queue
  BY Seats DEF Negotiate, peers
<1>2. Published' = Published
  BY <1>1 DEF Published
<1>3. \A t : Announced(t)' = Announced(t)
  BY <1>1 DEF Announced
<1>4. \A t : Known(t)' = Known(t)
  BY <1>1, <1>2 DEF Known
<1>5. \A q \in PeerIds : /\ DOMAIN out'[q] = DOMAIN out[q]
                         /\ \A i \in DOMAIN out[q] : out'[q][i].track = out[q][i].track
  BY <1>1, Negotiated
<1>6. Queued'
  BY <1>1, <1>2 DEF Subscribers, Queued
<1>7. \A q \in PeerIds : Subscriber(q)'
  BY <1>3, <1>4, <1>5 DEF Subscribers, Subscriber
<1>8. Complete'
  BY <1>1, <1>2, <1>3, <1>5, Seats DEF Subscribers, Complete
<1> QED BY <1>6, <1>7, <1>8 DEF Subscribers
LEMMA MediaAddedSubscribers == ASSUME Inv, NEW p \in room, MediaAdded(p) PROVE Subscribers'
<1> USE DEF Inv, Base
<1> DEFINE own == [origin : {p}, mid : Mids]
           E == Announcements(p)
<1>1. /\ p \in PeerIds /\ room' = room /\ nextPeer' = nextPeer /\ out' = out
      /\ tracksIn[p] = {} /\ tracksIn' = [tracksIn EXCEPT ![p] = Mids]
      /\ queue' = queue \o E
  BY Seats DEF MediaAdded, Output, peers, subscriptions
<1>2. /\ tracksIn'[p] = Mids /\ \A q \in PeerIds \ {p} : tracksIn'[q] = tracksIn[q]
  BY <1>1 DEF TypeOK
<1>3. Published' = Published \cup own
  BY <1>1, <1>2 DEF Published, Track
<1>4. \A t \in Published : t.origin # p
  BY <1>1 DEF Published
<1>5. \A t \in own : t.origin = p
  OBVIOUS
<1>6. /\ E \in Seq(QueueEvent)
      /\ \A i \in DOMAIN E : E[i].kind = "TrackOpen" /\ E[i].source = p /\ E[i].track \in own
      /\ \A i, j \in DOMAIN E : E[i].track = E[j].track => i = j
      /\ \A t \in own : \E i \in DOMAIN E : E[i].track = t
  BY <1>1, AnnouncedInTurn
<1> HIDE DEF own, E
<1>7. /\ Len(queue) \in Nat /\ DOMAIN queue = 1 .. Len(queue)
      /\ Len(E) \in Nat /\ DOMAIN E = 1 .. Len(E)
      /\ DOMAIN queue' = 1 .. Len(queue) + Len(E)
      /\ \A i \in DOMAIN queue : queue'[i] = queue[i]
      /\ \A i \in DOMAIN queue' \ DOMAIN queue :
           i - Len(queue) \in DOMAIN E /\ queue'[i] = E[i - Len(queue)]
  BY <1>1, <1>6, Produced
<1>8. \A t \in own : Announced(t)'
  <2> SUFFICES ASSUME NEW t \in own
               PROVE  Announced(t)'
    OBVIOUS
  <2>1. PICK i \in DOMAIN E : E[i].track = t
    BY <1>6
  <2>2. Len(queue) + i \in DOMAIN queue' \ DOMAIN queue /\ (Len(queue) + i) - Len(queue) = i
    BY <1>7
  <2>3. queue'[Len(queue) + i] = E[i]
    BY <1>7, <2>2
  <2> QED BY <1>6, <2>1, <2>2, <2>3 DEF Announced
<1>9. ASSUME NEW t, t \notin own
      PROVE  Announced(t)' = Announced(t)
  <2>1. \A i \in DOMAIN queue : i \in DOMAIN queue' /\ queue'[i] = queue[i]
    BY <1>7
  <2>2. \A i \in DOMAIN queue' : queue'[i].track = t => i \in DOMAIN queue
    BY <1>6, <1>7, <1>9
  <2>3. Announced(t)' => Announced(t)
    BY <2>1, <2>2 DEF Announced
  <2>4. Announced(t) => Announced(t)'
    BY <2>1 DEF Announced
  <2>5. Announced(t) \in BOOLEAN /\ Announced(t)' \in BOOLEAN
    BY DEF Announced
  <2> QED BY <2>3, <2>4, <2>5
<1>10. Queued'
  <2> SUFFICES ASSUME NEW i \in DOMAIN queue'
               PROVE  /\ queue'[i].track \in Published'
                      /\ queue'[i].kind \in {"TrackOpen", "Media"}
                           => queue'[i].source = queue'[i].track.origin
                      /\ \A j \in DOMAIN queue' :
                           queue'[j].kind = "TrackOpen" /\ queue'[j].track = queue'[i].track
                             /\ queue'[i].kind = "TrackOpen" => j = i
    BY DEF Queued
  <2>0. Queued
    BY DEF Subscribers
  <2>1. CASE i \in DOMAIN queue
    <3>1. queue'[i] = queue[i] /\ queue[i].track \in Published /\ queue[i].track \notin own
      BY <1>4, <1>5, <1>7, <2>0, <2>1 DEF Queued
    <3>2. \A j \in DOMAIN queue' : queue'[j].track = queue[i].track => j \in DOMAIN queue
      BY <1>6, <1>7, <3>1
    <3>3. \A j \in DOMAIN queue : queue'[j] = queue[j]
      BY <1>7
    <3> QED BY <1>3, <2>0, <2>1, <3>1, <3>2, <3>3 DEF Queued
  <2>2. CASE i \notin DOMAIN queue
    <3>1. i - Len(queue) \in DOMAIN E /\ queue'[i] = E[i - Len(queue)]
      BY <1>7, <2>2
    <3>2. /\ queue'[i].track \in own /\ queue'[i].source = p /\ queue'[i].kind = "TrackOpen"
          /\ queue'[i].track.origin = p
      BY <1>5, <1>6, <3>1
    <3>3. ASSUME NEW j \in DOMAIN queue', queue'[j].track = queue'[i].track
          PROVE  j = i
      <4>1. j \notin DOMAIN queue
        BY <1>4, <1>7, <2>0, <3>2, <3>3 DEF Queued
      <4>2. j - Len(queue) \in DOMAIN E /\ queue'[j] = E[j - Len(queue)]
        BY <1>7, <4>1
      <4>3. j - Len(queue) = i - Len(queue)
        BY <1>6, <3>1, <3>3, <4>2
      <4>4. i \in Nat /\ j \in Nat
        BY <1>7
      <4> QED BY <1>7, <4>3, <4>4
    <3> QED BY <1>3, <3>2, <3>3
  <2> QED BY <2>1, <2>2
<1>11. ASSUME NEW q \in PeerIds
       PROVE  Subscriber(q)'
  <2>1. Subscriber(q) /\ out'[q] = out[q]
    BY <1>1 DEF Subscribers
  <2>2. \A i \in DOMAIN out[q] : out[q][i].track \notin own
    BY <1>1, <1>4, <1>5, <2>1 DEF Subscriber, Known
  <2>3. \A i \in DOMAIN out[q] : Known(out[q][i].track)'
    BY <1>1, <1>3, <2>1 DEF Subscriber, Known
  <2>4. \A i \in DOMAIN out[q] : ~Announced(out[q][i].track)'
    BY <1>9, <2>1, <2>2 DEF Subscriber
  <2> QED BY <2>1, <2>3, <2>4 DEF Subscriber
<1>12. Complete'
  <2> SUFFICES ASSUME NEW q \in room, NEW t \in Published', t.origin # q, ~Announced(t)'
               PROVE  \E i \in DOMAIN out[q] : out[q][i].track = t
    BY <1>1 DEF Complete
  <2>1. t \notin own /\ t \in Published
    BY <1>3, <1>8
  <2>2. ~Announced(t)
    BY <1>9, <2>1
  <2> QED BY <2>1, <2>2 DEF Subscribers, Complete
<1> QED BY <1>10, <1>11, <1>12 DEF Subscribers

\* A packet or a request in the queue changes nobody's subscriptions.
LEMMA OneMoreSubscribers ==
  ASSUME Inv, NEW p \in room, NEW e \in QueueEvent, Output(p, <<e>>), UNCHANGED tracksIn,
         e.kind # "TrackOpen", e.track \in Published, e.kind = "Media" => e.source = e.track.origin
  PROVE  Subscribers'
<1> USE DEF Inv, Base
<1>1. /\ room' = room /\ nextPeer' = nextPeer /\ out' = out /\ tracksIn' = tracksIn
      /\ queue' = queue \o <<e>>
  BY DEF Output, peers, subscriptions
<1>2. Published' = Published
  BY <1>1 DEF Published
<1>3. /\ Len(queue) \in Nat /\ DOMAIN queue = 1 .. Len(queue)
      /\ DOMAIN queue' = 1 .. Len(queue) + 1
      /\ \A i \in DOMAIN queue : queue'[i] = queue[i]
      /\ queue'[Len(queue) + 1] = e
  BY <1>1, ProducedOne
<1>4. \A i \in DOMAIN queue' : i \in DOMAIN queue \/ queue'[i] = e
  BY <1>3
<1>5. \A i \in DOMAIN queue : i \in DOMAIN queue' /\ queue'[i] = queue[i]
  BY <1>3
<1>6. \A t : Announced(t)' <=> Announced(t)
  BY <1>4, <1>5 DEF Announced
<1>7. Queued'
  <2>1. Queued
    BY DEF Subscribers
  <2>2. e.kind \in {"TrackOpen", "Media"} => e.source = e.track.origin
    OBVIOUS
  <2> QED BY <1>2, <1>4, <1>5, <2>1, <2>2 DEF Queued
<1>8. \A q \in PeerIds : Subscriber(q)'
  BY <1>1, <1>2, <1>6 DEF Subscribers, Subscriber, Known
<1>9. Complete'
  BY <1>1, <1>2, <1>6 DEF Subscribers, Complete
<1> QED BY <1>7, <1>8, <1>9 DEF Subscribers

LEMMA PropagateSubscribers == Inv /\ Propagate => Subscribers'
<1> SUFFICES ASSUME Inv, Propagate
             PROVE  Subscribers'
  OBVIOUS
<1> USE DEF Inv, Base
<1> DEFINE e == Head(queue)
<1>1. /\ room' = room /\ nextPeer' = nextPeer /\ tracksIn' = tracksIn
  BY DEF Propagate, peers
<1>2. Published' = Published
  BY <1>1 DEF Published
<1>3. /\ e \in QueueEvent /\ e = queue[1] /\ 1 \in DOMAIN queue
      /\ Len(queue) \in Nat /\ DOMAIN queue = 1 .. Len(queue) /\ DOMAIN queue' = 1 .. Len(queue) - 1
      /\ \A i \in DOMAIN queue' : i + 1 \in DOMAIN queue /\ queue'[i] = queue[i + 1]
  BY HandedOn
<1>4. \A p \in PeerIds :
        IF e.kind = "TrackOpen" /\ p \in Others(e)
        THEN /\ DOMAIN out'[p] = 1 .. Len(out[p]) + 1
             /\ out'[p][Len(out[p]) + 1] = Subscription(e.track)
             /\ \A i \in DOMAIN out[p] : out'[p][i] = out[p][i]
        ELSE out'[p] = out[p]
  BY HandedOn
<1>5. Queued
  BY DEF Subscribers
<1>6. e.track \in Published /\ (e.kind \in {"TrackOpen", "Media"} => e.source = e.track.origin)
  BY <1>3, <1>5 DEF Queued
<1> HIDE DEF e
<1>7. Queued'
  <2> SUFFICES ASSUME NEW i \in DOMAIN queue'
               PROVE  /\ queue'[i].track \in Published
                      /\ queue'[i].kind \in {"TrackOpen", "Media"}
                           => queue'[i].source = queue'[i].track.origin
                      /\ queue'[i].kind = "TrackOpen" =>
                           \A j \in DOMAIN queue' :
                             queue'[j].kind = "TrackOpen" /\ queue'[j].track = queue'[i].track => j = i
    BY <1>2 DEF Queued
  <2>1. i + 1 \in DOMAIN queue /\ queue'[i] = queue[i + 1] /\ i \in Nat
    BY <1>3
  <2>2. \A j \in DOMAIN queue' : j \in Nat /\ (j + 1 = i + 1 => j = i)
    BY <1>3, <2>1
  <2> QED BY <1>3, <1>5, <2>1, <2>2 DEF Queued
<1>8. ASSUME NEW t
      PROVE  Announced(t)' <=> Announced(t) /\ ~(e.kind = "TrackOpen" /\ e.track = t)
  <2>1. ASSUME Announced(t)'
        PROVE  Announced(t) /\ ~(e.kind = "TrackOpen" /\ e.track = t)
    <3>1. PICK i \in DOMAIN queue' : queue'[i].kind = "TrackOpen" /\ queue'[i].track = t
      BY <2>1 DEF Announced
    <3>2. /\ i + 1 \in DOMAIN queue /\ queue[i + 1].kind = "TrackOpen" /\ queue[i + 1].track = t
          /\ i + 1 # 1
      BY <1>3, <3>1
    <3>3. ~(e.kind = "TrackOpen" /\ e.track = t)
      BY <1>3, <1>5, <3>2 DEF Queued
    <3> QED BY <3>2, <3>3 DEF Announced
  <2>2. ASSUME Announced(t), ~(e.kind = "TrackOpen" /\ e.track = t)
        PROVE  Announced(t)'
    <3>1. PICK i \in DOMAIN queue : queue[i].kind = "TrackOpen" /\ queue[i].track = t
      BY <2>2 DEF Announced
    <3>2. i # 1
      BY <1>3, <2>2, <3>1
    <3>3. i - 1 \in DOMAIN queue' /\ (i - 1) + 1 = i
      BY <1>3, <3>2
    <3> QED BY <1>3, <3>1, <3>3 DEF Announced
  <2> QED BY <2>1, <2>2
<1>9. ASSUME NEW p \in PeerIds
      PROVE  Subscriber(p)'
  <2>1. Subscriber(p)
    BY DEF Subscribers
  <2>2. \A t : Known(t)' <=> Known(t)
    BY <1>1, <1>2 DEF Known
  <2>3. CASE e.kind = "TrackOpen" /\ p \in Others(e)
    <3>1. /\ Len(out[p]) \in Nat /\ DOMAIN out[p] = 1 .. Len(out[p])
          /\ DOMAIN out'[p] = 1 .. Len(out[p]) + 1
          /\ out'[p][Len(out[p]) + 1].track = e.track
          /\ \A i \in DOMAIN out[p] : out'[p][i].track = out[p][i].track
      BY <1>4, <2>3, Domains DEF Subscription
    <3>2. Announced(e.track)
      BY <1>3, <2>3 DEF Announced
    <3>3. \A i \in DOMAIN out[p] : out[p][i].track # e.track
      BY <2>1, <3>2 DEF Subscriber
    <3>4. e.track.origin # p /\ Known(e.track)
      BY <1>6, <2>3, ForwardingAssumption DEF Others, Known, Published, TypeOK
    <3>5. \A i \in DOMAIN out'[p] : i \in DOMAIN out[p] \/ i = Len(out[p]) + 1
      BY <3>1
    <3>6. \A t : t = e.track => ~Announced(t)'
      BY <1>8, <2>3
    <3> SUFFICES ASSUME NEW i \in DOMAIN out'[p]
                 PROVE  /\ \A t : t = out'[p][i].track =>
                             t.origin # p /\ Known(t)' /\ ~Announced(t)'
                        /\ \A j \in DOMAIN out'[p] : out'[p][j].track = out'[p][i].track => j = i
      BY DEF Subscriber
    <3>7. CASE i \in DOMAIN out[p]
      <4>1. out'[p][i].track = out[p][i].track /\ out'[p][i].track # e.track
        BY <3>1, <3>3, <3>7
      <4>2. \A t : t = out[p][i].track => t.origin # p /\ Known(t) /\ ~Announced(t)
        BY <2>1, <3>7 DEF Subscriber
      <4>3. \A t : t = out'[p][i].track => t.origin # p /\ Known(t)' /\ ~Announced(t)'
        BY <1>8, <2>2, <4>1, <4>2
      <4>4. \A j \in DOMAIN out'[p] : out'[p][j].track = out'[p][i].track => j = i
        BY <2>1, <3>1, <3>5, <3>7, <4>1 DEF Subscriber
      <4> QED BY <4>3, <4>4
    <3>8. CASE i = Len(out[p]) + 1
      <4>1. \A t : t = e.track => Known(t)' /\ t.origin # p
        BY <2>2, <3>4
      <4>2. \A j \in DOMAIN out'[p] : out'[p][j].track = out'[p][i].track => j = i
        BY <3>1, <3>3, <3>5, <3>8
      <4> QED BY <3>1, <3>6, <3>8, <4>1, <4>2
    <3> QED BY <3>5, <3>7, <3>8
  <2>4. CASE ~(e.kind = "TrackOpen" /\ p \in Others(e))
    <3>1. out'[p] = out[p]
      BY <1>4, <2>4
    <3> QED BY <1>8, <2>1, <2>2, <3>1 DEF Subscriber
  <2> QED BY <2>3, <2>4
<1>10. Complete'
  <2> SUFFICES ASSUME NEW p \in room, NEW t \in Published, t.origin # p, ~Announced(t)'
               PROVE  \E i \in DOMAIN out'[p] : out'[p][i].track = t
    BY <1>1, <1>2 DEF Complete
  <2>0. p \in PeerIds
    BY Seats
  <2>1. CASE ~Announced(t)
    <3>1. PICK i \in DOMAIN out[p] : out[p][i].track = t
      BY <2>1 DEF Subscribers, Complete
    <3>2. i \in DOMAIN out'[p] /\ out'[p][i] = out[p][i]
      BY <1>4, <2>0, <3>1, Domains
    <3> QED BY <3>1, <3>2
  <2>2. CASE Announced(t)
    <3>1. e.kind = "TrackOpen" /\ e.track = t
      BY <1>8, <2>2
    <3>2. p \in Others(e)
      BY <1>6, <3>1 DEF Others
    <3> QED BY <1>4, <2>0, <3>1, <3>2, Domains DEF Subscription
  <2> QED BY <2>1, <2>2
<1> QED BY <1>7, <1>9, <1>10 DEF Subscribers

LEMMA SubscribersStep == Inv /\ [Next]_vars => Subscribers'
<1> SUFFICES ASSUME Inv, [Next]_vars
             PROVE  Subscribers'
  OBVIOUS
<1>1. ASSUME NEW p \in room, MediaData(p)
      PROVE  Subscribers'
  BY <1>1, PacketEvent, OneMoreSubscribers DEF Inv, Base
<1>2. ASSUME NEW p \in room, KeyframeRequest(p)
      PROVE  Subscribers'
  BY <1>2, RequestEvent, OneMoreSubscribers DEF Inv, Base
<1>3. CASE DrainDone \/ PollDone \/ PropagateDone \/ TurnDone \/ UNCHANGED vars
  BY <1>3, SubscribersSame
     DEF Inv, DrainDone, PollDone, PropagateDone, TurnDone, vars, peers, subscriptions
<1>4. ASSUME NEW p \in room, PeerPolled(p)
      PROVE  Subscribers'
  BY <1>4, SubscribersSame DEF Inv, PeerPolled, peers, subscriptions
<1> QED BY <1>1, <1>2, <1>3, <1>4, JoinSubscribers, GoneSubscribers, AnswerSubscribers,
           NegotiateSubscribers, MediaAddedSubscribers, PropagateSubscribers
        DEF Next, Drain, EndOfPoll, Poll
-----------------------------------------------------------------------------
(* M-lines and maps                                                        *)

LEMMA LinesInit == Init => LinesAgree
BY DEF Init, LinesAgree, Numbered, Stopped, Mapped, Translated

\* A peer the step does not touch goes on agreeing with its client, whoever else
\* comes or goes.
LEMMA PeerKept ==
  ASSUME Inv, NEW p \in PeerIds, out'[p] = out[p], made'[p] = made[p], map'[p] = map[p],
         \A t \in Track : Known(t) => Known(t)' /\ (t.origin \in room' => t.origin \in room)
  PROVE  Numbered(p)' /\ Stopped(p)' /\ Mapped(p)'
<1>1. /\ \A i \in DOMAIN out[p] : out[p][i].track \in Track /\ Known(out[p][i].track)
      /\ \A m \in map[p] : m.track \in Track /\ Known(m.track)
  <2>1. \A i \in DOMAIN out[p] : out[p][i].track \in Track
    BY Domains DEF Inv, Base, TrackOut
  <2>2. \A m \in map[p] : m.track \in Track
    BY DEF Inv, Base, TypeOK
  <2>3. \A i \in DOMAIN out[p] : Known(out[p][i].track)
    BY DEF Inv, Subscribers, Subscriber
  <2>4. \A m \in map[p] : Known(m.track)
    BY DEF Inv, LinesAgree, Mapped
  <2> QED BY <2>1, <2>2, <2>3, <2>4
<1>2. Numbered(p) /\ Stopped(p) /\ Mapped(p)
  BY DEF Inv, LinesAgree
<1>3. Numbered(p)'
  BY <1>2 DEF Numbered
<1>4. Stopped(p)'
  BY <1>1, <1>2 DEF Stopped
<1>5. Mapped(p)'
  <2>1. \A m \in map[p] : Known(m.track)' /\ (m.track.origin \in room' => m.track.origin \in room)
    BY <1>1
  <2>2. \A i \in DOMAIN out[p] : out[p][i].track.origin \in room' => out[p][i].track.origin \in room
    BY <1>1
  <2> QED BY <1>2, <2>1, <2>2 DEF Mapped
<1> QED BY <1>3, <1>4, <1>5

LEMMA JoinLines == Inv /\ Join => LinesAgree'
<1> SUFFICES ASSUME Inv, Join
             PROVE  LinesAgree'
  OBVIOUS
<1> USE DEF Inv, Base
<1> DEFINE new == Subscriptions(Published)
<1>1. /\ nextPeer \in PeerIds /\ nextPeer \in Nat /\ room' = room \cup {nextPeer}
      /\ nextPeer' = nextPeer + 1 /\ tracksIn' = tracksIn /\ made' = made /\ map' = map
      /\ queue = <<>> /\ queue' = <<>> /\ out' = [out EXCEPT ![nextPeer] = new]
  BY ForwardingAssumption DEF Join, Tidy, PeerIds
<1>2. \A q \in room : q < nextPeer /\ q \in Nat
  BY ForwardingAssumption DEF TypeOK, PeerIds
<1>3. nextPeer \notin room
  BY <1>1, <1>2
<1>4. Published' = Published
  BY <1>1, <1>3 DEF Published, Tidy
<1>5. \A t \in Track : Known(t) => Known(t)' /\ (t.origin \in room' => t.origin \in room)
  BY <1>1, <1>4 DEF Known, Track, PeerIds
<1>6. out'[nextPeer] = new /\ \A q \in PeerIds \ {nextPeer} : out'[q] = out[q]
  BY <1>1 DEF TypeOK
<1>7. \A q \in PeerIds \ {nextPeer} : Numbered(q)' /\ Stopped(q)' /\ Mapped(q)'
  BY <1>1, <1>5, <1>6, PeerKept
<1>8. \A i \in DOMAIN new : new[i].state = "ToOpen" /\ new[i].line = 0
  BY Arrived
<1>9. map'[nextPeer] = {} /\ made'[nextPeer] \in Nat
  BY <1>1, <1>3 DEF Tidy, TypeOK
<1> HIDE DEF new
<1>10. \A q \in PeerIds : q = nextPeer => Numbered(q)' /\ Stopped(q)' /\ Mapped(q)'
  BY <1>6, <1>8, <1>9 DEF Numbered, Stopped, Mapped
<1>11. Translated'
  BY <1>1 DEF Translated
<1> QED BY <1>7, <1>10, <1>11 DEF LinesAgree

LEMMA GoneLines == ASSUME Inv, NEW p \in room, Gone(p) PROVE LinesAgree'
<1> USE DEF Inv, Base
<1>1. /\ p \in PeerIds /\ queue = <<>> /\ queue' = <<>> /\ room' = room \ {p}
      /\ nextPeer' = nextPeer /\ made' = made
  BY Seats DEF Gone, Tidy
<1>2. /\ out'[p] = <<>> /\ map'[p] = {}
      /\ \A q \in PeerIds \ {p} : /\ out'[q] = out[q] /\ map'[q] = map[q]
                                  /\ tracksIn'[q] = tracksIn[q]
  BY <1>1 DEF Gone, TypeOK
<1>3. Published' = {t \in Published : t.origin # p}
  BY <1>1, <1>2 DEF Published, Track
<1>4. \A t \in Track : Known(t) => Known(t)' /\ (t.origin \in room' => t.origin \in room)
  BY <1>1, <1>3 DEF Known
<1>5. \A q \in PeerIds \ {p} : Numbered(q)' /\ Stopped(q)' /\ Mapped(q)'
  BY <1>1, <1>2, <1>4, PeerKept
<1>6. Numbered(p)' /\ Stopped(p)' /\ Mapped(p)'
  BY <1>2 DEF Numbered, Stopped, Mapped
<1>7. Translated'
  BY <1>1 DEF Translated
<1> QED BY <1>5, <1>6, <1>7 DEF LinesAgree

LEMMA AnswerLines == ASSUME Inv, NEW p \in room, Answer(p) PROVE LinesAgree'
<1> USE DEF Inv, Base
<1>1. /\ p \in PeerIds /\ room' = room /\ nextPeer' = nextPeer /\ tracksIn' = tracksIn
      /\ queue = <<>> /\ queue' = queue /\ made' = made /\ map' = map
  BY Seats DEF Answer, peers, Tidy
<1>2. Published' = Published
  BY <1>1 DEF Published
<1>3. \A t : Known(t)' <=> Known(t)
  BY <1>1, <1>2 DEF Known
<1>4. PICK from \in [DOMAIN out'[p] -> Kept(p)] :
        /\ \A n \in DOMAIN out'[p] : out'[p][n] = Settled(out[p][from[n]])
        /\ \A m, n \in DOMAIN out'[p] : from[m] = from[n] => m = n
        /\ \A i \in Kept(p) : \E n \in DOMAIN out'[p] : from[n] = i
  BY <1>1, Answered
<1>5. Kept(p) \subseteq DOMAIN out[p]
  BY DEF Kept, InState
<1>6. \A i \in DOMAIN out[p] : /\ Settled(out[p][i]).track = out[p][i].track
                               /\ Settled(out[p][i]).line = out[p][i].line
                               /\ Settled(out[p][i]).state = IF out[p][i].state = "Negotiating"
                                                             THEN "Open" ELSE out[p][i].state
  BY <1>1, Domains, SettledEntry
<1>7. \A n \in DOMAIN out'[p] :
        /\ from[n] \in DOMAIN out[p] /\ from[n] \in Kept(p)
        /\ out'[p][n].track = out[p][from[n]].track /\ out'[p][n].line = out[p][from[n]].line
        /\ out'[p][n].state = IF out[p][from[n]].state = "Negotiating"
                              THEN "Open" ELSE out[p][from[n]].state
  BY <1>4, <1>5, <1>6
<1>8. Numbered(p) /\ Stopped(p) /\ Mapped(p)
  BY <1>1 DEF LinesAgree
<1>9. Numbered(p)'
  BY <1>1, <1>4, <1>7, <1>8 DEF Numbered
<1>10. Stopped(p)'
  BY <1>1, <1>7, <1>8 DEF Stopped
<1>11. Mapped(p)'
  <2>1. ASSUME NEW m \in map[p], m.track.origin \in room
        PROVE  \E n \in DOMAIN out'[p] : out'[p][n].track = m.track /\ out'[p][n].line = m.line
    <3>1. PICK i \in DOMAIN out[p] : out[p][i].track = m.track /\ out[p][i].line = m.line
      BY <1>8, <2>1 DEF Mapped
    <3>2. out[p][i].state # "NegotiatingStop"
      BY <1>8, <2>1, <3>1 DEF Stopped
    <3>3. out[p][i].state \in {"ToOpen", "Negotiating", "Open"}
      BY <1>1, <3>2, Domains DEF TrackOut
    <3>4. i \in Kept(p)
      BY <3>3 DEF Kept, InState
    <3> QED BY <1>4, <1>7, <3>1, <3>4
  <2>2. \A m \in map[p] : m.line <= made[p] /\ Known(m.track)'
    BY <1>3, <1>8 DEF Mapped
  <2>3. \A m \in map[p] : \A n \in DOMAIN out'[p] :
          out'[p][n].line = m.line => out'[p][n].track = m.track
    BY <1>7, <1>8 DEF Mapped
  <2>4. ASSUME NEW n \in DOMAIN out'[p], out'[p][n].state \in {"Negotiating", "Open"},
               out'[p][n].track.origin \in room
        PROVE  [line |-> out'[p][n].line, track |-> out'[p][n].track] \in map[p]
    <3>1. out[p][from[n]].state \in {"Negotiating", "Open"}
      BY <1>7, <2>4
    <3> QED BY <1>7, <1>8, <2>4, <3>1 DEF Mapped
  <2> QED BY <1>1, <2>1, <2>2, <2>3, <2>4 DEF Mapped
<1>12. \A q \in PeerIds \ {p} : out'[q] = out[q]
  BY <1>1, Answered
<1>13. \A q \in PeerIds \ {p} : Numbered(q)' /\ Stopped(q)' /\ Mapped(q)'
  BY <1>1, <1>3, <1>12, PeerKept
<1>14. Translated'
  BY <1>1 DEF Translated
<1> QED BY <1>9, <1>10, <1>11, <1>13, <1>14 DEF LinesAgree

LEMMA NegotiateLines == ASSUME Inv, NEW p \in room, Negotiate(p) PROVE LinesAgree'
<1> USE DEF Inv, Base
<1>1. /\ p \in PeerIds /\ room' = room /\ nextPeer' = nextPeer /\ tracksIn' = tracksIn
      /\ queue' = queue
      /\ made' = [made EXCEPT ![p] = @ + Cardinality(Opening(p))]
      /\ map' = [map EXCEPT ![p] = TrackMap(Offered(p))]
      /\ out' = [out EXCEPT ![p] = Offered(p)]
  BY Seats DEF Negotiate, peers
<1>2. /\ made[p] \in Nat /\ out'[p] = Offered(p) /\ map'[p] = TrackMap(Offered(p))
      /\ \A q \in PeerIds \ {p} : made'[q] = made[q] /\ map'[q] = map[q]
  BY <1>1 DEF TypeOK
<1>3. Published' = Published
  BY <1>1 DEF Published
<1>4. \A t : Known(t)' <=> Known(t)
  BY <1>1, <1>3 DEF Known
<1>5. /\ DOMAIN out'[p] = DOMAIN out[p]
      /\ \A q \in PeerIds \ {p} : out'[q] = out[q]
      /\ made'[p] = made[p] + Cardinality(Opening(p)) /\ Cardinality(Opening(p)) \in Nat
      /\ \A i \in Opening(p) : FreshLine(p, i) \in made[p] + 1 .. made'[p]
      /\ \A i, j \in Opening(p) : FreshLine(p, i) = FreshLine(p, j) => i = j
  BY <1>1, Negotiated
<1>6. \A i \in DOMAIN out[p] :
        /\ out'[p][i].track = out[p][i].track
        /\ i \in Opening(p) => /\ out'[p][i].state = "Negotiating"
                               /\ out'[p][i].line = FreshLine(p, i)
        /\ i \notin Opening(p) => out'[p][i].line = out[p][i].line
        /\ i \in Stopping(p) => out'[p][i].state = "NegotiatingStop"
        /\ i \notin Opening(p) \cup Stopping(p) => out'[p][i].state = out[p][i].state
  BY <1>1, Negotiated
<1>7. /\ \A i \in Opening(p) : out[p][i].state = "ToOpen" /\ out[p][i].track \in Published
      /\ \A i \in Stopping(p) : out[p][i].state = "Open" /\ out[p][i].track \notin Published
  BY <1>1, Negotiated
<1>8. Numbered(p) /\ Stopped(p)
  BY <1>1 DEF LinesAgree
<1>9. \A i \in DOMAIN out[p] : out[p][i].line \in Nat /\ Known(out[p][i].track)
  BY <1>1, Domains DEF TrackOut, Subscribers, Subscriber
<1>10. Numbered(p)'
  <2>1. \A i \in DOMAIN out[p] : out[p][i].line <= made[p]
    BY <1>8 DEF Numbered
  <2>2. \A i \in DOMAIN out'[p] : out'[p][i].line <= made'[p]
    BY <1>2, <1>5, <1>6, <1>9, <2>1
  <2>3. ASSUME NEW i \in DOMAIN out[p], NEW j \in DOMAIN out[p],
               out'[p][j].line = out'[p][i].line, out'[p][i].line # 0
        PROVE  j = i
    <3>1. CASE i \in Opening(p) /\ j \in Opening(p)
      BY <1>5, <1>6, <2>3, <3>1
    <3>2. CASE i \notin Opening(p) /\ j \notin Opening(p)
      BY <1>6, <1>8, <2>3, <3>2 DEF Numbered
    <3>3. CASE i \in Opening(p) /\ j \notin Opening(p)
      BY <1>2, <1>5, <1>6, <1>9, <2>1, <2>3, <3>3
    <3>4. CASE i \notin Opening(p) /\ j \in Opening(p)
      BY <1>2, <1>5, <1>6, <1>9, <2>1, <2>3, <3>4
    <3> QED BY <3>1, <3>2, <3>3, <3>4
  <2> QED BY <1>5, <2>2, <2>3 DEF Numbered
<1>11. Stopped(p)'
  <2> SUFFICES ASSUME NEW i \in DOMAIN out[p], out'[p][i].state = "NegotiatingStop"
               PROVE  out[p][i].track.origin \notin room
    BY <1>1, <1>5, <1>6 DEF Stopped
  <2>1. CASE i \in Stopping(p)
    BY <1>7, <1>9, <2>1 DEF Known
  <2>2. CASE i \notin Stopping(p)
    <3>1. out[p][i].state = "NegotiatingStop"
      BY <1>6, <2>2
    <3> QED BY <1>8, <3>1 DEF Stopped
  <2> QED BY <2>1, <2>2
<1>12. \A m : m \in map'[p] <=>
         \E i \in DOMAIN out'[p] : /\ m = [line |-> out'[p][i].line, track |-> out'[p][i].track]
                                   /\ out'[p][i].state \in {"Negotiating", "Open"}
                                   /\ out'[p][i].track \in Published
  BY <1>2 DEF TrackMap, ToSet
<1>13. ASSUME NEW i \in DOMAIN out'[p], out'[p][i].state \in {"Negotiating", "Open"}
       PROVE  out'[p][i].line # 0
  <2>1. CASE i \in Opening(p)
    BY <1>2, <1>5, <1>6, <2>1
  <2>2. CASE i \notin Opening(p)
    <3>1. out'[p][i].state # "NegotiatingStop"
      BY <1>13
    <3>2. out[p][i].state \in {"Negotiating", "Open"}
      BY <1>5, <1>6, <1>13, <2>2, <3>1
    <3> QED BY <1>1, <1>5, <1>6, <2>2, <3>2 DEF Tidy
  <2> QED BY <2>1, <2>2
<1>14. Mapped(p)'
  <2>1. ASSUME NEW m \in map'[p]
        PROVE  /\ m.line <= made'[p] /\ Known(m.track)
               /\ \A i \in DOMAIN out'[p] : out'[p][i].line = m.line => out'[p][i].track = m.track
               /\ \E i \in DOMAIN out'[p] : out'[p][i].track = m.track /\ out'[p][i].line = m.line
    <3>1. PICK i \in DOMAIN out'[p] : /\ m.line = out'[p][i].line /\ m.track = out'[p][i].track
                                      /\ out'[p][i].state \in {"Negotiating", "Open"}
      BY <1>12, <2>1
    <3>2. m.line # 0
      BY <1>13, <3>1
    <3>3. \A j \in DOMAIN out'[p] : out'[p][j].line = m.line => j = i
      BY <1>10, <3>1, <3>2 DEF Numbered
    <3>4. m.line <= made'[p]
      BY <1>10, <3>1 DEF Numbered
    <3>5. Known(m.track)
      BY <1>5, <1>6, <1>9, <3>1
    <3> QED BY <3>1, <3>3, <3>4, <3>5
  <2>2. ASSUME NEW i \in DOMAIN out'[p], out'[p][i].state \in {"Negotiating", "Open"},
               out'[p][i].track.origin \in room
        PROVE  [line |-> out'[p][i].line, track |-> out'[p][i].track] \in map'[p]
    <3>1. out'[p][i].track \in Published
      BY <1>5, <1>6, <1>9, <2>2 DEF Known
    <3> QED BY <1>12, <2>2, <3>1
  <2>3. \A t : Known(t) => Known(t)'
    BY <1>4
  <2> QED BY <1>1, <2>1, <2>2, <2>3 DEF Mapped
<1>15. \A q \in PeerIds \ {p} : Numbered(q)' /\ Stopped(q)' /\ Mapped(q)'
  BY <1>1, <1>2, <1>4, <1>5, PeerKept
<1>16. Translated'
  <2> SUFFICES ASSUME NEW k \in DOMAIN queue, queue[k].kind = "KeyframeRequest"
               PROVE  /\ queue[k].line # 0
                      /\ \E i \in DOMAIN out'[queue[k].source] :
                           /\ out'[queue[k].source][i].line = queue[k].line
                           /\ out'[queue[k].source][i].track = queue[k].track
    BY <1>1 DEF Translated
  <2> DEFINE s == queue[k].source
  <2>1. s \in PeerIds
    <3>1. queue[k] \in QueueEvent
      BY Events
    <3> QED BY <3>1, Seats DEF QueueEvent
  <2>2. queue[k].line # 0
    BY DEF LinesAgree, Translated
  <2>3. PICK i \in DOMAIN out[s] : out[s][i].line = queue[k].line /\ out[s][i].track = queue[k].track
    BY DEF LinesAgree, Translated
  <2>4. CASE s = p
    <3>1. i \notin Opening(p)
      BY <1>1, <1>7, <2>2, <2>3, <2>4 DEF Tidy
    <3> QED BY <1>5, <1>6, <2>2, <2>3, <2>4, <3>1
  <2>5. CASE s # p
    BY <1>5, <2>1, <2>2, <2>3, <2>5
  <2> QED BY <2>4, <2>5
<1> QED BY <1>10, <1>11, <1>14, <1>15, <1>16 DEF LinesAgree

\* Nothing is carried of a publisher before it has announced itself.
LEMMA MediaAddedLines == ASSUME Inv, NEW p \in room, MediaAdded(p) PROVE LinesAgree'
<1> USE DEF Inv, Base
<1> DEFINE E == Announcements(p)
<1>1. /\ p \in PeerIds /\ room' = room /\ nextPeer' = nextPeer /\ out' = out /\ made' = made
      /\ map' = map /\ tracksIn[p] = {} /\ queue' = queue \o E
  BY Seats DEF MediaAdded, Output, peers, subscriptions
<1>2. \A q \in PeerIds \ {p} : tracksIn'[q] = tracksIn[q]
  BY <1>1 DEF MediaAdded, TypeOK
<1>3. Published \subseteq Published'
  BY <1>1, <1>2 DEF Published, Track
<1>4. \A t \in Track : Known(t) => Known(t)' /\ (t.origin \in room' => t.origin \in room)
  BY <1>1, <1>3 DEF Known
<1>5. \A q \in PeerIds : Numbered(q)' /\ Stopped(q)' /\ Mapped(q)'
  BY <1>1, <1>4, PeerKept
<1>6. /\ E \in Seq(QueueEvent)
      /\ \A i \in DOMAIN E : E[i].kind = "TrackOpen"
  BY <1>1, AnnouncedInTurn
<1> HIDE DEF E
<1>7. \A k \in DOMAIN queue' : queue'[k].kind = "KeyframeRequest" =>
        k \in DOMAIN queue /\ queue'[k] = queue[k]
  BY <1>1, <1>6, Produced
<1>8. Translated'
  <2>1. out' = out /\ Translated
    BY <1>1 DEF LinesAgree
  <2> QED BY <1>7, <2>1 DEF Translated
<1> QED BY <1>5, <1>8 DEF LinesAgree

LEMMA OneMoreLines ==
  ASSUME Inv, NEW p \in room, NEW e \in QueueEvent, Output(p, <<e>>), UNCHANGED tracksIn,
         e.kind = "KeyframeRequest" =>
           /\ e.line # 0
           /\ \E i \in DOMAIN out[e.source] : /\ out[e.source][i].line = e.line
                                              /\ out[e.source][i].track = e.track
  PROVE  LinesAgree'
<1> USE DEF Inv, Base
<1>1. /\ room' = room /\ nextPeer' = nextPeer /\ out' = out /\ tracksIn' = tracksIn
      /\ made' = made /\ map' = map /\ queue' = queue \o <<e>>
  BY DEF Output, peers, subscriptions
<1>2. \A t : Known(t)' <=> Known(t)
  BY <1>1 DEF Known, Published
<1>3. \A q \in PeerIds : Numbered(q)' /\ Stopped(q)' /\ Mapped(q)'
  BY <1>1, <1>2, PeerKept
<1>4. \A k \in DOMAIN queue' : (k \in DOMAIN queue /\ queue'[k] = queue[k]) \/ queue'[k] = e
  BY <1>1, ProducedOne
<1>5. Translated'
  <2> SUFFICES ASSUME NEW k \in DOMAIN queue', queue'[k].kind = "KeyframeRequest"
               PROVE  /\ queue'[k].line # 0
                      /\ \E i \in DOMAIN out'[queue'[k].source] :
                           /\ out'[queue'[k].source][i].line = queue'[k].line
                           /\ out'[queue'[k].source][i].track = queue'[k].track
    BY DEF Translated
  <2>1. CASE k \in DOMAIN queue /\ queue'[k] = queue[k]
    <3>1. Translated /\ queue[k].kind = "KeyframeRequest"
      BY <2>1 DEF LinesAgree
    <3>2. /\ queue[k].line # 0
          /\ \E i \in DOMAIN out[queue[k].source] :
               /\ out[queue[k].source][i].line = queue[k].line
               /\ out[queue[k].source][i].track = queue[k].track
      BY <2>1, <3>1 DEF Translated
    <3> QED BY <1>1, <2>1, <3>2
  <2>2. CASE queue'[k] = e
    BY <1>1, <2>2
  <2> QED BY <1>4, <2>1, <2>2
<1> QED BY <1>3, <1>5 DEF LinesAgree

LEMMA PropagateLines == Inv /\ Propagate => LinesAgree'
<1> SUFFICES ASSUME Inv, Propagate
             PROVE  LinesAgree'
  OBVIOUS
<1> USE DEF Inv, Base
<1>1. /\ room' = room /\ nextPeer' = nextPeer /\ tracksIn' = tracksIn /\ made' = made /\ map' = map
  BY DEF Propagate, peers
<1>2. \A t : Known(t)' <=> Known(t)
  BY <1>1 DEF Known, Published
<1>3. \A p \in PeerIds : /\ Len(out[p]) \in Nat /\ DOMAIN out[p] = 1 .. Len(out[p])
                         /\ made[p] \in Nat
  BY Domains DEF TypeOK
<1>4. \A p \in PeerIds :
        /\ \A i \in DOMAIN out[p] : i \in DOMAIN out'[p] /\ out'[p][i] = out[p][i]
        /\ \A i \in DOMAIN out'[p] \ DOMAIN out[p] :
             out'[p][i].line = 0 /\ out'[p][i].state = "ToOpen"
  BY <1>3, HandedOn DEF Subscription
<1>5. ASSUME NEW p \in PeerIds
      PROVE  Numbered(p)' /\ Stopped(p)' /\ Mapped(p)'
  <2>1. Numbered(p) /\ Stopped(p) /\ Mapped(p)
    BY DEF LinesAgree
  <2>2. Numbered(p)'
    BY <1>1, <1>3, <1>4, <2>1 DEF Numbered
  <2>3. Stopped(p)'
    BY <1>1, <1>4, <2>1 DEF Stopped
  <2>4. \A m \in map[p] : m.line # 0
    BY DEF TypeOK
  <2>5. \A m \in map[p] : \A i \in DOMAIN out'[p] :
          out'[p][i].line = m.line => out'[p][i].track = m.track
    BY <1>4, <2>1, <2>4 DEF Mapped
  <2>6. \A m \in map[p] : m.line <= made[p] /\ Known(m.track)'
    BY <1>2, <2>1 DEF Mapped
  <2>7. \A m \in map[p] : m.track.origin \in room =>
          \E i \in DOMAIN out'[p] : out'[p][i].track = m.track /\ out'[p][i].line = m.line
    BY <1>4, <2>1 DEF Mapped
  <2>8. \A i \in DOMAIN out'[p] :
          out'[p][i].state \in {"Negotiating", "Open"} /\ out'[p][i].track.origin \in room
            => [line |-> out'[p][i].line, track |-> out'[p][i].track] \in map[p]
    BY <1>4, <2>1 DEF Mapped
  <2>9. Mapped(p)'
    BY <1>1, <2>5, <2>6, <2>7, <2>8 DEF Mapped
  <2> QED BY <2>2, <2>3, <2>9
<1>6. \A k \in DOMAIN queue' : k + 1 \in DOMAIN queue /\ queue'[k] = queue[k + 1]
  BY HandedOn
<1>7. \A k \in DOMAIN queue : queue[k].source \in PeerIds
  BY Events, Seats DEF QueueEvent
<1>8. \A k \in DOMAIN queue : queue[k].kind = "KeyframeRequest" =>
        /\ queue[k].line # 0
        /\ \E i \in DOMAIN out[queue[k].source] :
             /\ out[queue[k].source][i].line = queue[k].line
             /\ out[queue[k].source][i].track = queue[k].track
  BY DEF LinesAgree, Translated
<1>9. \A k \in DOMAIN queue : queue[k].kind = "KeyframeRequest" =>
        /\ queue[k].line # 0
        /\ \E i \in DOMAIN out'[queue[k].source] :
             /\ out'[queue[k].source][i].line = queue[k].line
             /\ out'[queue[k].source][i].track = queue[k].track
  BY <1>4, <1>7, <1>8
<1>10. Translated'
  BY <1>6, <1>9 DEF Translated
<1> QED BY <1>5, <1>10 DEF LinesAgree

\* Nothing else touches a subscription, a map or the queue.
LEMMA LinesSame ==
  LinesAgree /\ UNCHANGED <<room, nextPeer, tracksIn, out, made, map, queue>> => LinesAgree'
BY DEF LinesAgree, Numbered, Stopped, Mapped, Translated, Known, Published

LEMMA LinesStep == Inv /\ [Next]_vars => LinesAgree'
<1> SUFFICES ASSUME Inv, [Next]_vars
             PROVE  LinesAgree'
  OBVIOUS
<1>1. ASSUME NEW p \in room, MediaData(p)
      PROVE  LinesAgree'
  <2>1. PICK e \in QueueEvent : Output(p, <<e>>) /\ UNCHANGED tracksIn /\ e.kind = "Media"
    BY <1>1, PacketEvent DEF Inv, Base
  <2> QED BY <2>1, OneMoreLines
<1>2. ASSUME NEW p \in room, KeyframeRequest(p)
      PROVE  LinesAgree'
  <2>1. PICK e \in QueueEvent :
          /\ Output(p, <<e>>) /\ UNCHANGED tracksIn /\ e.source = p /\ e.line # 0
          /\ \E i \in DOMAIN out[p] : out[p][i].line = e.line /\ out[p][i].track = e.track
    BY <1>2, RequestEvent DEF Inv
  <2> QED BY <2>1, OneMoreLines
<1>3. CASE DrainDone \/ PollDone \/ PropagateDone \/ TurnDone \/ UNCHANGED vars
  BY <1>3, LinesSame
     DEF Inv, DrainDone, PollDone, PropagateDone, TurnDone, vars, peers, subscriptions
<1>4. ASSUME NEW p \in room, PeerPolled(p)
      PROVE  LinesAgree'
  BY <1>4, LinesSame DEF Inv, PeerPolled, peers, subscriptions
<1> QED BY <1>1, <1>2, <1>3, <1>4, JoinLines, GoneLines, AnswerLines, NegotiateLines,
           MediaAddedLines, PropagateLines
        DEF Next, Drain, EndOfPoll, Poll

\* Every behaviour keeps all of the invariant: what is below is read off it.
THEOREM Invariance == Spec => []Inv
<1>1. Init => Inv
  BY BaseInit, SubscribersInit, LinesInit DEF Inv
<1>2. Inv /\ [Next]_vars => Inv'
  <2> SUFFICES ASSUME Inv, [Next]_vars
               PROVE  Inv'
    OBVIOUS
  <2>1. Base'
    BY BaseStep DEF Inv
  <2> QED BY <2>1, SubscribersStep, LinesStep DEF Inv
<1> QED BY <1>1, <1>2, PTL DEF Spec
-----------------------------------------------------------------------------
(* What follows from it                                                    *)

LEMMA OneEntry ==
  ASSUME Inv, NEW p \in PeerIds, NEW t \in Track
  PROVE  Cardinality(Entries(p, t)) <= 1
<1>1. \A i, j \in Entries(p, t) : i = j
  BY DEF Inv, Subscribers, Subscriber, Entries
<1>2. CASE Entries(p, t) = {}
  BY <1>2, FS_EmptySet
<1>3. CASE Entries(p, t) # {}
  <2>1. PICK i : i \in Entries(p, t)
    BY <1>3
  <2>2. Entries(p, t) = {i}
    BY <1>1, <2>1
  <2>3. Cardinality({i}) = 1
    BY FS_Singleton
  <2> QED BY <2>2, <2>3
<1> QED BY <1>2, <1>3

\* Everybody is subscribed once to each track of everybody else, and stays so
\* until its publisher goes; no track is announced and missed, or counted twice.
THEOREM SubscriptionsHold == Spec => []SubscribedOnce
<1>1. Inv => SubscribedOnce
  <2> SUFFICES ASSUME Inv, NEW p \in room, NEW t \in Track
               PROVE  /\ Cardinality(Entries(p, t)) <= 1
                      /\ t.origin = p => Entries(p, t) = {}
                      /\ t \in Published /\ t.origin # p => (Entries(p, t) = {}) = Announced(t)
    BY DEF SubscribedOnce
  <2>1. p \in PeerIds
    BY Seats DEF Inv, Base
  <2>2. Cardinality(Entries(p, t)) <= 1
    BY <2>1, OneEntry
  <2>3. t.origin = p => Entries(p, t) = {}
    BY <2>1 DEF Inv, Subscribers, Subscriber, Entries
  <2>4. Announced(t) => Entries(p, t) = {}
    BY <2>1 DEF Inv, Subscribers, Subscriber, Entries
  <2>5. t \in Published /\ t.origin # p /\ ~Announced(t) => Entries(p, t) # {}
    BY DEF Inv, Subscribers, Complete, Entries
  <2>6. Announced(t) \in BOOLEAN
    BY DEF Announced
  <2> QED BY <2>2, <2>3, <2>4, <2>5, <2>6
<1> QED BY <1>1, Invariance, PTL

\* What a packet is written to, by the map of the peer that hears it.
LEMMA WrittenAsMapped ==
  ASSUME Inv, NEW p \in PeerIds, NEW t \in Published
  PROVE  ForwardLine(p, t) = {line \in lines[p] : [line |-> line, track |-> t] \in map[p]}
<1> USE DEF Inv, Base
<1>1. Matching(p, t) = {i \in DOMAIN out[p] : out[p][i].track = t}
  BY DEF Matching, Matches
<1>2. t.origin \in room
  BY DEF Published
<1>3. ASSUME NEW line \in ForwardLine(p, t)
      PROVE  line \in lines[p] /\ [line |-> line, track |-> t] \in map[p]
  <2>1. PICK i \in Matching(p, t) : out[p][i].line = line
    BY DEF ForwardLine
  <2>2. line \in lines[p] /\ line # 0
    BY DEF ForwardLine, TypeOK
  <2>3. i \in DOMAIN out[p] /\ out[p][i].track = t
    BY <1>1, <2>1
  <2>4. out[p][i].state # "ToOpen"
    BY <2>1, <2>2, <2>3 DEF Tidy
  <2>5. out[p][i].state # "NegotiatingStop"
    BY <1>2, <2>3 DEF LinesAgree, Stopped
  <2>6. out[p][i].state \in {"Negotiating", "Open"}
    BY <2>3, <2>4, <2>5, Domains DEF TrackOut
  <2>7. [line |-> out[p][i].line, track |-> out[p][i].track] \in map[p]
    BY <1>2, <2>3, <2>6 DEF LinesAgree, Mapped
  <2> QED BY <2>1, <2>2, <2>3, <2>7
<1>4. ASSUME NEW line \in lines[p], [line |-> line, track |-> t] \in map[p]
      PROVE  line \in ForwardLine(p, t)
  <2>1. PICK i \in DOMAIN out[p] : out[p][i].track = t /\ out[p][i].line = line
    BY <1>2, <1>4 DEF LinesAgree, Mapped
  <2>2. \A j \in DOMAIN out[p] : out[p][j].track = t => j = i
    BY <2>1 DEF Subscribers, Subscriber
  <2>3. i \in Nat
    BY <2>1, Domains
  <2>4. i \in {k \in Matching(p, t) : \A j \in Matching(p, t) : k <= j}
    BY <1>1, <2>1, <2>2, <2>3
  <2> QED BY <2>1, <2>4 DEF ForwardLine
<1> QED BY <1>3, <1>4 DEF ForwardLine

\* A packet is written to the m-lines its subscribers' own maps give to its
\* track, to no other, and to nothing of the peer that sent it.
THEOREM HeardFromTheirTracks == Spec => []HeardAsSent
<1>1. Init => HeardAsSent
  BY DEF Init, Nothing, HeardAsSent
<1>2. Inv /\ HeardAsSent /\ [Next]_vars => HeardAsSent'
  <2> SUFFICES ASSUME Inv, HeardAsSent, [Next]_vars
               PROVE  HeardAsSent'
    OBVIOUS
  <2>1. CASE wrote' = Nothing
    BY <2>1 DEF HeardAsSent, Nothing
  <2>2. CASE UNCHANGED vars
    BY <2>2 DEF HeardAsSent, vars, peers, subscriptions, effects
  <2>3. ASSUME Propagate, Head(queue).kind = "Media"
        PROVE  HeardAsSent'
    <3> DEFINE e == Head(queue)
    <3>1. e.track \in Published /\ e.source = e.track.origin
      BY <2>3, HandedOn DEF Inv, Base, Subscribers, Queued
    <3>2. /\ room' = room /\ lines' = lines /\ map' = map
          /\ wrote' = [track |-> {e.track},
                       to |-> [p \in Others(e) |-> ForwardLine(p, e.track)]]
      BY <2>3 DEF Propagate, Forwarded, peers
    <3>3. Others(e) = room \ {e.track.origin}
      BY <3>1 DEF Others
    <3> HIDE DEF e
    <3>4. \A p \in room : ForwardLine(p, e.track)
                            = {line \in lines[p] : [line |-> line, track |-> e.track] \in map[p]}
      BY <3>1, WrittenAsMapped, Seats DEF Inv, Base
    <3>5. wrote'.to = [p \in room \ {e.track.origin} |->
                         {line \in lines[p] : [line |-> line, track |-> e.track] \in map[p]}]
      BY <3>2, <3>3, <3>4
    <3> QED BY <3>2, <3>5 DEF HeardAsSent
  <2>4. CASE Propagate
    BY <2>1, <2>3, <2>4 DEF Propagate, Forwarded
  <2>5. CASE Poll
    <3>1. \A p \in room : MediaData(p) => wrote' = Nothing
      BY DEF MediaData
    <3> QED BY <2>1, <2>5, <3>1 DEF Poll, MediaAdded, KeyframeRequest, NoEffect
  <2> QED BY <2>1, <2>2, <2>4, <2>5 DEF Next, NoEffect
<1> QED BY <1>1, <1>2, Invariance, PTL DEF Spec

\* A request for a keyframe asks the encoder of the track its m-line carries.
THEOREM RequestsReachPublishers == Spec => RequestsReachEncoder
<1>1. Inv /\ [Next]_vars =>
        [RequestServed => \A m \in map[Head(queue).source] :
           m.line = Head(queue).line => asked' = {m.track}]_vars
  <2> SUFFICES ASSUME Inv, Next, RequestServed, NEW m \in map[Head(queue).source],
                      m.line = Head(queue).line
               PROVE  asked' = {m.track}
    OBVIOUS
  <2> USE DEF Inv, Base
  <2> DEFINE e == Head(queue)
  <2>1. Propagate
    BY DEF RequestServed, Next, Drain, Poll, EndOfPoll, Join, DrainDone, Answer, Gone, PollDone,
           PropagateDone, TurnDone, Negotiate, PeerPolled, MediaAdded, MediaData, KeyframeRequest,
           Output, Polled
  <2>2. e \in QueueEvent /\ e = queue[1] /\ 1 \in DOMAIN queue /\ e.kind = "KeyframeRequest"
    BY <2>1, HandedOn DEF RequestServed
  <2>3. e.source \in PeerIds /\ e.track \in Published
    BY <2>2, Seats DEF Subscribers, Queued, QueueEvent
  <2>4. PICK i \in DOMAIN out[e.source] :
          out[e.source][i].line = e.line /\ out[e.source][i].track = e.track
    BY <2>2 DEF LinesAgree, Translated
  <2>5. e.track.origin # e.source
    BY <2>3, <2>4 DEF Subscribers, Subscriber
  <2>6. m.track = e.track
    BY <2>3, <2>4 DEF LinesAgree, Mapped
  <2>7. e.track.origin \in room
    BY <2>3 DEF Published
  <2>8. asked' = Served(e)
    BY <2>1 DEF Propagate
  <2> HIDE DEF e
  <2>9. Served(e) = {e.track}
    BY <2>2, <2>3, <2>5, <2>7 DEF Served, Encoder, Others
  <2> QED BY <2>6, <2>8, <2>9
<1> QED BY <1>1, Invariance, PTL DEF Spec, RequestsReachEncoder

-----------------------------------------------------------------------------
(* Every subscription lives as promised                                    *)

LEMMA OnlyEntry ==
  ASSUME NEW q, NEW i \in DOMAIN q,
         \A j \in DOMAIN q : q[j].track = q[i].track => j = i
  PROVE  EntryState(q, q[i].track) = q[i].state
BY DEF EntryState

LEMMA NoEntry ==
  ASSUME NEW q, NEW t, \A i \in DOMAIN q : q[i].track # t
  PROVE  EntryState(q, t) = "none"
BY DEF EntryState

\* A subscriber's entries are where the abstract subscriptions are.
Unique(q) == \A i, j \in DOMAIN q : q[i].track = q[j].track => i = j

LEMMA EntriesUnique ==
  ASSUME Inv, NEW p \in PeerIds
  PROVE  /\ Unique(out[p])
         /\ \A i \in DOMAIN out[p] : /\ out[p][i] \in TrackOut
                                     /\ out[p][i].track \in TracksOf(p)
<1>1. \A i \in DOMAIN out[p] : out[p][i] \in TrackOut
  BY Domains DEF Inv, Base
<1>2. Subscriber(p)
  BY DEF Inv, Subscribers
<1> QED BY <1>1, <1>2 DEF Subscriber, Unique, TracksOf, TrackOut

LEMMA EntryOf ==
  ASSUME NEW q, Unique(q), NEW t
  PROVE  \/ EntryState(q, t) = "none" /\ \A i \in DOMAIN q : q[i].track # t
         \/ \E i \in DOMAIN q : q[i].track = t /\ EntryState(q, t) = q[i].state
<1>1. CASE \A i \in DOMAIN q : q[i].track # t
  BY <1>1, NoEntry
<1>2. CASE \E i \in DOMAIN q : q[i].track = t
  BY <1>2, OnlyEntry DEF Unique
<1> QED BY <1>1, <1>2

\* Steps that a subscriber, its tracks and its entries do not notice.
Unnoticed(p) == /\ out'[p] = out[p] /\ pending'[p] = pending[p]
                /\ UNCHANGED <<room, nextPeer, tracksIn>>

LEMMA SameRoom ==
  ASSUME UNCHANGED <<room, nextPeer, tracksIn>>
  PROVE  /\ Published' = Published
         /\ \A p : PeerState(p)' = PeerState(p)
         /\ \A t : TrackState(t)' = TrackState(t)
BY DEF Published, PeerState, TrackState

LEMMA UnnoticedLife ==
  ASSUME NEW p \in PeerIds, Unnoticed(p)
  PROVE  UNCHANGED Life(p)!vars
BY SameRoom DEF Unnoticed, Life!vars

LEMMA LifeInit == ASSUME Init, NEW p \in PeerIds PROVE Life(p)!Init
<1>1. room = {} /\ nextPeer = 1 /\ out[p] = <<>> /\ pending[p] = FALSE /\ Published = {}
  BY DEF Init, Published
<1>2. \A q \in PeerIds : PeerState(q) = "new"
  BY <1>1 DEF PeerState, PeerIds
<1>3. \A t \in TracksOf(p) : TrackState(t) = "unborn"
  BY <1>1, <1>2 DEF TracksOf, Track, TrackState
<1>4. \A t \in TracksOf(p) : EntryState(out[p], t) = "none"
  BY <1>1, NoEntry
<1> QED BY <1>1, <1>2, <1>3, <1>4 DEF Life!Init

\* In the room, and known by the abstract subscription.
LEMMA PeerStates ==
  ASSUME TypeOK
  PROVE  /\ \A q \in room : PeerState(q) = "in" /\ q < nextPeer
         /\ \A q : PeerState(q) = "in" => q \in room
         /\ \A q : PeerState(q) \in {"new", "in", "out"}
         /\ \A t : TrackState(t) = "published" <=> t \in Published
         /\ \A t : t.origin \in room => TrackState(t) # "gone"
BY DEF TypeOK, PeerState, TrackState

LEMMA LifeView ==
  ASSUME TypeOK, NEW p \in PeerIds
  PROVE  /\ Life(p)!Published = Published \cap TracksOf(p)
         /\ \A s : Life(p)!In(s) = {t \in TracksOf(p) : EntryState(out[p], t) = s}
BY PeerStates DEF Life!Published, Life!In, Published, TracksOf

\* Tracks that turn out to be published.
LEMMA MediaAddedLife ==
  ASSUME Inv, NEW p \in PeerIds, NEW q \in room, MediaAdded(q)
  PROVE  \E S \in SUBSET TracksOf(p) : Life(p)!Turn(FALSE, S, {})
<1> DEFINE S == {t \in TracksOf(p) : t.origin = q}
<1>1. /\ TypeOK /\ q \in PeerIds /\ tracksIn[q] = {}
      /\ tracksIn' = [tracksIn EXCEPT ![q] = Mids] /\ tracksIn \in [PeerIds -> SUBSET Mids]
      /\ UNCHANGED <<room, nextPeer, out, pending>>
  BY Seats DEF Inv, Base, MediaAdded, Output, peers, subscriptions, TypeOK
<1>2. \A t \in Track : t \in Published' <=> (t \in Published \/ t.origin = q)
  BY <1>1 DEF Published, Track
<1>3. \A t \in Track : t.origin = q => t \notin Published
  BY <1>1 DEF Published
<1>4. PeerState(q) = "in" /\ \A r : PeerState(r)' = PeerState(r)
  BY <1>1, PeerStates DEF PeerState
<1>5. \A t \in TracksOf(p) :
        /\ TrackState(t)' = IF t \in S THEN "published" ELSE TrackState(t)
        /\ t \in S => TrackState(t) = "unborn"
  BY <1>2, <1>3, <1>4 DEF TrackState, TracksOf
<1> HIDE DEF S
<1>6. S \in SUBSET TracksOf(p)
  BY DEF S
<1>7. Life(p)!Turn(FALSE, S, {})
  BY <1>1, <1>4, <1>5, <1>6 DEF Life!Turn, TypeOK
<1> QED BY <1>6, <1>7

\* What is offered, to open and to stop.
LEMMA NegotiateLife ==
  ASSUME Inv, Inv', NEW p \in room, Negotiate(p)
  PROVE  Life(p)!Turn(TRUE, {}, {})
<1>0. /\ TypeOK /\ p \in PeerIds /\ Unique(out[p]) /\ PeerState(p) = "in"
      /\ \A i \in DOMAIN out[p] : out[p][i].track \in TracksOf(p)
  BY Seats, EntriesUnique, PeerStates DEF Inv, Base
<1>1. /\ DOMAIN out'[p] = DOMAIN out[p]
      /\ \A i \in DOMAIN out[p] :
           /\ out'[p][i].track = out[p][i].track
           /\ i \in Opening(p) => out'[p][i].state = "Negotiating"
           /\ i \in Stopping(p) => out'[p][i].state = "NegotiatingStop"
           /\ i \notin Opening(p) \cup Stopping(p) => out'[p][i].state = out[p][i].state
  BY <1>0, Negotiated
<1>2. /\ ~pending[p] /\ Opening(p) \cup Stopping(p) # {} /\ pending'[p] = TRUE
      /\ UNCHANGED <<room, nextPeer, tracksIn>>
  BY <1>0 DEF Negotiate, Offering, peers, TypeOK
<1>3. Unique(out'[p])
  BY <1>0, <1>1 DEF Unique
<1>4. \A i \in DOMAIN out[p] :
        /\ i \in Opening(p) <=> out[p][i].state = "ToOpen" /\ out[p][i].track \in Published
        /\ i \in Stopping(p) <=> out[p][i].state = "Open" /\ out[p][i].track \notin Published
  BY DEF Opening, Stopping, InState
<1>5. \A i \in DOMAIN out[p] :
        /\ out[p][i].track \in Life(p)!Opening <=> i \in Opening(p)
        /\ out[p][i].track \in Life(p)!Stopping <=> i \in Stopping(p)
  <2>1. \A i \in DOMAIN out[p] : EntryState(out[p], out[p][i].track) = out[p][i].state
    BY <1>0, OnlyEntry DEF Unique
  <2> QED BY <1>0, <1>4, <2>1, LifeView DEF Life!Opening, Life!Stopping
<1>6. ASSUME NEW t \in TracksOf(p)
      PROVE  EntryState(out'[p], t) = Life(p)!Taken[t]
  <2>1. CASE \A i \in DOMAIN out[p] : out[p][i].track # t
    <3>1. EntryState(out'[p], t) = "none" /\ EntryState(out[p], t) = "none"
      BY <1>1, <2>1, NoEntry
    <3>2. t \notin Life(p)!Opening \cup Life(p)!Stopping
      BY <1>0, <3>1, LifeView DEF Life!Opening, Life!Stopping
    <3> QED BY <3>1, <3>2 DEF Life!Taken
  <2>2. CASE \E i \in DOMAIN out[p] : out[p][i].track = t
    <3>1. PICK i \in DOMAIN out[p] : out[p][i].track = t
      BY <2>2
    <3>2. EntryState(out[p], t) = out[p][i].state /\ EntryState(out'[p], t) = out'[p][i].state
      <4>1. i \in DOMAIN out'[p] /\ out'[p][i].track = t
        BY <1>1, <3>1
      <4> QED BY <1>0, <1>3, <3>1, <4>1, OnlyEntry DEF Unique
    <3>3. /\ t \in Life(p)!Opening <=> i \in Opening(p)
          /\ t \in Life(p)!Stopping <=> i \in Stopping(p)
      BY <1>5, <3>1
    <3> QED BY <1>1, <3>1, <3>2, <3>3 DEF Life!Taken
  <2> QED BY <2>1, <2>2
<1>7. Life(p)!Opening \cup Life(p)!Stopping # {}
  <2>1. Opening(p) \subseteq DOMAIN out[p] /\ Stopping(p) \subseteq DOMAIN out[p]
    BY DEF Opening, Stopping, InState
  <2> QED BY <1>2, <1>5, <2>1
<1>8. /\ \A r : PeerState(r)' = PeerState(r)
      /\ \A t : TrackState(t)' = TrackState(t)
  BY <1>2, SameRoom
<1> QED BY <1>0, <1>2, <1>6, <1>7, <1>8 DEF Life!Turn

\* An accepted answer opens and drops, whatever places the rest move to.
LEMMA AnswerLife ==
  ASSUME Inv, Inv', NEW p \in room, Answer(p)
  PROVE  Life(p)!Accept
<1>0. TypeOK /\ p \in PeerIds /\ Unique(out[p])
  BY Seats, EntriesUnique DEF Inv, Base
<1>1. pending[p] /\ pending'[p] = FALSE /\ UNCHANGED <<room, nextPeer, tracksIn>>
  BY <1>0 DEF Answer, peers, TypeOK
<1>2. PICK from \in [DOMAIN out'[p] -> Kept(p)] :
        /\ \A n \in DOMAIN out'[p] : out'[p][n] = Settled(out[p][from[n]])
        /\ \A m, n \in DOMAIN out'[p] : from[m] = from[n] => m = n
        /\ \A i \in Kept(p) : \E n \in DOMAIN out'[p] : from[n] = i
  BY <1>0, Answered
<1>3. \A i \in DOMAIN out[p] : i \in Kept(p) <=> out[p][i].state # "NegotiatingStop"
  BY <1>0, Domains DEF Kept, InState, TrackOut
<1>4. Kept(p) \subseteq DOMAIN out[p]
  BY DEF Kept, InState
<1>5. \A i \in DOMAIN out[p] :
        /\ Settled(out[p][i]).track = out[p][i].track
        /\ Settled(out[p][i]).state = IF out[p][i].state = "Negotiating" THEN "Open"
                                      ELSE out[p][i].state
  BY <1>0, Domains, SettledEntry
<1>6. \A n \in DOMAIN out'[p] : from[n] \in DOMAIN out[p] /\ out'[p][n].track = out[p][from[n]].track
  BY <1>2, <1>4, <1>5
<1>7. Unique(out'[p])
  BY <1>0, <1>2, <1>6 DEF Unique
<1>8. ASSUME NEW t \in TracksOf(p)
      PROVE  EntryState(out'[p], t) = CASE EntryState(out[p], t) = "Negotiating" -> "Open"
                                        [] EntryState(out[p], t) = "NegotiatingStop" -> "none"
                                        [] OTHER -> EntryState(out[p], t)
  <2>1. CASE \A i \in DOMAIN out[p] : out[p][i].track # t
    <3>1. EntryState(out'[p], t) = "none" /\ EntryState(out[p], t) = "none"
      BY <1>6, <2>1, NoEntry
    <3> QED BY <3>1
  <2>2. CASE \E i \in DOMAIN out[p] : out[p][i].track = t /\ i \notin Kept(p)
    <3>1. PICK i \in DOMAIN out[p] : out[p][i].track = t /\ i \notin Kept(p)
      BY <2>2
    <3>2. EntryState(out[p], t) = "NegotiatingStop"
      BY <1>0, <1>3, <3>1, OnlyEntry DEF Unique
    <3>3. \A n \in DOMAIN out'[p] : out'[p][n].track # t
      BY <1>0, <1>2, <1>6, <3>1 DEF Unique
    <3>4. EntryState(out'[p], t) = "none"
      BY <3>3, NoEntry
    <3> QED BY <3>2, <3>4
  <2>3. CASE \E i \in Kept(p) : out[p][i].track = t
    <3>1. PICK i \in Kept(p) : out[p][i].track = t
      BY <2>3
    <3>2. PICK n \in DOMAIN out'[p] : from[n] = i
      BY <1>2, <3>1
    <3>3. /\ i \in DOMAIN out[p] /\ out'[p][n].track = t
          /\ out'[p][n].state = IF out[p][i].state = "Negotiating" THEN "Open"
                                ELSE out[p][i].state
      BY <1>2, <1>4, <1>5, <3>1, <3>2
    <3>4. EntryState(out[p], t) = out[p][i].state /\ EntryState(out'[p], t) = out'[p][n].state
      BY <1>0, <1>7, <3>1, <3>2, <3>3, OnlyEntry DEF Unique
    <3>5. out[p][i].state # "NegotiatingStop"
      BY <1>3, <3>1, <3>3
    <3> QED BY <3>3, <3>4, <3>5
  <2> QED BY <1>4, <2>1, <2>2, <2>3
<1>9. /\ \A r : PeerState(r)' = PeerState(r)
      /\ \A t : TrackState(t)' = TrackState(t)
  BY <1>1, SameRoom
<1> QED BY <1>1, <1>8, <1>9 DEF Life!Accept

\* What was published reaches a subscriber, if it is one of the others.
LEMMA PropagateLife ==
  ASSUME Inv, NEW p \in PeerIds, Propagate
  PROVE  (\E W \in SUBSET TracksOf(p) : Life(p)!Turn(FALSE, {}, W)) \/ Unnoticed(p)
<1> DEFINE e == Head(queue)
<1>0. TypeOK /\ Unique(out[p])
  BY EntriesUnique DEF Inv, Base
<1>1. UNCHANGED <<room, nextPeer, tracksIn, pending>>
  BY DEF Propagate, peers
<1>2. /\ e = queue[1] /\ 1 \in DOMAIN queue /\ e \in QueueEvent
      /\ IF e.kind = "TrackOpen" /\ p \in Others(e)
         THEN /\ DOMAIN out'[p] = 1 .. Len(out[p]) + 1
              /\ out'[p][Len(out[p]) + 1] = Subscription(e.track)
              /\ \A i \in DOMAIN out[p] : out'[p][i] = out[p][i]
         ELSE out'[p] = out[p]
  BY <1>0, HandedOn
<1> HIDE DEF e
<1>3. CASE ~(e.kind = "TrackOpen" /\ p \in Others(e))
  BY <1>1, <1>2, <1>3 DEF Unnoticed
<1>4. CASE e.kind = "TrackOpen" /\ p \in Others(e)
  <2>1. Queued /\ Subscriber(p)
    BY DEF Inv, Subscribers
  <2>2. /\ e.track \in Published /\ e.track.origin # p /\ p \in room
        /\ e.track \in TracksOf(p) /\ Announced(e.track)
    BY <1>2, <1>4, <2>1 DEF Queued, Others, TracksOf, Published, Announced
  <2>3. \A i \in DOMAIN out[p] : out[p][i].track # e.track
    BY <2>1, <2>2 DEF Subscriber
  <2>4. /\ Len(out[p]) \in Nat /\ DOMAIN out[p] = 1 .. Len(out[p])
        /\ Len(out[p]) + 1 \in DOMAIN out'[p]
        /\ \A i \in DOMAIN out'[p] : i = Len(out[p]) + 1 \/ i \in DOMAIN out[p]
    BY <1>0, <1>2, <1>4, Domains
  <2>5. Subscription(e.track).track = e.track /\ Subscription(e.track).state = "ToOpen"
    BY DEF Subscription
  <2>6. Unique(out'[p])
    <3> SUFFICES ASSUME NEW i \in DOMAIN out'[p], NEW j \in DOMAIN out'[p],
                        out'[p][i].track = out'[p][j].track
                 PROVE  i = j
      BY DEF Unique
    <3>1. /\ out'[p][Len(out[p]) + 1].track = e.track
          /\ \A n \in DOMAIN out[p] : out'[p][n] = out[p][n]
      BY <1>2, <1>4, <2>5
    <3>2. CASE i \in DOMAIN out[p] /\ j \in DOMAIN out[p]
      BY <1>0, <3>1, <3>2 DEF Unique
    <3>3. CASE i = Len(out[p]) + 1 /\ j \in DOMAIN out[p]
      BY <2>3, <3>1, <3>3
    <3>4. CASE i \in DOMAIN out[p] /\ j = Len(out[p]) + 1
      BY <2>3, <3>1, <3>4
    <3> QED BY <2>4, <3>2, <3>3, <3>4
  <2>7. EntryState(out[p], e.track) = "none" /\ EntryState(out'[p], e.track) = "ToOpen"
    <3>1. EntryState(out[p], e.track) = "none"
      BY <2>3, NoEntry
    <3>2. EntryState(out'[p], out'[p][Len(out[p]) + 1].track) = out'[p][Len(out[p]) + 1].state
      BY <2>4, <2>6, OnlyEntry DEF Unique
    <3> QED BY <1>2, <1>4, <2>5, <3>1, <3>2
  <2>8. ASSUME NEW t \in TracksOf(p), t # e.track
        PROVE  EntryState(out'[p], t) = EntryState(out[p], t)
    <3>1. CASE \A i \in DOMAIN out[p] : out[p][i].track # t
      <4>1. \A i \in DOMAIN out'[p] : out'[p][i].track # t
        BY <1>2, <1>4, <2>4, <2>5, <2>8, <3>1
      <4> QED BY <3>1, <4>1, NoEntry
    <3>2. CASE \E i \in DOMAIN out[p] : out[p][i].track = t
      <4>1. PICK i \in DOMAIN out[p] : out[p][i].track = t
        BY <3>2
      <4>2. i \in DOMAIN out'[p] /\ out'[p][i] = out[p][i]
        BY <1>2, <1>4, <2>4
      <4> QED BY <1>0, <2>6, <4>1, <4>2, OnlyEntry DEF Unique
    <3> QED BY <3>1, <3>2
  <2>9. /\ \A r : PeerState(r)' = PeerState(r)
        /\ \A t : TrackState(t)' = TrackState(t)
    BY <1>1, SameRoom
  <2>10. Life(p)!Turn(FALSE, {}, {e.track})
    <3>1. PeerState(p) = "in" /\ e.track \in Life(p)!Published /\ e.track \in Life(p)!In("none")
      BY <1>0, <2>2, <2>7, PeerStates, LifeView
    <3>2. pending'[p] = pending[p] /\ pending[p] \in BOOLEAN
      BY <1>0, <1>1 DEF TypeOK
    <3> QED BY <2>7, <2>8, <2>9, <3>1, <3>2 DEF Life!Turn
  <2> QED BY <2>2, <2>10
<1> QED BY <1>3, <1>4

\* A peer joins: itself a subscriber, to the rest a peer with nothing to hear yet.
LEMMA JoinLife ==
  ASSUME Inv, NEW p \in PeerIds, Join
  PROVE  Life(p)!Join \/ UNCHANGED Life(p)!vars
<1>0. /\ TypeOK /\ Tidy /\ nextPeer \in PeerIds /\ nextPeer \notin room /\ room \subseteq PeerIds
      /\ \A q \in room : q < nextPeer
      /\ room' = room \cup {nextPeer} /\ nextPeer' = nextPeer + 1
      /\ out' = [out EXCEPT ![nextPeer] = Subscriptions(Published)]
      /\ UNCHANGED <<tracksIn, pending>>
  <2>1. TypeOK /\ Tidy /\ room \subseteq PeerIds
    BY Seats DEF Inv, Base
  <2>2. \A q \in room : q < nextPeer
    BY <2>1, PeerStates
  <2>3. nextPeer \notin room
    BY <2>1, <2>2 DEF TypeOK
  <2> QED BY <2>1, <2>2, <2>3 DEF Join
<1>1. tracksIn[nextPeer] = {}
  BY <1>0 DEF Tidy
<1>2. Published' = Published
  BY <1>0, <1>1 DEF Published
<1>3. \A q \in PeerIds : PeerState(q)' = IF q = nextPeer THEN "in" ELSE PeerState(q)
  BY <1>0 DEF PeerState, PeerIds, TypeOK
<1>4. PeerState(nextPeer) = "new"
  BY <1>0 DEF PeerState, PeerIds
<1>5. \A t \in Track : TrackState(t)' = TrackState(t)
  BY <1>2, <1>3, <1>4 DEF TrackState, Track
<1>6. TracksOf(p) \subseteq Track
  BY DEF TracksOf
<1>7. CASE p # nextPeer
  <2>1. out'[p] = out[p]
    BY <1>0, <1>7 DEF TypeOK
  <2> QED BY <1>0, <1>3, <1>5, <1>6, <1>7, <2>1 DEF Life!vars
<1>8. CASE p = nextPeer
  <2> DEFINE new == Subscriptions(Published)
  <2>1. /\ out'[p] = new
        /\ \A i \in DOMAIN new : new[i].state = "ToOpen" /\ new[i].track \in Published
        /\ \A i, j \in DOMAIN new : new[i].track = new[j].track => i = j
        /\ \A t \in Published : \E i \in DOMAIN new : new[i].track = t
    BY <1>0, <1>8, Arrived DEF TypeOK
  <2> HIDE DEF new
  <2>2. \A t \in TracksOf(p) : EntryState(out'[p], t) = IF t \in Published THEN "ToOpen" ELSE "none"
    <3>1. ASSUME NEW t \in Published PROVE EntryState(new, t) = "ToOpen"
      <4>1. PICK i \in DOMAIN new : new[i].track = t
        BY <2>1
      <4> QED BY <2>1, <4>1, OnlyEntry
    <3>2. ASSUME NEW t, t \notin Published PROVE EntryState(new, t) = "none"
      <4>1. \A i \in DOMAIN new : new[i].track # t
        BY <2>1, <3>2
      <4> QED BY <4>1, NoEntry
    <3> QED BY <2>1, <3>1, <3>2
  <2>3. Life(p)!Published = Published \cap TracksOf(p)
    BY <1>0, LifeView
  <2> QED BY <1>0, <1>3, <1>4, <1>5, <1>6, <1>8, <2>2, <2>3 DEF Life!Join
<1> QED BY <1>7, <1>8

\* A peer goes: itself a subscriber, to the rest a publisher.
LEMMA GoneLife ==
  ASSUME Inv, NEW p \in PeerIds, NEW q \in room, Gone(q)
  PROVE  Life(p)!Leave \/ \E S \in SUBSET TracksOf(p) : Life(p)!Depart(S)
<1>0. /\ TypeOK /\ q \in PeerIds /\ q < nextPeer /\ PeerState(q) = "in"
      /\ room' = room \ {q} /\ UNCHANGED nextPeer
      /\ tracksIn' = [tracksIn EXCEPT ![q] = {}]
      /\ out' = [out EXCEPT ![q] = <<>>] /\ pending' = [pending EXCEPT ![q] = FALSE]
  BY Seats, PeerStates DEF Inv, Base, Gone
<1>1. \A t \in Track : t \in Published' <=> t \in Published /\ t.origin # q
  BY <1>0 DEF Published, TypeOK
<1>2. \A r : PeerState(r)' = IF r = q THEN "out" ELSE PeerState(r)
  <2>1. q >= nextPeer' <=> FALSE
    BY <1>0 DEF PeerIds, TypeOK
  <2> QED BY <1>0, <2>1 DEF PeerState
<1>3. \A t \in Track : TrackState(t)' = IF t.origin = q THEN "gone" ELSE TrackState(t)
  BY <1>1, <1>2 DEF TrackState
<1>4. TracksOf(p) \subseteq Track
  BY DEF TracksOf
<1>5. CASE p = q
  <2>1. \A t \in TracksOf(p) : TrackState(t)' = TrackState(t)
    BY <1>3, <1>4, <1>5 DEF TracksOf
  <2>2. out'[p] = <<>> /\ pending'[p] = FALSE
    BY <1>0, <1>5 DEF TypeOK
  <2>3. \A t : EntryState(out'[p], t) = "none"
    BY <2>2, NoEntry
  <2>4. Life(p)!Leave
    BY <1>0, <1>2, <1>5, <2>1, <2>2, <2>3 DEF Life!Leave
  <2> QED BY <2>4
<1>6. CASE p # q
  <2> DEFINE S == {t \in TracksOf(p) : t.origin = q}
  <2>1. out'[p] = out[p] /\ pending'[p] = pending[p]
    BY <1>0, <1>6 DEF TypeOK
  <2>2. \A t \in S : TrackState(t) # "gone"
    BY <1>0, PeerStates
  <2>3. \A t \in TracksOf(p) : TrackState(t)' = IF t \in S THEN "gone" ELSE TrackState(t)
    BY <1>3, <1>4
  <2>4. S \in SUBSET TracksOf(p)
    OBVIOUS
  <2> HIDE DEF S
  <2>5. Life(p)!Depart(S)
    BY <1>2, <1>6, <2>1, <2>2, <2>3, <2>4 DEF Life!Depart
  <2> QED BY <2>4, <2>5
<1> QED BY <1>5, <1>6

LEMMA LifeStep ==
  ASSUME Inv, Inv', [Next]_vars, NEW p \in PeerIds
  PROVE  UNCHANGED Life(p)!vars \/ Life(p)!Next
<1>0. {} \in SUBSET TracksOf(p) /\ room \subseteq PeerIds /\ out \in [PeerIds -> Seq(TrackOut)]
      /\ pending \in [PeerIds -> BOOLEAN]
  BY Seats DEF Inv, Base, TypeOK
<1>1. CASE Join
  BY <1>1, JoinLife DEF Life!Next
<1>2. ASSUME NEW q \in room, Gone(q)
      PROVE  Life(p)!Next
  BY <1>2, GoneLife DEF Life!Next
<1>3. ASSUME NEW q \in room, Answer(q)
      PROVE  UNCHANGED Life(p)!vars \/ Life(p)!Next
  <2>1. CASE q = p
    BY <1>3, <2>1, AnswerLife DEF Life!Next
  <2>2. CASE q # p
    <3>1. Unnoticed(p)
      BY <1>0, <1>3, <2>2 DEF Unnoticed, Answer, peers
    <3> QED BY <3>1, UnnoticedLife
  <2> QED BY <2>1, <2>2
<1>4. ASSUME NEW q \in room, Negotiate(q)
      PROVE  UNCHANGED Life(p)!vars \/ Life(p)!Next
  <2>1. CASE q = p
    BY <1>0, <1>4, <2>1, NegotiateLife DEF Life!Next
  <2>2. CASE q # p
    <3>1. Unnoticed(p)
      BY <1>0, <1>4, <2>2 DEF Unnoticed, Negotiate, peers
    <3> QED BY <3>1, UnnoticedLife
  <2> QED BY <2>1, <2>2
<1>5. ASSUME NEW q \in room, MediaAdded(q)
      PROVE  Life(p)!Next
  BY <1>0, <1>5, MediaAddedLife DEF Life!Next
<1>6. CASE Propagate
  BY <1>0, <1>6, PropagateLife, UnnoticedLife DEF Life!Next
<1>7. ASSUME \/ DrainDone \/ PollDone \/ PropagateDone \/ TurnDone \/ UNCHANGED vars
             \/ \E q \in room : PeerPolled(q) \/ MediaData(q) \/ KeyframeRequest(q)
      PROVE  UNCHANGED Life(p)!vars
  <2>1. Unnoticed(p)
    BY <1>7 DEF Unnoticed, DrainDone, PollDone, PropagateDone, TurnDone, vars, peers,
       subscriptions, PeerPolled, MediaData, KeyframeRequest, Output
  <2> QED BY <2>1, UnnoticedLife
<1> QED BY <1>1, <1>2, <1>3, <1>4, <1>5, <1>6, <1>7 DEF Next, Drain, Poll, EndOfPoll

\* However many peers come and go, each of them has of every track of the others
\* the subscription it is promised: the same as Negotiation's one subscriber.
THEOREM EverySubscriptionLives == Spec => ImplementsSubscriptions
<1>1. Init => \A p \in PeerIds : Life(p)!Init
  BY LifeInit
<1>2. Inv /\ Inv' /\ [Next]_vars
        => [\A p \in PeerIds : UNCHANGED Life(p)!vars \/ Life(p)!Next]_vars
  BY LifeStep
<1> QED BY <1>1, <1>2, Invariance, PTL DEF Spec, ImplementsSubscriptions

-----------------------------------------------------------------------------
(* The length of tracks_out                                                *)

\* Entries to publishers that died before they were offered stay in tracks_out
\* for good, but that is all that ever piles up: a subscriber has at most one
\* entry for each track of each other peer the engine ever gave an id to, however
\* often offers are made, answered and withdrawn.
OutBounded == \A p \in room : Len(out[p]) <= (nextPeer - 2) * Cardinality(Mids)

LEMMA EntriesFit == Inv => OutBounded
<1> SUFFICES ASSUME Inv, NEW p \in room
             PROVE  Len(out[p]) <= (nextPeer - 2) * Cardinality(Mids)
  BY DEF OutBounded
<1> DEFINE n == Len(out[p])
           Origins == (1 .. nextPeer - 1) \ {p}
           Pairs == Origins \X Mids
           of == [i \in 1 .. n |-> <<out[p][i].track.origin, out[p][i].track.mid>>]
<1>1. TypeOK /\ Subscriber(p) /\ p \in PeerIds /\ p \in 1 .. nextPeer - 1 /\ nextPeer \in Nat
  BY Seats DEF Inv, Base, Subscribers, TypeOK
<1>2. n \in Nat /\ DOMAIN out[p] = 1 .. n /\ \A i \in 1 .. n : out[p][i] \in TrackOut
  BY <1>1, Domains
<1>3. IsFiniteSet(Origins) /\ Cardinality(Origins) = nextPeer - 2
  <2>1. IsFiniteSet(1 .. nextPeer - 1) /\ Cardinality(1 .. nextPeer - 1) = nextPeer - 1
    <3>1. nextPeer - 1 \in Int /\ 1 \in Int /\ nextPeer - 1 >= 1
      BY <1>1
    <3>2. IsFiniteSet(1 .. nextPeer - 1)
          /\ Cardinality(1 .. nextPeer - 1) = (nextPeer - 1) - 1 + 1
      BY <3>1, FS_Interval
    <3> QED BY <3>1, <3>2
  <2>2. IsFiniteSet(Origins) /\ Cardinality(Origins) = (nextPeer - 1) - 1
    BY <1>1, <2>1, FS_RemoveElement
  <2> QED BY <1>1, <2>2
<1>4. IsFiniteSet(Pairs) /\ Cardinality(Pairs) = (nextPeer - 2) * Cardinality(Mids)
  BY <1>3, FS_Product, ForwardingAssumption
<1>5. of \in Injection(1 .. n, Pairs)
  <2>1. \A i \in 1 .. n : out[p][i].track \in Track /\ out[p][i].track.origin \in Origins
    BY <1>1, <1>2 DEF TrackOut, Track, Subscriber, Known, PeerIds
  <2>2. of \in [1 .. n -> Pairs]
    BY <2>1 DEF Track
  <2>3. \A t, u \in Track : t.origin = u.origin /\ t.mid = u.mid => t = u
    BY DEF Track
  <2>4. \A i, j \in 1 .. n : of[i] = of[j] => i = j
    <3> SUFFICES ASSUME NEW i \in 1 .. n, NEW j \in 1 .. n, of[i] = of[j] PROVE i = j
      OBVIOUS
    <3>1. /\ out[p][i].track.origin = out[p][j].track.origin
          /\ out[p][i].track.mid = out[p][j].track.mid
      OBVIOUS
    <3>2. out[p][i].track = out[p][j].track
      BY <2>1, <2>3, <3>1
    <3> QED BY <1>1, <1>2, <3>2 DEF Subscriber
  <2> QED BY <2>2, <2>4 DEF Injection, IsInjective
<1>6. IsFiniteSet(1 .. n) /\ Cardinality(1 .. n) = n
  BY <1>2, FS_Interval
<1> HIDE DEF of, Pairs, n
<1>7. Cardinality(1 .. n) <= Cardinality(Pairs)
  BY <1>4, <1>5, <1>6, FS_Injection
<1> QED BY <1>4, <1>6, <1>7 DEF n

\* Nothing the peers of a room do makes anybody's tracks_out longer than the
\* tracks that others may have published.
THEOREM TracksOutBounded == Spec => []OutBounded
<1> QED BY EntriesFit, Invariance, PTL
=============================================================================
