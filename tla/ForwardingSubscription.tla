----------------------- MODULE ForwardingSubscription -----------------------
(***************************************************************************)
(* Every peer of Forwarding implements Subscription towards the others, as *)
(* the one subscriber of Negotiation does: the two modules of the same     *)
(* code agree on the life of a subscription.                               *)
(***************************************************************************)
EXTENDS Forwarding

TracksOf(p) == {t \in Track : t.origin # p}

\* What is known of a peer's tracks and of its entries.
PeerState(p) == IF p >= nextPeer THEN "new" ELSE IF p \in room THEN "in" ELSE "out"
TrackState(t) ==
  IF t \in Published THEN "published"
  ELSE IF PeerState(t.origin) = "out" THEN "gone" ELSE "unborn"
EntryState(entries, t) ==
  LET at == {i \in DOMAIN entries : entries[i].track = t}
  IN  IF at = {} THEN "none" ELSE entries[CHOOSE i \in at : TRUE].state

Life(p) == INSTANCE Subscription WITH
          Tracks <- TracksOf(p),
          subscriber <- PeerState(p),
          track <- [t \in TracksOf(p) |-> TrackState(t)],
          state <- [t \in TracksOf(p) |-> EntryState(out[p], t)],
          offered <- pending[p]

\* Whatever becomes of the positions in tracks_out, and whoever comes and goes
\* between an event and its propagation, every peer's entries live as promised.
ImplementsSubscriptions ==
  /\ \A p \in PeerIds : Life(p)!Init
  /\ [][\A p \in PeerIds : UNCHANGED Life(p)!vars \/ Life(p)!Next]_vars
=============================================================================
