---------------------- MODULE NegotiationSubscription -----------------------
(***************************************************************************)
(* Negotiation, whatever its client answers, implements Subscription.      *)
(***************************************************************************)
EXTENDS Negotiation

Life == INSTANCE Subscription WITH
       subscriber <- IF joined THEN "in" ELSE "new",
       state <- out,
       offered <- pending # NoOffer

\* negotiate_if_needed, handle_answer, propagate and subscribe_to_existing give
\* every subscription the life it is promised, whatever str0m says of answers and
\* whichever offer they were meant for.
ImplementsSubscription == Life!Spec
=============================================================================
