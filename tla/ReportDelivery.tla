--------------------------- MODULE ReportDelivery ---------------------------
(***************************************************************************)
(* The task that posts reports, with a host application that remembers     *)
(* their ids, implements Delivery.                                         *)
(***************************************************************************)
EXTENDS Report

InHand == IF current = Idle THEN {} ELSE {current.report.id}

\* The report in hand is ahead until the host application has handled it, not
\* until the task knows that it has.
InHandAhead ==
  IF current # Idle /\ current.report.id \notin seen THEN <<current.report>> ELSE <<>>

\* A late post is a stray once its report is neither in hand nor handled.
Strays == {r \in late : r.id \notin seen \cup InHand}

Ahead == InHandAhead \o queue

D == INSTANCE Delivery WITH
       running <- up, truth <- holds, ahead <- Ahead,
       strays <- Strays, belief <- host

\* Tries, lost answers, late posts, the host application's de-duplication and
\* restarts (report.rs, main.rs) add up to a channel that hands each report over
\* at most once and in turn, one that was given up excepted: retrying is invisible,
\* a post that is handled late while its report is being retried counts as the
\* report itself, and the retry after it as nothing.
ImplementsDelivery == D!Spec
=============================================================================
