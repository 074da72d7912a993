--------------------------- MODULE SpeakingProofs ---------------------------
(***************************************************************************)
(* Proofs about who is shown as talking, for any peers, hold, period of    *)
(* the tick and length of a turn.                                          *)
(***************************************************************************)
EXTENDS Speaking, TLAPS

LEMMA TypeInit == Init => TypeOK
BY SpeakingAssumption DEF Init, TypeOK, Bound

\* Mistakes only grow while time passes, and by what passes.
LEMMA WrongStep ==
  ASSUME TypeOK, Next
  PROVE  /\ wrong' \in [Peers -> 0 .. Bound]
         /\ Instant => \A p \in Peers : wrong'[p] <= wrong[p]
         /\ \A p \in Peers : wrong'[p] <= wrong[p] + 1
<1> USE SpeakingAssumption DEF TypeOK
<1>0. Bound \in Nat
  BY DEF Bound
<1>1. CASE Instant /\ Recheck
  <2>1. \A p \in Peers : wrong[p] \in 0 .. Bound /\ wrong'[p] \in {0, wrong[p]}
    BY <1>1 DEF Recheck
  <2> QED BY <1>0, <1>1, <2>1 DEF Recheck
<1>2. CASE Pass /\ Lengthen
  <2>1. \A p \in Peers : /\ wrong[p] \in 0 .. Bound
                         /\ wrong'[p] \in {0, Later(wrong[p], Bound)}
    BY <1>2 DEF Lengthen
  <2>2. \A p \in Peers : wrong'[p] \in 0 .. Bound /\ wrong'[p] <= wrong[p] + 1
    BY <1>0, <2>1 DEF Later
  <2>3. ~Instant
    BY <1>2 DEF Pass, Instant, Join, SetMuted, Remove, AudioPacket, TickSpeaking, NextPhase,
                time, members, clients
  <2> QED BY <1>2, <2>2, <2>3 DEF Lengthen
<1> QED BY <1>1, <1>2 DEF Next

LEMMA TypeStep == TypeOK /\ [Next]_vars => TypeOK'
<1> SUFFICES ASSUME TypeOK, [Next]_vars PROVE TypeOK'
  OBVIOUS
<1> USE SpeakingAssumption DEF TypeOK
<1>1. CASE UNCHANGED vars
  BY <1>1 DEF vars, time, members, clients
<1>2. ASSUME Next, NEW p \in Peers, Join(p) PROVE TypeOK'
  BY <1>2, WrongStep DEF Join, time, clients
<1>3. ASSUME Next, NEW p \in Peers, SetMuted(p) PROVE TypeOK'
  BY <1>3, WrongStep DEF SetMuted, time, clients
<1>4. ASSUME Next, NEW p \in Peers, Remove(p) PROVE TypeOK'
  BY <1>4, WrongStep DEF Remove, WithoutGone, time
<1>5. ASSUME Next, NEW p \in Peers, AudioPacket(p) PROVE TypeOK'
  <2>1. left' \in [Peers -> 0 .. Hold] /\ quiet' \in [Peers -> 0 .. Hold]
    BY <1>5 DEF AudioPacket, Noted
  <2> QED BY <1>5, <2>1, WrongStep DEF AudioPacket, members, clients
<1>6. ASSUME Next, TickSpeaking PROVE TypeOK'
  <2>1. Current \subseteq room
    BY DEF Current
  <2>2. sinceTick' \in 0 .. Period
    BY <1>6 DEF TickSpeaking
  <2>3. /\ speaking' \subseteq room /\ told' \subseteq room
        /\ shown' \in [Peers -> SUBSET room]
    BY <1>6, <2>1 DEF TickSpeaking, clients
  <2> QED BY <1>6, <2>2, <2>3, WrongStep DEF TickSpeaking, members
<1>7. ASSUME Next, NextPhase PROVE TypeOK'
  BY <1>7, WrongStep DEF NextPhase, members, clients
<1>8. ASSUME Next, Pass PROVE TypeOK'
  <2>1. left' \in [Peers -> 0 .. Hold] /\ quiet' \in [Peers -> 0 .. Hold]
    BY <1>8 DEF Pass, Earlier, Later
  <2>2. turn' \in 0 .. MaxTurn /\ sinceTick' \in 0 .. Period
    BY <1>8 DEF Pass, Later
  <2> QED BY <1>8, <2>1, <2>2, WrongStep DEF Pass, members, clients
<1> QED BY <1>1, <1>2, <1>3, <1>4, <1>5, <1>6, <1>7, <1>8 DEF Next, Instant

\* Cached set, clients and holds keep their types; nobody outside the room is
\* shown to anybody.
THEOREM SpeakingTyped == Spec => []TypeOK
BY TypeInit, TypeStep, PTL DEF Spec

-----------------------------------------------------------------------------
(* Holds and cache                                                         *)

\* What is left of a hold is what the silence has not used up.
HoldsFollow == \A p \in Peers : left[p] = Hold - quiet[p]

\* A client that has been sent a set shows what the loop has cached.
CacheShown == \A c \in told : shown[c] = speaking

LEMMA HoldsInit == Init => HoldsFollow /\ CacheShown
BY SpeakingAssumption DEF Init, HoldsFollow, CacheShown

LEMMA HoldsStep == TypeOK /\ HoldsFollow /\ [Next]_vars => HoldsFollow'
<1> SUFFICES ASSUME TypeOK, HoldsFollow, [Next]_vars, NEW q \in Peers
             PROVE  left'[q] = Hold - quiet'[q]
  BY DEF HoldsFollow
<1> USE SpeakingAssumption DEF TypeOK, HoldsFollow
<1>1. CASE UNCHANGED <<left, quiet>>
  BY <1>1
<1>2. ASSUME NEW p \in Peers, AudioPacket(p) PROVE left'[q] = Hold - quiet'[q]
  BY <1>2 DEF AudioPacket, Noted
<1>3. CASE Pass
  BY <1>3 DEF Pass, Earlier, Later
<1> QED BY <1>1, <1>2, <1>3 DEF Next, Instant, vars, Join, SetMuted, Remove, TickSpeaking,
           NextPhase, time

LEMMA CacheStep == TypeOK /\ CacheShown /\ [Next]_vars => CacheShown'
<1> SUFFICES ASSUME TypeOK, CacheShown, [Next]_vars, NEW c \in told'
             PROVE  shown'[c] = speaking'
  BY DEF CacheShown
<1> USE DEF TypeOK, CacheShown
<1>1. CASE UNCHANGED clients
  BY <1>1 DEF clients
<1>2. ASSUME NEW p \in Peers, Remove(p) PROVE shown'[c] = speaking'
  BY <1>2 DEF Remove, WithoutGone
<1>3. CASE TickSpeaking
  BY <1>3 DEF TickSpeaking, clients
<1> QED BY <1>1, <1>2, <1>3 DEF Next, Instant, vars, Join, SetMuted, AudioPacket,
           NextPhase, Pass

-----------------------------------------------------------------------------
(* Nobody flickers                                                         *)

LEMMA CurrentTalks ==
  ASSUME TypeOK, HoldsFollow, NEW p \in Peers
  PROVE  p \in Current <=> Talks(p)
BY SpeakingAssumption DEF TypeOK, HoldsFollow, Current, Talks

LEMMA FlickerStep ==
  ASSUME TypeOK, HoldsFollow, [Next]_vars, NEW c \in Peers, NEW p \in Peers,
         p \in shown[c] \ shown'[c], {c, p} \subseteq room'
  PROVE  p \in muted' \/ quiet[p] >= Hold
<1> USE DEF TypeOK
<1>1. ASSUME NEW q \in Peers, Remove(q) PROVE FALSE
  BY <1>1 DEF Remove
<1>2. CASE TickSpeaking
  <2>1. shown'[c] = Current /\ c \in room /\ p \in room /\ muted' = muted
    BY <1>2 DEF TickSpeaking, clients, members
  <2>2. ~Talks(p)
    BY <2>1, CurrentTalks
  <2> QED BY <2>1, <2>2, SpeakingAssumption DEF Talks
<1> QED BY <1>1, <1>2 DEF Next, Instant, vars, Join, SetMuted, AudioPacket,
           NextPhase, Pass, clients

\* The ring of somebody who talks does not flicker, however short the period of
\* the tick and whatever packets of silence come between.
THEOREM RingsHold == Spec => NoFlicker
<1>1. TypeOK /\ HoldsFollow /\ [Next]_vars
        => [\A c, p \in Peers : p \in shown[c] \ shown'[c] /\ {c, p} \subseteq room' =>
              p \in muted' \/ quiet[p] >= Hold]_vars
  BY FlickerStep
<1> QED BY <1>1, TypeInit, TypeStep, HoldsInit, HoldsStep, PTL DEF Spec, NoFlicker

-----------------------------------------------------------------------------
(* Mistakes end                                                            *)

\* A mistake is no older than the last tick that looked: until the next one is
\* due that is sinceTick; from then on it has to wait for the rest of this turn,
\* and if this turn's tick is past for the next one.
MistakesAge ==
  \A p \in Peers :
    wrong[p] <= IF sinceTick < Period THEN sinceTick
                ELSE Period - 1 + turn + (IF phase = "wait" THEN 0 ELSE MaxTurn)

LEMMA TickCorrects ==
  ASSUME TypeOK, HoldsFollow, CacheShown, TickSpeaking, sinceTick >= Period, Recheck,
         NEW p \in Peers
  PROVE  wrong'[p] = 0
<1>1. room' = room /\ muted' = muted /\ quiet' = quiet
  BY DEF TickSpeaking, members
<1>2. Talks(p)' <=> p \in Current
  BY <1>1, CurrentTalks DEF Talks
<1>3. \A c \in told' : shown'[c] = Current
  BY SpeakingAssumption DEF TickSpeaking, Moved, clients, CacheShown, TypeOK
<1>4. \A c \in told' : (p \in shown'[c]) = Talks(p)'
  <2>1. \A c \in told' : p \in shown'[c] <=> p \in Current
    BY <1>3
  <2>2. Talks(p)' \in BOOLEAN
    BY DEF Talks
  <2> QED BY <1>2, <2>1, <2>2
<1>5. ~Mistaken(p)'
  BY <1>4 DEF Mistaken
<1> QED BY <1>5 DEF Recheck

LEMMA AgeStep ==
  TypeOK /\ HoldsFollow /\ CacheShown /\ MistakesAge /\ [Next]_vars => MistakesAge'
<1> SUFFICES ASSUME TypeOK, HoldsFollow, CacheShown, MistakesAge, [Next]_vars, NEW p \in Peers
             PROVE  wrong'[p] <= IF sinceTick' < Period THEN sinceTick'
                                 ELSE Period - 1 + turn'
                                        + (IF phase' = "wait" THEN 0 ELSE MaxTurn)
  BY DEF MistakesAge
<1> USE SpeakingAssumption
<1>1. /\ turn \in 0 .. MaxTurn /\ sinceTick \in 0 .. Period
      /\ wrong[p] \in Nat
      /\ wrong[p] <= IF sinceTick < Period THEN sinceTick
                     ELSE Period - 1 + turn + (IF phase = "wait" THEN 0 ELSE MaxTurn)
  BY DEF TypeOK, MistakesAge, Bound
<1>2. Next => wrong'[p] \in Nat /\ wrong'[p] <= wrong[p] + 1
  BY WrongStep DEF Bound
<1>3. Next /\ Instant => wrong'[p] <= wrong[p]
  BY WrongStep
<1>4. CASE UNCHANGED vars
  BY <1>1, <1>4 DEF vars, time
<1>5. CASE /\ Next /\ Instant
           /\ UNCHANGED <<phase, turn, sinceTick>>
  BY <1>1, <1>2, <1>3, <1>5
<1>6. CASE Next /\ NextPhase
  <2>1. Instant
    BY <1>6 DEF Instant
  <2> QED BY <1>1, <1>2, <1>3, <1>6, <2>1 DEF NextPhase
<1>7. CASE Next /\ TickSpeaking
  <2>1. Instant /\ Recheck
    BY <1>7 DEF Instant, Next, Pass, TickSpeaking, members, clients
  <2>2. CASE sinceTick < Period
    BY <1>1, <1>2, <1>3, <1>7, <2>1, <2>2 DEF TickSpeaking
  <2>3. CASE sinceTick >= Period
    <3>1. wrong'[p] = 0
      BY <1>7, <2>1, <2>3, TickCorrects
    <3> QED BY <1>1, <1>7, <2>3, <3>1 DEF TickSpeaking
  <2> QED BY <1>1, <2>2, <2>3
<1>8. CASE Next /\ Pass
  <2>1. /\ turn' = turn + 1 /\ phase' = phase
        /\ sinceTick' = IF sinceTick < Period THEN sinceTick + 1 ELSE Period
    BY <1>8 DEF Pass, Later
  <2> QED BY <1>1, <1>2, <1>8, <2>1
<1> QED BY <1>4, <1>5, <1>6, <1>7, <1>8 DEF Next, Instant, Join, SetMuted, Remove, AudioPacket,
           time

\* For any period and length of a turn, no client that has been sent a set shows
\* anything wrong of anybody for as long as a period and two turns.
THEOREM MistakesEnd == Spec => []ShownInTime
<1> USE SpeakingAssumption
<1>1. Init => MistakesAge
  <2>1. Init => sinceTick = 0 /\ \A p \in Peers : wrong[p] = 0
    BY DEF Init
  <2>2. 0 < Period /\ 0 <= 0
    OBVIOUS
  <2> QED BY <2>1, <2>2 DEF MistakesAge
<1>2. TypeOK /\ MistakesAge => ShownInTime
  <2> SUFFICES ASSUME TypeOK, MistakesAge, NEW p \in Peers PROVE wrong[p] < Bound
    BY DEF ShownInTime
  <2>1. /\ turn \in 0 .. MaxTurn /\ sinceTick \in 0 .. Period /\ wrong[p] \in 0 .. Bound
        /\ Bound = Period + 2 * MaxTurn
    BY DEF TypeOK, Bound
  <2>2. wrong[p] <= IF sinceTick < Period THEN sinceTick
                    ELSE Period - 1 + turn + (IF phase = "wait" THEN 0 ELSE MaxTurn)
    BY DEF MistakesAge
  <2> QED BY <2>1, <2>2
<1> QED BY <1>1, <1>2, TypeInit, TypeStep, HoldsInit, HoldsStep, CacheStep, AgeStep, PTL
        DEF Spec
=============================================================================
