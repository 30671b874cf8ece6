----------------------------- MODULE CardProofs -----------------------------
(***************************************************************************)
(* Theorems about CardLifecycle, for any cards, clients and bound on       *)
(* faults, and about InsiderWatch, for any filings, builds and dates.      *)
(*                                                                         *)
(* CardLifecycle's properties rest on what the rows say of each other      *)
(* (RowsKnown), on a card at work having been recorded (ActorsKnown), and  *)
(* on what the auto-entry sweep may still assume of the cards it selected: *)
(* they are originals, nothing is journaled for them, and an outcome it    *)
(* has yet to journal is its own entry (SweepKnown).                       *)
(*                                                                         *)
(* That the watch's history is complete is no induction over the journal:  *)
(* it rests on what the capture pass in progress still holds (FitPass).    *)
(***************************************************************************)
EXTENDS CardLifecycle, InsiderWatch, NaturalsInduction, WellFoundedInduction, TLAPS

(* The card. *)

\* Entries and replacements: a card is entered or expired, not both, and a replacement is never
\* marked for the sweep.
RowKnown(c) ==
    /\ signal[c] = "none" => reprices[c] = NoCard /\ c \notin marked
    /\ entry[c] # "none" <=> signal[c] \in {"SUBMITTING", "EXECUTED", "FAILED"}
    /\ reprices[c] # NoCard => /\ c \notin marked /\ entry[c] # "auto"
                               /\ signal[reprices[c]] = "EXPIRED"
    /\ "auto_entered" \in outbox[c] => entry[c] = "auto"
    /\ "auto_not_placed" \in outbox[c] => signal[c] = "EXPIRED"
RowsKnown ==
    /\ \A c \in Cards : RowKnown(c)
    /\ \A c, d \in Cards : reprices[c] = reprices[d] /\ reprices[c] # NoCard => c = d

\* An actor works on a card that was recorded.
ActorsKnown ==
    \A a \in Actors : step[a] \notin {"idle", "sweeping"} =>
        card[a] \in Cards /\ signal[card[a]] # "none"

\* A card that the sweep has selected, and has not journaled yet.
Fresh(c) == signal[c] # "none" /\ c \in marked /\ attempt[c] = "none"

SweepKnown ==
    /\ \A c \in selected : Fresh(c) /\ c # card[Sweep]
    /\ IF step[Sweep] \in {"idle", "sweeping"} THEN card[Sweep] = NoCard ELSE Fresh(card[Sweep])
    /\ step[Sweep] = "recording" /\ result.outcome = "entered" => entry[card[Sweep]] = "auto"

CardInv == TypeOK /\ RowsKnown /\ ActorsKnown /\ SweepKnown

-----------------------------------------------------------------------------
\* The rows' types, and the actors'.
RowsOK ==
    /\ signal \in [Cards -> {"none", "PENDING", "SUBMITTING", "EXECUTED", "FAILED",
                             "EXPIRED", "DISMISSED"}]
    /\ marked \subseteq Cards
    /\ reprices \in [Cards -> Cards \cup {NoCard}]
    /\ entry \in [Cards -> {"none", "tap", "auto"}]
    /\ attempt \in [Cards -> Outcomes \cup {"none"}]
    /\ outbox \in [Cards -> SUBSET {"expired", "auto_entered", "auto_not_placed", "auto_refused"}]
    /\ claimed \subseteq Cards
    /\ elapsed \in [Cards -> SUBSET {"freshness", "day", "session"}]
    /\ cause \in [Cards -> {"none", "tap", "auto", "sweep"}]
TasksOK ==
    /\ step \in [Actors -> {"idle", "sweeping", "checking", "called", "assessing", "repricing",
                            "expiring", "authorizing", "reading", "recording", "claiming"}]
    /\ card \in [Actors -> Cards \cup {NoCard}]
    /\ selected \subseteq Cards
    /\ attempted \subseteq Cards
    /\ faults \in 0..MaxFaults
ResultOK == result \in [outcome : Outcomes \cup {"none"}, follow : SUBSET {"recard", "strike"}]

\* The same conjuncts, regrouped.
LEMMA TypeSplit == TypeOK <=> RowsOK /\ TasksOK /\ ResultOK
  BY Zenon DEF TypeOK, RowsOK, TasksOK, ResultOK

\* A call that ends leaves the card with the sweep, and takes it from a handler.
LEMMA ReturnIs ==
  ASSUME TasksOK, NEW a \in Actors, Return(a)
  PROVE  /\ \A b \in Actors \ {a} : step'[b] = step[b] /\ card'[b] = card[b]
         /\ a = Sweep => step'[a] = "reading" /\ card'[a] = card[a]
         /\ a # Sweep => step'[a] = "idle" /\ card'[a] = NoCard
         /\ step' \in [Actors -> {"idle", "sweeping", "checking", "called", "assessing", "repricing",
                                  "expiring", "authorizing", "reading", "recording", "claiming"}]
         /\ card' \in [Actors -> Cards \cup {NoCard}]
  BY Zenon DEF Return, TasksOK

\* A call that goes on keeps its card.
LEMMA GoIs ==
  ASSUME TasksOK, NEW a \in Actors, NEW to, Go(a, to)
  PROVE  /\ \A b \in Actors \ {a} : step'[b] = step[b]
         /\ step'[a] = to /\ card' = card
         /\ step' = [step EXCEPT ![a] = to]
  BY Zenon DEF Go, TasksOK

-----------------------------------------------------------------------------
(* What the steps do. *)

RowsAlone == UNCHANGED <<signal, marked, reprices, entry, attempt, outbox>>

\* The transactions that write the rows; the other steps read.
LEMMA RowKinds ==
  ASSUME [Next]_vars
  PROVE  \/ RowsAlone
         \/ \E c \in Cards : RecordSignal(c) \/ DismissSignal(c) \/ EntryResolves(c)
         \/ ExpireStaleSignals \/ RecordAttempt
         \/ \E a \in Actors : ReplaceSignal(a) \/ ExpireSignal(a) \/ Authorize(a)
<1> USE DEF RowsAlone, rowVars
<1>1. ASSUME NEW c \in Cards, Elapse(c) PROVE RowsAlone
  BY Zenon, <1>1 DEF Elapse
<1>2. ASSUME NEW a \in Clients, NEW c \in Cards, Tap(a, c) \/ Reevaluate(a, c) PROVE RowsAlone
  BY Zenon, <1>2 DEF Tap, Reevaluate
<1>3. ASSUME NEW a \in Actors, AssessCard(a) \/ ClaimReevaluation(a) \/ CallRaises(a) PROVE RowsAlone
  BY Zenon, <1>3 DEF AssessCard, ClaimReevaluation, CallRaises
<1>4. CASE AutoEnterPending \/ NextSelected \/ CheckCard \/ ReadSignal
  BY Zenon, <1>4 DEF AutoEnterPending, NextSelected, CheckCard, ReadSignal
<1>5. CASE ReadOutcome \/ ReadFails \/ DaemonCrashes
  BY Zenon, <1>5 DEF ReadOutcome, ReadFails, DaemonCrashes
<1>6. CASE UNCHANGED vars
  BY Zenon, <1>6 DEF vars
<1> QED
  BY Zenon, <1>1, <1>2, <1>3, <1>4, <1>5, <1>6 DEF Next

\* The effect of each of them.
LEMMA ReplaceIs ==
  ASSUME RowsOK, NEW a \in Actors, card[a] \in Cards, ReplaceSignal(a)
  PROVE  \/ RowsAlone /\ UNCHANGED <<elapsed, cause, claimed>>
         \/ \E new \in Cards \ {card[a]} :
               /\ signal[card[a]] = "PENDING" /\ signal[new] = "none"
               /\ signal' = [signal EXCEPT ![card[a]] = "EXPIRED", ![new] = "PENDING"]
               /\ reprices' = [reprices EXCEPT ![new] = card[a]]
               /\ UNCHANGED <<marked, entry, attempt, outbox, claimed>>
               /\ elapsed' = [elapsed EXCEPT ![new] = elapsed[card[a]] \cap {"session"}]
               /\ cause' = [cause EXCEPT ![card[a]] = Trigger(a)]
  BY Zenon DEF ReplaceSignal, Replaceable, ReplacementMarker, RowsAlone, RowsOK

\* expire_signal changes one pending card.
LEMMA ExpireIs ==
  ASSUME NEW a \in Actors, ExpireSignal(a)
  PROVE  /\ \/ signal[card[a]] = "PENDING" /\ signal' = [signal EXCEPT ![card[a]] = "EXPIRED"]
            \/ UNCHANGED signal
         /\ UNCHANGED <<marked, reprices, entry, attempt, outbox>>
  BY Zenon DEF ExpireSignal, Replaceable

\* enqueue_entry enters a pending card that has no item, or changes nothing.
LEMMA AuthorizeIs ==
  ASSUME NEW a \in Actors, Authorize(a)
  PROVE  /\ \/ /\ signal[card[a]] = "PENDING" /\ entry[card[a]] = "none"
               /\ signal' = [signal EXCEPT ![card[a]] = "SUBMITTING"]
               /\ entry' = [entry EXCEPT ![card[a]] = Trigger(a)]
            \/ UNCHANGED <<signal, entry>>
         /\ UNCHANGED <<marked, reprices, attempt, outbox>>
  BY Zenon DEF Authorize, Queueable

\* The writes keep their types.
LEMMA RowsNext ==
  ASSUME RowsOK, TasksOK, ResultOK, ActorsKnown, [Next]_vars
  PROVE  RowsOK'
<1> USE DEF RowsOK
<1>1. ASSUME NEW c \in Cards, RecordSignal(c) \/ DismissSignal(c) \/ EntryResolves(c) PROVE RowsOK'
  BY <1>1 DEF RecordSignal, DismissSignal, EntryResolves
<1>2. CASE ExpireStaleSignals
  BY Zenon, <1>2 DEF ExpireStaleSignals
<1>3. CASE RecordAttempt
  <2>1. \A c \in Cards : FollowUp(c) \subseteq {"expired", "auto_entered", "auto_not_placed", "auto_refused"}
    BY Zenon DEF FollowUp
  <2>2. result.outcome \in Outcomes \cup {"none"}
    BY Zenon DEF ResultOK
  <2>3. UNCHANGED <<signal, marked, reprices, entry, claimed, elapsed, cause>>
    BY Zenon, <1>3 DEF RecordAttempt
  <2>4. \/ UNCHANGED <<attempt, outbox>>
        \/ /\ attempt' = [attempt EXCEPT ![card[Sweep]] = result.outcome]
           /\ outbox' = [outbox EXCEPT ![card[Sweep]] = outbox[card[Sweep]] \cup FollowUp(card[Sweep])]
    BY Zenon, <1>3 DEF RecordAttempt
  <2>5. attempt' \in [Cards -> Outcomes \cup {"none"}]
    BY Zenon, <2>2, <2>4
  <2>6. outbox' \in [Cards -> SUBSET {"expired", "auto_entered", "auto_not_placed", "auto_refused"}]
    BY <2>1, <2>4
  <2> QED
    BY Zenon, <2>3, <2>5, <2>6
<1>4. ASSUME NEW a \in Actors, ReplaceSignal(a) PROVE RowsOK'
  <2>1. card[a] \in Cards
    BY Zenon, <1>4 DEF ReplaceSignal, ActorsKnown
  <2>2. CASE RowsAlone /\ UNCHANGED <<elapsed, cause, claimed>>
    BY Zenon, <2>2 DEF RowsAlone
  <2>3. ASSUME NEW new \in Cards \ {card[a]},
               signal' = [signal EXCEPT ![card[a]] = "EXPIRED", ![new] = "PENDING"],
               reprices' = [reprices EXCEPT ![new] = card[a]],
               UNCHANGED <<marked, entry, attempt, outbox, claimed>>,
               elapsed' = [elapsed EXCEPT ![new] = elapsed[card[a]] \cap {"session"}],
               cause' = [cause EXCEPT ![card[a]] = Trigger(a)]
        PROVE  RowsOK'
    <3>1. elapsed' \in [Cards -> SUBSET {"freshness", "day", "session"}]
      BY Zenon, <2>1, <2>3
    <3>2. cause' \in [Cards -> {"none", "tap", "auto", "sweep"}]
      BY Zenon, <2>1, <2>3 DEF Trigger
    <3>3. signal' \in [Cards -> {"none", "PENDING", "SUBMITTING", "EXECUTED", "FAILED",
                                 "EXPIRED", "DISMISSED"}]
      BY Zenon, <2>1, <2>3
    <3>4. reprices' \in [Cards -> Cards \cup {NoCard}]
      BY Zenon, <2>1, <2>3
    <3> QED
      BY Zenon, <2>3, <3>1, <3>2, <3>3, <3>4
  <2> QED
    BY Zenon, <1>4, <2>1, <2>2, <2>3, ReplaceIs
<1>5. ASSUME NEW a \in Actors, ExpireSignal(a) PROVE RowsOK'
  <2>1. UNCHANGED <<claimed, elapsed>> /\ cause' \in {cause, [cause EXCEPT ![card[a]] = Trigger(a)]}
    BY Zenon, <1>5 DEF ExpireSignal
  <2> QED
    BY <1>5, <2>1, ExpireIs DEF Trigger
<1>6. ASSUME NEW a \in Actors, Authorize(a) PROVE RowsOK'
  <2>1. UNCHANGED <<claimed, elapsed, cause>>
    BY Zenon, <1>6 DEF Authorize
  <2> QED
    BY <1>6, <2>1, AuthorizeIs DEF Trigger
<1>7. ASSUME NEW c \in Cards, Elapse(c) PROVE RowsOK'
  <2>1. UNCHANGED <<signal, marked, reprices, entry, attempt, outbox, claimed, cause>>
    BY Zenon, <1>7 DEF Elapse, rowVars
  <2> QED
    BY <1>7, <2>1 DEF Elapse
<1>8. ASSUME NEW a \in Actors, ClaimReevaluation(a) PROVE RowsOK'
  <2>1. card[a] \in Cards
    BY Zenon, <1>8 DEF ClaimReevaluation, ActorsKnown
  <2> QED
    BY <1>8, <2>1 DEF ClaimReevaluation
<1>9. ASSUME UNCHANGED <<rowVars, elapsed, cause>> PROVE RowsOK'
  BY Zenon, <1>9 DEF rowVars
<1>10. ASSUME NEW a \in Actors, AssessCard(a) \/ CallRaises(a) PROVE RowsOK'
  BY Zenon, <1>9, <1>10 DEF AssessCard, CallRaises
<1>11. ASSUME NEW a \in Clients, NEW c \in Cards, Tap(a, c) \/ Reevaluate(a, c) PROVE RowsOK'
  BY Zenon, <1>9, <1>11 DEF Tap, Reevaluate
<1>12. CASE AutoEnterPending \/ NextSelected \/ CheckCard \/ ReadSignal
  BY Zenon, <1>9, <1>12 DEF AutoEnterPending, NextSelected, CheckCard, ReadSignal
<1>13. CASE ReadOutcome \/ ReadFails \/ DaemonCrashes
  BY Zenon, <1>9, <1>13 DEF ReadOutcome, ReadFails, DaemonCrashes
<1>14. CASE UNCHANGED vars
  BY Zenon, <1>9, <1>14 DEF vars
<1> QED
  BY Zenon, <1>1, <1>2, <1>3, <1>4, <1>5, <1>6, <1>7, <1>8, <1>10, <1>11, <1>12, <1>13, <1>14 DEF Next

\* A step of the actor on a row that the code says it may take.
LEMMA CardAtWork ==
  ASSUME ActorsKnown, NEW a \in Actors, step[a] \notin {"idle", "sweeping"}
  PROVE  card[a] \in Cards /\ signal[card[a]] # "none"
  BY Zenon DEF ActorsKnown

\* Statuses and marks that no transaction takes back: the first half of VetoKept.
Forward ==
    \A c \in Cards :
        /\ signal[c] # "none" => signal'[c] # "none" /\ (c \in marked' <=> c \in marked)
        /\ signal[c] \in {"DISMISSED", "EXPIRED", "FAILED"} => signal'[c] = signal[c]
        /\ entry[c] = "auto" => entry'[c] = "auto"

\* What no transaction takes back (dismiss_signal, expire_signal, enqueue_entry).
LEMMA RowsForward ==
  ASSUME RowsOK, TasksOK, ActorsKnown, [Next]_vars
  PROVE  Forward
<1> USE DEF RowsOK, Forward
<1>1. CASE RowsAlone
  BY Zenon, <1>1 DEF RowsAlone
<1>2. ASSUME NEW c \in Cards, RecordSignal(c) \/ DismissSignal(c) \/ EntryResolves(c) PROVE Forward
  BY <1>2 DEF RecordSignal, DismissSignal, EntryResolves
<1>3. CASE ExpireStaleSignals
  BY Zenon, <1>3 DEF ExpireStaleSignals, Stale
<1>4. CASE RecordAttempt
  BY Zenon, <1>4 DEF RecordAttempt
<1>5. ASSUME NEW a \in Actors, ReplaceSignal(a) PROVE Forward
  <2>1. card[a] \in Cards
    BY Zenon, <1>5, CardAtWork DEF ReplaceSignal
  <2> QED
    BY <1>5, <2>1, ReplaceIs DEF RowsAlone
<1>6. ASSUME NEW a \in Actors, ExpireSignal(a) PROVE Forward
  BY <1>6, ExpireIs
<1>7. ASSUME NEW a \in Actors, Authorize(a) PROVE Forward
  BY <1>7, AuthorizeIs
<1> QED
  BY Zenon, <1>1, <1>2, <1>3, <1>4, <1>5, <1>6, <1>7, RowKinds

-----------------------------------------------------------------------------
(* What the rows say of each other. *)

\* The rows agree after every transaction (replace_signal, enqueue_entry, record_auto_entry_attempt).
LEMMA RowsKnownNext ==
  ASSUME RowsOK, TasksOK, ResultOK, RowsKnown, ActorsKnown, SweepKnown, [Next]_vars
  PROVE  RowsKnown'
<1> USE CardAssumption DEF RowsOK
<1>0. /\ \A c \in Cards : RowKnown(c)
      /\ \A c, d \in Cards : reprices[c] = reprices[d] /\ reprices[c] # NoCard => c = d
  BY Zenon DEF RowsKnown
<1>1. CASE RowsAlone
  BY Zenon, <1>0, <1>1 DEF RowsAlone, RowsKnown, RowKnown
<1>2. ASSUME NEW c \in Cards, RecordSignal(c) PROVE RowsKnown'
  BY <1>0, <1>2 DEF RecordSignal, RowsKnown, RowKnown
<1>3. ASSUME NEW c \in Cards, DismissSignal(c) PROVE RowsKnown'
  BY <1>0, <1>3 DEF DismissSignal, RowsKnown, RowKnown
<1>4. ASSUME NEW c \in Cards, EntryResolves(c) PROVE RowsKnown'
  BY <1>0, <1>4 DEF EntryResolves, RowsKnown, RowKnown
<1>5. CASE ExpireStaleSignals
  <2>1. \A c \in Cards : signal'[c] = signal[c] \/ (signal[c] = "PENDING" /\ signal'[c] = "EXPIRED")
    BY Zenon, <1>5 DEF ExpireStaleSignals, Stale
  <2>2. \A c \in Cards : outbox'[c] = outbox[c] \/ outbox'[c] = outbox[c] \cup {"expired"}
    BY Zenon, <1>5 DEF ExpireStaleSignals
  <2>3. UNCHANGED <<marked, reprices, entry>>
    BY Zenon, <1>5 DEF ExpireStaleSignals
  <2>4. ASSUME NEW c \in Cards PROVE RowKnown(c)'
    <3>1. /\ "auto_entered" \in outbox'[c] => "auto_entered" \in outbox[c]
          /\ "auto_not_placed" \in outbox'[c] => "auto_not_placed" \in outbox[c]
      BY <2>2
    <3> QED
      BY <1>0, <2>1, <2>3, <3>1 DEF RowKnown
  <2> QED
    BY Zenon, <1>0, <2>3, <2>4 DEF RowsKnown
<1>6. CASE RecordAttempt
  <2> DEFINE s == card[Sweep]
  <2>1. s \in Cards /\ (result.outcome = "entered" => entry[s] = "auto")
    BY Zenon, <1>6, CardAtWork DEF RecordAttempt, SweepKnown, Actors
  <2>2. UNCHANGED <<signal, marked, reprices, entry>>
    BY Zenon, <1>6 DEF RecordAttempt
  <2>3. outbox' = outbox \/ outbox' = [outbox EXCEPT ![s] = outbox[s] \cup FollowUp(s)]
    BY Zenon, <1>6 DEF RecordAttempt
  <2>4. /\ "auto_entered" \in FollowUp(s) => entry[s] = "auto"
        /\ "auto_not_placed" \in FollowUp(s) => signal[s] = "EXPIRED"
    BY Zenon, <2>1 DEF FollowUp
  <2>5. ASSUME NEW c \in Cards PROVE RowKnown(c)'
    <3>1. /\ "auto_entered" \in outbox'[c] => entry[c] = "auto"
          /\ "auto_not_placed" \in outbox'[c] => signal[c] = "EXPIRED"
      BY <1>0, <2>1, <2>3, <2>4 DEF RowKnown
    <3> QED
      BY Zenon, <1>0, <2>2, <3>1 DEF RowKnown
  <2> QED
    BY Zenon, <1>0, <2>2, <2>5 DEF RowsKnown
<1>7. ASSUME NEW a \in Actors, ReplaceSignal(a) PROVE RowsKnown'
  <2>1. card[a] \in Cards
    BY Zenon, <1>7, CardAtWork DEF ReplaceSignal
  <2>2. ASSUME NEW new \in Cards \ {card[a]},
               signal[card[a]] = "PENDING", signal[new] = "none",
               signal' = [signal EXCEPT ![card[a]] = "EXPIRED", ![new] = "PENDING"],
               reprices' = [reprices EXCEPT ![new] = card[a]],
               UNCHANGED <<marked, entry, attempt, outbox, claimed>>
        PROVE  RowsKnown'
    <3>1. new \notin marked
      BY Zenon, <1>0, <2>2 DEF RowKnown
    <3>2. ASSUME NEW c \in Cards PROVE RowKnown(c)'
      BY <1>0, <2>1, <2>2, <3>1, <3>2 DEF RowKnown
    <3>3. \A c \in Cards : reprices[c] # card[a]
      BY <1>0, <2>1, <2>2 DEF RowKnown
    <3> QED
      BY <1>0, <2>1, <2>2, <3>2, <3>3 DEF RowsKnown
  <2> QED
    BY Zenon, <1>1, <1>7, <2>1, <2>2, ReplaceIs
<1>8. ASSUME NEW a \in Actors, ExpireSignal(a) PROVE RowsKnown'
  BY <1>0, <1>8, ExpireIs DEF RowsKnown, RowKnown
<1>9. ASSUME NEW a \in Actors, Authorize(a) PROVE RowsKnown'
  <2>1. a = Sweep => card[a] \in marked
    BY Zenon, <1>9 DEF Authorize, SweepKnown, Fresh
  <2>2. Trigger(a) \in {"tap", "auto"} /\ (Trigger(a) = "auto" => a = Sweep)
    BY Zenon DEF Trigger
  <2> QED
    BY <1>0, <1>9, <2>1, <2>2, AuthorizeIs DEF RowsKnown, RowKnown
<1> QED
  BY Zenon, <1>1, <1>2, <1>3, <1>4, <1>5, <1>6, <1>7, <1>8, <1>9, RowKinds

-----------------------------------------------------------------------------
(* Where the actors are. *)

\* A caller takes a recorded card, or goes on with its own, or ends.
Takes(a, c) ==
    /\ signal[c] # "none"
    /\ step' = [step EXCEPT ![a] = step'[a]] /\ card' = [card EXCEPT ![a] = c]
Proceeds(a) ==
    /\ step' = [step EXCEPT ![a] = step'[a]]
    /\ \/ card' = card /\ step[a] \notin {"idle", "sweeping"}
       \/ card' \in {card, [card EXCEPT ![a] = NoCard]} /\ step'[a] \in {"idle", "sweeping"}

StepNames == {"idle", "sweeping", "checking", "called", "assessing", "repricing",
              "expiring", "authorizing", "reading", "recording", "claiming"}

\* The end of a call is such a step (execute_signal_by_id).
LEMMA ReturnProceeds ==
  ASSUME TasksOK, NEW a \in Actors, Return(a), step[a] \notin {"idle", "sweeping"}
  PROVE  Proceeds(a) /\ step'[a] \in StepNames
  BY Zenon DEF Return, TasksOK, Proceeds, StepNames

\* So is a step inside it.
LEMMA GoProceeds ==
  ASSUME TasksOK, NEW a \in Actors, NEW to \in StepNames, Go(a, to), step[a] \notin {"idle", "sweeping"}
  PROVE  Proceeds(a) /\ step'[a] \in StepNames
  BY Zenon DEF Go, TasksOK, Proceeds, StepNames

\* Every step is one actor's at most (Next).
LEMMA ActorKinds ==
  ASSUME TasksOK, SweepKnown, [Next]_vars
  PROVE  \/ UNCHANGED <<step, card>>
         \/ \E a \in Actors : step'[a] \in StepNames /\ (Proceeds(a) \/ \E c \in Cards : Takes(a, c))
<1> DEFINE Goal == \/ UNCHANGED <<step, card>>
                   \/ \E a \in Actors : step'[a] \in StepNames
                                        /\ (Proceeds(a) \/ \E c \in Cards : Takes(a, c))
<1> SUFFICES Goal
  BY Zenon
<1>0. Sweep \in Actors /\ Clients \subseteq Actors
  BY Zenon DEF Actors
<1>1. ASSUME NEW c \in Cards, RecordSignal(c) \/ DismissSignal(c) \/ EntryResolves(c) \/ Elapse(c)
      PROVE Goal
  BY Zenon, <1>1 DEF RecordSignal, DismissSignal, EntryResolves, Elapse, actorVars
<1>2. CASE ExpireStaleSignals
  BY Zenon, <1>2 DEF ExpireStaleSignals, actorVars
<1>3. ASSUME NEW a \in Clients, NEW c \in Cards, Tap(a, c) \/ Reevaluate(a, c) PROVE Goal
  <2>1. step'[a] \in StepNames /\ Takes(a, c)
    BY Zenon, <1>0, <1>3 DEF Tap, Reevaluate, Takes, TasksOK, StepNames
  <2> QED
    BY Zenon, <1>0, <2>1
<1>4. ASSUME NEW a \in Actors, AssessCard(a) PROVE Goal
  <2>1. step[a] \notin {"idle", "sweeping"}
    BY Zenon, <1>4 DEF AssessCard
  <2>2. Return(a) \/ \E v \in StepNames : Go(a, v)
    BY Zenon, <1>4 DEF AssessCard, Verdicts, StepNames
  <2> QED
    BY Zenon, <2>1, <2>2, ReturnProceeds, GoProceeds
<1>5. ASSUME NEW a \in Actors,
             ReplaceSignal(a) \/ ExpireSignal(a) \/ Authorize(a) \/ ClaimReevaluation(a) \/ CallRaises(a)
      PROVE Goal
  <2>1. step[a] \notin {"idle", "sweeping"} /\ Return(a)
    BY Zenon, <1>5 DEF ReplaceSignal, ExpireSignal, Authorize, ClaimReevaluation, CallRaises
  <2> QED
    BY Zenon, <2>1, ReturnProceeds
<1>6. CASE AutoEnterPending
  <2>1. step'[Sweep] = "sweeping" /\ Proceeds(Sweep)
    BY Zenon, <1>0, <1>6 DEF AutoEnterPending, Proceeds, TasksOK
  <2> QED
    BY Zenon, <1>0, <2>1 DEF StepNames
<1>7. CASE NextSelected
  <2>1. CASE selected = {}
    <3>1. step'[Sweep] = "idle" /\ Proceeds(Sweep)
      BY Zenon, <1>0, <1>7, <2>1 DEF NextSelected, Proceeds, TasksOK
    <3> QED
      BY Zenon, <1>0, <3>1 DEF StepNames
  <2>2. ASSUME NEW c \in selected, step' = [step EXCEPT ![Sweep] = "checking"],
               card' = [card EXCEPT ![Sweep] = c]
        PROVE  Goal
    <3>1. step'[Sweep] \in StepNames /\ Takes(Sweep, c) /\ c \in Cards
      BY Zenon, <1>0, <2>2 DEF Takes, TasksOK, StepNames, SweepKnown, Fresh
    <3> QED
      BY Zenon, <1>0, <3>1
  <2> QED
    BY Zenon, <1>7, <2>1, <2>2 DEF NextSelected
<1>8. CASE CheckCard \/ ReadSignal \/ ReadOutcome \/ ReadFails
  <2>1. step[Sweep] \notin {"idle", "sweeping"}
    BY Zenon, <1>8 DEF CheckCard, ReadSignal, ReadOutcome, ReadFails
  <2>2. Return(Sweep) \/ Go(Sweep, "recording") \/ Go(Sweep, "called") \/ Go(Sweep, "assessing")
    BY Zenon, <1>8 DEF CheckCard, ReadSignal, ReadOutcome, ReadFails
  <2> QED
    BY Zenon, <1>0, <2>1, <2>2, ReturnProceeds, GoProceeds DEF StepNames
<1>9. CASE RecordAttempt \/ DaemonCrashes
  <2>1. step'[Sweep] \in {"idle", "sweeping"} /\ Proceeds(Sweep)
    BY Zenon, <1>0, <1>9 DEF RecordAttempt, DaemonCrashes, Proceeds, TasksOK
  <2> QED
    BY Zenon, <1>0, <2>1 DEF StepNames
<1>10. CASE UNCHANGED vars
  BY Zenon, <1>10 DEF vars, actorVars
<1> QED
  BY Zenon, <1>1, <1>2, <1>3, <1>4, <1>5, <1>6, <1>7, <1>8, <1>9, <1>10 DEF Next

\* A card at work stays recorded.
LEMMA ActorsKnownNext ==
  ASSUME RowsOK, TasksOK, ActorsKnown, SweepKnown, [Next]_vars
  PROVE  ActorsKnown'
<1>1. \A c \in Cards : signal[c] # "none" => signal'[c] # "none"
  BY Zenon, RowsForward DEF Forward
<1>2. CASE UNCHANGED <<step, card>>
  BY Zenon, <1>1, <1>2 DEF ActorsKnown
<1>3. ASSUME NEW a \in Actors, Proceeds(a) \/ \E c \in Cards : Takes(a, c) PROVE ActorsKnown'
  BY Zenon, <1>1, <1>3 DEF ActorsKnown, Proceeds, Takes, TasksOK
<1> QED
  BY Zenon, <1>2, <1>3, ActorKinds

\* The verdict is one of the journal's outcomes.
LEMMA ResultIs ==
  ASSUME NEW c \in Cards
  PROVE  /\ ResultOf(c).outcome \in Outcomes
         /\ ResultOf(c) \in [outcome : Outcomes \cup {"none"}, follow : SUBSET {"recard", "strike"}]
         /\ [ResultOf(c) EXCEPT !.follow = @ \ {"strike"}].outcome = ResultOf(c).outcome
         /\ [ResultOf(c) EXCEPT !.follow = @ \ {"strike"}]
               \in [outcome : Outcomes \cup {"none"}, follow : SUBSET {"recard", "strike"}]
<1>1. OutcomeAfterCall(c) \in Outcomes
  BY Zenon DEF OutcomeAfterCall, Outcomes
<1> QED
  BY Zenon, <1>1 DEF ResultOf

-----------------------------------------------------------------------------
(* What the sweep may assume. *)

\* Another actor's step, and a step inside the sweep's call of execute_signal_by_id.
SweepWaits ==
    step'[Sweep] = step[Sweep] /\ card'[Sweep] = card[Sweep]
    /\ UNCHANGED <<selected, result, attempt, attempted>>
SweepCalls ==
    /\ step[Sweep] \notin {"idle", "sweeping"} /\ step'[Sweep] \notin {"idle", "sweeping", "recording"}
    /\ card'[Sweep] = card[Sweep] /\ UNCHANGED <<selected, result, attempt, attempted>>

\* Besides its own steps the sweep waits, or is inside its call (_auto_entry_attempt).
LEMMA SweepKinds ==
  ASSUME TasksOK, [Next]_vars
  PROVE  \/ SweepWaits \/ SweepCalls
         \/ AutoEnterPending \/ NextSelected \/ CheckCard \/ ReadOutcome \/ ReadFails \/ RecordAttempt
         \/ DaemonCrashes
<1> USE DEF rowVars, actorVars
<1>0. Sweep \in Actors /\ Clients \subseteq Actors /\ Sweep \notin Clients
  BY Zenon, CardAssumption DEF Actors
<1>1. ASSUME NEW c \in Cards, RecordSignal(c) \/ DismissSignal(c) \/ EntryResolves(c) \/ Elapse(c)
      PROVE SweepWaits
  BY Zenon, <1>1 DEF RecordSignal, DismissSignal, EntryResolves, Elapse, SweepWaits
<1>2. CASE ExpireStaleSignals
  BY Zenon, <1>2 DEF ExpireStaleSignals, SweepWaits
<1>3. ASSUME NEW a \in Clients, NEW c \in Cards, Tap(a, c) \/ Reevaluate(a, c) PROVE SweepWaits
  BY Zenon, <1>0, <1>3 DEF Tap, Reevaluate, SweepWaits, TasksOK
<1>4. ASSUME NEW a \in Actors, Return(a), step[a] \notin {"idle", "sweeping"},
             UNCHANGED <<selected, result, attempt, attempted>>
      PROVE SweepWaits \/ SweepCalls
  BY Zenon, <1>0, <1>4, ReturnIs DEF SweepWaits, SweepCalls
<1>5. ASSUME NEW a \in Actors, NEW v \in {"repricing", "expiring", "authorizing", "assessing"}, Go(a, v),
             step[a] \notin {"idle", "sweeping"}, UNCHANGED <<selected, result, attempt, attempted>>
      PROVE SweepWaits \/ SweepCalls
  BY Zenon, <1>0, <1>5, GoIs DEF SweepWaits, SweepCalls
<1>6. ASSUME NEW a \in Actors, AssessCard(a) PROVE SweepWaits \/ SweepCalls
  <2>1. step[a] \notin {"idle", "sweeping"} /\ UNCHANGED <<selected, result, attempt, attempted>>
    BY Zenon, <1>6 DEF AssessCard
  <2>2. Return(a) \/ \E v \in {"repricing", "expiring", "authorizing", "assessing"} : Go(a, v)
    BY Zenon, <1>6 DEF AssessCard, Verdicts
  <2> QED
    BY Zenon, <1>4, <1>5, <2>1, <2>2
<1>7. ASSUME NEW a \in Actors,
             ReplaceSignal(a) \/ ExpireSignal(a) \/ Authorize(a) \/ ClaimReevaluation(a) \/ CallRaises(a)
      PROVE SweepWaits \/ SweepCalls
  <2>1. /\ step[a] \notin {"idle", "sweeping"} /\ Return(a)
        /\ UNCHANGED <<selected, result, attempt, attempted>>
    BY Zenon, <1>7 DEF ReplaceSignal, ExpireSignal, Authorize, ClaimReevaluation, CallRaises
  <2> QED
    BY Zenon, <1>4, <2>1
<1>8. CASE ReadSignal
  <2>1. step[Sweep] \notin {"idle", "sweeping"} /\ UNCHANGED <<selected, result, attempt, attempted>>
    BY Zenon, <1>8 DEF ReadSignal
  <2>2. Return(Sweep) \/ Go(Sweep, "assessing")
    BY Zenon, <1>8 DEF ReadSignal
  <2> QED
    BY Zenon, <1>0, <1>4, <1>5, <2>1, <2>2
<1>9. CASE UNCHANGED vars
  BY Zenon, <1>9 DEF vars, SweepWaits
<1> QED
  BY Zenon, <1>1, <1>2, <1>3, <1>6, <1>7, <1>8, <1>9 DEF Next

\* The sweep has journaled nothing of the cards before it, and no entry turns into another's.
LEMMA SweepKnownNext ==
  ASSUME RowsOK, TasksOK, ResultOK, RowsKnown, ActorsKnown, SweepKnown, [Next]_vars
  PROVE  SweepKnown'
<1> USE CardAssumption
<1>0. Sweep \in Actors
  BY Zenon DEF Actors
<1>1. /\ \A c \in selected : Fresh(c) /\ c # card[Sweep] /\ c \in Cards
      /\ step[Sweep] \in {"idle", "sweeping"} => card[Sweep] = NoCard
      /\ step[Sweep] \notin {"idle", "sweeping"} => Fresh(card[Sweep]) /\ card[Sweep] \in Cards
      /\ step[Sweep] = "recording" /\ result.outcome = "entered" => entry[card[Sweep]] = "auto"
  BY Zenon, <1>0, CardAtWork DEF SweepKnown, TasksOK
<1>2. ASSUME NEW c \in Cards, Fresh(c), attempt'[c] = attempt[c] PROVE Fresh(c)'
  BY Zenon, <1>2, RowsForward DEF Forward, Fresh
<1>3. \A c \in Cards : entry[c] = "auto" => entry'[c] = "auto"
  BY Zenon, RowsForward DEF Forward
<1>4. CASE SweepWaits
  BY Zenon, <1>1, <1>2, <1>3, <1>4 DEF SweepWaits, SweepKnown
<1>5. CASE SweepCalls
  BY Zenon, <1>1, <1>2, <1>3, <1>5 DEF SweepCalls, SweepKnown
<1>6. CASE AutoEnterPending
  <2>1. \A c \in selected' : c \in Cards /\ Fresh(c)
    BY Zenon, <1>6 DEF AutoEnterPending, Selectable, Fresh
  <2>2. attempt' = attempt /\ step'[Sweep] = "sweeping" /\ card' = card
    BY Zenon, <1>0, <1>6 DEF AutoEnterPending, rowVars, TasksOK
  <2>3. card[Sweep] = NoCard
    BY Zenon, <1>1, <1>6 DEF AutoEnterPending
  <2> QED
    BY Zenon, <1>2, <2>1, <2>2, <2>3 DEF SweepKnown
<1>7. CASE NextSelected
  <2>1. attempt' = attempt
    BY Zenon, <1>7 DEF NextSelected, rowVars
  <2>2. \A c \in selected : Fresh(c)' /\ c \in Cards
    BY Zenon, <1>1, <1>2, <2>1
  <2>3. CASE selected = {}
    <3>1. selected' = {} /\ step'[Sweep] = "idle" /\ card' = card
      BY Zenon, <1>0, <1>7, <2>3 DEF NextSelected, TasksOK
    <3> QED
      BY Zenon, <1>1, <1>7, <3>1 DEF SweepKnown, NextSelected
  <2>4. ASSUME NEW c \in selected, selected' = selected \ {c}, UNCHANGED <<step, card>>
        PROVE  SweepKnown'
    BY Zenon, <1>1, <1>7, <2>2, <2>4 DEF SweepKnown, NextSelected
  <2>5. ASSUME NEW c \in selected, selected' = selected \ {c},
               step' = [step EXCEPT ![Sweep] = "checking"], card' = [card EXCEPT ![Sweep] = c]
        PROVE  SweepKnown'
    <3>1. step'[Sweep] = "checking" /\ card'[Sweep] = c
      BY Zenon, <1>0, <2>5 DEF TasksOK
    <3> QED
      BY Zenon, <2>2, <2>5, <3>1 DEF SweepKnown
  <2> QED
    BY Zenon, <1>7, <2>3, <2>4, <2>5 DEF NextSelected
<1>8. CASE CheckCard
  <2>1. attempt' = attempt /\ selected' = selected /\ card' = card
    BY Zenon, <1>8 DEF CheckCard, rowVars, Go
  <2>2. step[Sweep] = "checking" /\ step'[Sweep] \in {"recording", "called"}
    BY Zenon, <1>0, <1>8 DEF CheckCard, Go, TasksOK
  <2>3. step'[Sweep] = "recording" => result'.outcome # "entered"
    BY <1>0, <1>8 DEF CheckCard, Go, TasksOK
  <2> QED
    BY Zenon, <1>1, <1>2, <2>1, <2>2, <2>3 DEF SweepKnown
<1>9. CASE ReadOutcome \/ ReadFails
  <2> DEFINE c == card[Sweep]
  <2>1. attempt' = attempt /\ entry' = entry /\ selected' = selected /\ card' = card
    BY Zenon, <1>9 DEF ReadOutcome, ReadFails, rowVars, Go
  <2>2. step[Sweep] \in {"checking", "reading"} /\ step'[Sweep] = "recording"
    BY Zenon, <1>0, <1>9 DEF ReadOutcome, ReadFails, Go, TasksOK
  <2>3. result'.outcome \in {"refused", OutcomeAfterCall(c)}
    BY <1>9 DEF ReadOutcome, ReadFails, ResultOf
  <2>4. OutcomeAfterCall(c) = "entered" => entry[c] = "auto"
    <3>1. c \in Cards /\ RowKnown(c)
      BY Zenon, <1>1, <2>2 DEF RowsKnown
    <3> QED
      BY Zenon, <3>1 DEF RowKnown, OutcomeAfterCall, RowsOK
  <2> QED
    BY Zenon, <1>1, <1>2, <2>1, <2>2, <2>3, <2>4 DEF SweepKnown
<1>10. CASE RecordAttempt
  <2>1. step'[Sweep] = "sweeping" /\ card'[Sweep] = NoCard /\ selected' = selected
    BY Zenon, <1>0, <1>10 DEF RecordAttempt, TasksOK
  <2>2. \A c \in Cards : c # card[Sweep] => attempt'[c] = attempt[c]
    BY <1>10 DEF RecordAttempt, RowsOK
  <2> QED
    BY Zenon, <1>1, <1>2, <2>1, <2>2 DEF SweepKnown
<1>11. CASE DaemonCrashes
  BY Zenon, <1>0, <1>11 DEF DaemonCrashes, SweepKnown, TasksOK
<1> QED
  BY Zenon, <1>4, <1>5, <1>6, <1>7, <1>8, <1>9, <1>10, <1>11, SweepKinds

-----------------------------------------------------------------------------
(* The actors' types, and the theorems. *)

\* The verdicts are records of these two fields (_auto_entry_attempt).
LEMMA PlainResult ==
  ASSUME NEW o \in Outcomes \cup {"none"}, NEW f \in SUBSET {"recard", "strike"}
  PROVE  [outcome |-> o, follow |-> f]
            \in [outcome : Outcomes \cup {"none"}, follow : SUBSET {"recard", "strike"}]
  BY Zenon

\* The handlers' and the sweep's local state (execute_signal_by_id, auto_enter_pending).
LEMMA TasksNext ==
  ASSUME RowsOK, TasksOK, ResultOK, ActorsKnown, SweepKnown, [Next]_vars
  PROVE  TasksOK' /\ ResultOK'
<1>0. Sweep \in Actors
  BY Zenon DEF Actors
<1>1. step' \in [Actors -> StepNames] /\ card' \in [Actors -> Cards \cup {NoCard}]
  BY ActorKinds DEF Proceeds, Takes, TasksOK, StepNames
<1>2. faults' \in 0..MaxFaults
  <2>1. faults' = faults \/ (faults < MaxFaults /\ faults' = faults + 1)
    <3>1. ASSUME NEW c \in Cards, RecordSignal(c) \/ DismissSignal(c) \/ EntryResolves(c) \/ Elapse(c)
          PROVE faults' = faults
      BY Zenon, <3>1 DEF RecordSignal, DismissSignal, EntryResolves, Elapse
    <3>2. ASSUME NEW a \in Clients, NEW c \in Cards, Tap(a, c) \/ Reevaluate(a, c) PROVE faults' = faults
      BY Zenon, <3>2 DEF Tap, Reevaluate
    <3>3. ASSUME NEW a \in Actors,
                 AssessCard(a) \/ ReplaceSignal(a) \/ ExpireSignal(a) \/ Authorize(a) \/ ClaimReevaluation(a)
          PROVE faults' = faults
      BY Zenon, <3>3 DEF AssessCard, ReplaceSignal, ExpireSignal, Authorize, ClaimReevaluation
    <3>4. CASE ExpireStaleSignals \/ AutoEnterPending \/ NextSelected \/ CheckCard \/ ReadSignal \/ ReadOutcome
      BY Zenon, <3>4 DEF ExpireStaleSignals, AutoEnterPending, NextSelected, CheckCard, ReadSignal, ReadOutcome
    <3>5. ASSUME NEW a \in Actors, CallRaises(a) PROVE faults < MaxFaults /\ faults' = faults + 1
      BY Zenon, <3>5 DEF CallRaises
    <3>6. CASE ReadFails \/ RecordAttempt \/ DaemonCrashes
      BY Zenon, <3>6 DEF ReadFails, RecordAttempt, DaemonCrashes
    <3>7. CASE UNCHANGED vars
      BY Zenon, <3>7 DEF vars
    <3> QED
      BY Zenon, <3>1, <3>2, <3>3, <3>4, <3>5, <3>6, <3>7 DEF Next
  <2> QED
    BY <2>1, CardFaultAssumption DEF TasksOK
<1>3. selected' \subseteq Cards /\ attempted' \subseteq Cards
  <2>1. CASE AutoEnterPending \/ NextSelected \/ DaemonCrashes
    BY <2>1 DEF AutoEnterPending, NextSelected, DaemonCrashes, TasksOK
  <2>2. CASE SweepWaits \/ SweepCalls \/ CheckCard \/ ReadOutcome \/ ReadFails \/ RecordAttempt
    BY Zenon, <2>2 DEF SweepWaits, SweepCalls, CheckCard, ReadOutcome, ReadFails, RecordAttempt, TasksOK
  <2> QED
    BY Zenon, <2>1, <2>2, SweepKinds
<1>4. ResultOK'
  <2>1. CASE SweepWaits \/ SweepCalls \/ AutoEnterPending \/ NextSelected
    BY Zenon, <2>1 DEF SweepWaits, SweepCalls, AutoEnterPending, NextSelected, ResultOK
  <2>2. CASE CheckCard
    <3>1. \/ result' = result
          \/ result' = [outcome |-> "skipped_not_pending", follow |-> {}]
          \/ result' = [outcome |-> "abandoned", follow |-> {"recard"}]
      BY Zenon, <2>2 DEF CheckCard
    <3>2. {"skipped_not_pending", "abandoned"} \subseteq Outcomes
      BY Zenon DEF Outcomes
    <3>3. "skipped_not_pending" \in Outcomes \cup {"none"} /\ "abandoned" \in Outcomes \cup {"none"}
      BY Zenon, <3>2
    <3>4. {} \in SUBSET {"recard", "strike"} /\ {"recard"} \in SUBSET {"recard", "strike"}
      BY Zenon
    <3>5. /\ [outcome |-> "skipped_not_pending", follow |-> {}]
             \in [outcome : Outcomes \cup {"none"}, follow : SUBSET {"recard", "strike"}]
          /\ [outcome |-> "abandoned", follow |-> {"recard"}]
             \in [outcome : Outcomes \cup {"none"}, follow : SUBSET {"recard", "strike"}]
      BY Zenon, <3>3, <3>4, PlainResult
    <3> QED
      BY Zenon, <3>1, <3>5 DEF ResultOK
  <2>3. CASE ReadOutcome \/ ReadFails
    <3>1. card[Sweep] \in Cards
      BY Zenon, <1>0, <2>3, CardAtWork DEF ReadOutcome, ReadFails
    <3>2. [outcome |-> "refused", follow |-> {"recard"}]
             \in [outcome : Outcomes \cup {"none"}, follow : SUBSET {"recard", "strike"}]
      <4>1. "refused" \in Outcomes
        BY Zenon DEF Outcomes
      <4> QED
        BY Zenon, <4>1, PlainResult
    <3>3. result' \in {[outcome |-> "refused", follow |-> {"recard"}], ResultOf(card[Sweep]),
                       [ResultOf(card[Sweep]) EXCEPT !.follow = @ \ {"strike"}]}
      BY Zenon, <2>3 DEF ReadOutcome, ReadFails
    <3>4. /\ ResultOf(card[Sweep]) \in [outcome : Outcomes \cup {"none"}, follow : SUBSET {"recard", "strike"}]
          /\ [ResultOf(card[Sweep]) EXCEPT !.follow = @ \ {"strike"}]
               \in [outcome : Outcomes \cup {"none"}, follow : SUBSET {"recard", "strike"}]
      BY <3>1, ResultIs, Zenon
    <3> QED
      BY <3>2, <3>3, <3>4, Zenon DEF ResultOK
  <2>4. CASE RecordAttempt \/ DaemonCrashes
    <3>1. result' = [outcome |-> "none", follow |-> {}]
      BY Zenon, <2>4 DEF RecordAttempt, DaemonCrashes, NoResult
    <3> QED
      BY Zenon, <3>1, PlainResult DEF ResultOK
  <2> QED
    BY Zenon, <2>1, <2>2, <2>3, <2>4, SweepKinds
<1> QED
  BY Zenon, <1>1, <1>2, <1>3, <1>4 DEF TasksOK, StepNames

\* No card was recorded yet.
LEMMA CardInit == Init => CardInv
<1> SUFFICES ASSUME Init PROVE CardInv
  BY Zenon
<1> USE CardAssumption, CardFaultAssumption DEF Init, Actors
<1>1. RowsOK /\ TasksOK
  BY DEF RowsOK, TasksOK
<1>2. ResultOK
  BY Zenon, PlainResult DEF NoResult, ResultOK
<1>3. RowsKnown
  BY Zenon DEF RowsKnown, RowKnown
<1>4. ActorsKnown /\ SweepKnown
  BY Zenon DEF ActorsKnown, SweepKnown
<1> QED
  BY Zenon, <1>1, <1>2, <1>3, <1>4, TypeSplit DEF CardInv

\* Every step keeps the invariant: one lemma for each of its parts (Next).
LEMMA CardNext == CardInv /\ [Next]_vars => CardInv'
<1> SUFFICES ASSUME CardInv, [Next]_vars PROVE CardInv'
  BY Zenon
<1>1. RowsOK /\ TasksOK /\ ResultOK /\ RowsKnown /\ ActorsKnown /\ SweepKnown
  BY Zenon, TypeSplit DEF CardInv
<1>2. RowsOK'
  BY Zenon, <1>1, RowsNext
<1>3. TasksOK' /\ ResultOK'
  BY Zenon, <1>1, TasksNext
<1>4. TypeOK'
  BY Zenon, <1>2, <1>3 DEF TypeOK, RowsOK, TasksOK, ResultOK
<1>5. RowsKnown' /\ ActorsKnown' /\ SweepKnown'
  BY Zenon, <1>1, RowsKnownNext, ActorsKnownNext, SweepKnownNext
<1> QED
  BY Zenon, <1>4, <1>5 DEF CardInv

\* What every transaction on the signal row and every step of the sweep keeps, from the first
\* scan on, for any interleaving with crashes and failed calls (agent/copilot.py).
THEOREM CardInductive == Spec => []CardInv
  BY CardInit, CardNext, PTL DEF Spec

\* One thesis gets at most one entry: a re-priced card is never entered, has one replacement,
\* and only a tap enters the replacement (replace_signal, enqueue_entry, _replacement_card).
THEOREM OneEntry == Spec => []OneEntryPerThesis
<1>1. CardInv => OneEntryPerThesis
  <2> SUFFICES ASSUME CardInv, NEW c \in Cards, NEW d \in Cards
               PROVE  /\ reprices[d] = c => signal[c] = "EXPIRED" /\ entry[c] = "none"
                      /\ reprices[c] \in Cards /\ reprices[c] = reprices[d] => c = d
                      /\ reprices[c] # NoCard => entry[c] # "auto"
    BY Zenon DEF OneEntryPerThesis
  <2>1. RowKnown(c) /\ RowKnown(d)
        /\ (reprices[c] = reprices[d] /\ reprices[c] # NoCard => c = d)
    BY Zenon DEF CardInv, RowsKnown
  <2>2. entry[c] \in {"none", "tap", "auto"}
    BY Zenon DEF CardInv, TypeOK
  <2> QED
    BY Zenon, <2>1, <2>2, CardAssumption DEF RowKnown
<1> QED
  BY <1>1, CardInductive, PTL

\* A veto is final, and a journaled attempt is the sweep's last (dismiss_signal, enqueue_entry,
\* pending_auto_entries).
THEOREM VetoIsFinal == Spec => VetoKept
<1> DEFINE Kept == \A c \in Cards :
                     /\ signal[c] \in {"DISMISSED", "EXPIRED", "FAILED"} => signal'[c] = signal[c]
                     /\ attempt[c] # "none" /\ entry[c] # "auto" => entry'[c] # "auto"
<1>1. CardInv /\ [Next]_vars => [Kept]_vars
  <2> SUFFICES ASSUME CardInv, [Next]_vars PROVE Kept
    BY Zenon
  <2>1. RowsOK /\ TasksOK /\ ResultOK /\ RowsKnown /\ ActorsKnown /\ SweepKnown
    BY Zenon, TypeSplit DEF CardInv
  <2>2. Forward
    BY Zenon, <2>1, RowsForward
  <2>3. ASSUME NEW c \in Cards, entry[c] # "auto", entry'[c] = "auto" PROVE attempt[c] = "none"
    <3>1. \E a \in Actors : Authorize(a)
      <4>1. entry' # entry
        BY Zenon, <2>3
      <4>2. ASSUME NEW a \in Actors, ReplaceSignal(a) \/ ExpireSignal(a) PROVE entry' = entry
        BY Zenon, <4>2 DEF ReplaceSignal, ExpireSignal
      <4>3. ASSUME NEW d \in Cards, RecordSignal(d) \/ DismissSignal(d) \/ EntryResolves(d)
            PROVE entry' = entry
        BY Zenon, <4>3 DEF RecordSignal, DismissSignal, EntryResolves
      <4>4. RowsAlone \/ ExpireStaleSignals \/ RecordAttempt => entry' = entry
        BY Zenon DEF RowsAlone, ExpireStaleSignals, RecordAttempt
      <4> QED
        BY Zenon, <4>1, <4>2, <4>3, <4>4, RowKinds
    <3>2. PICK a \in Actors : Authorize(a)
      BY Zenon, <3>1
    <3>3. entry' = [entry EXCEPT ![card[a]] = Trigger(a)]
      BY Zenon, <2>3, <3>2, AuthorizeIs
    <3>4. a = Sweep /\ c = card[Sweep]
      BY Zenon, <2>1, <2>3, <3>3 DEF Trigger, RowsOK
    <3> QED
      BY Zenon, <2>1, <3>2, <3>4 DEF Authorize, SweepKnown, Fresh
  <2> QED
    BY Zenon, <2>2, <2>3 DEF Forward
<1> QED
  BY <1>1, CardInductive, PTL DEF Spec, VetoKept

\* The follow-up messages are true: a card swapped as entered was entered by the sweep, one
\* reported as not placed expired unentered (outcome_after_call, record_auto_entry_attempt).
THEOREM FollowUpsAreTrue == Spec => []FollowUpIsTrue
<1>1. CardInv => FollowUpIsTrue
  <2> SUFFICES ASSUME CardInv, NEW c \in Cards
               PROVE  /\ "auto_entered" \in outbox[c] => entry[c] = "auto"
                      /\ "auto_not_placed" \in outbox[c] => signal[c] = "EXPIRED" /\ entry[c] = "none"
    BY Zenon DEF FollowUpIsTrue, CardInv
  <2>1. RowKnown(c)
    BY Zenon DEF CardInv, RowsKnown
  <2> QED
    BY Zenon, <2>1 DEF RowKnown
<1> QED
  BY <1>1, CardInductive, PTL

-----------------------------------------------------------------------------
(* The insider watch. *)

\* Least element of a non-empty set of natural numbers, from the well-foundedness of < (used for
\* the last date of a capture journal).
LEMMA LeastNat ==
    ASSUME NEW S, S \subseteq Nat, S # {}
    PROVE  \E n \in S : \A m \in S : n <= m
<1> DEFINE R == OpToRel(<, Nat)
<1>1. IsWellFoundedOn(R, Nat)
  BY NatLessThanWellFounded, Zenon
<1>2. \A a, b \in Nat : a < b => <<a, b>> \in R
  BY Zenon DEF OpToRel
<1> HIDE DEF R
<1>3. \E x \in S : \A y \in S : ~ (<<y, x>> \in R)
  BY Zenon, <1>1, WFMin
<1>4. PICK n \in S : \A y \in S : ~ (<<y, n>> \in R)
  BY <1>3, Zenon
<1>5. ASSUME NEW m \in S PROVE n <= m
  <2>1. n \in Nat /\ m \in Nat
    BY Zenon
  <2>2. ~ (m < n)
    BY <2>1, <1>2, <1>4, Zenon
  <2> QED
    BY <2>1, <2>2
<1> QED
  BY Zenon, <1>5

\* Max of a non-empty set of dates none of which is after the bound: latest_recorded_date and
\* latest_filing_date are dates of the set they are taken from.
LEMMA LastDate ==
    ASSUME NEW S, S \subseteq Int, S # {}, NEW b \in Int, \A x \in S : x <= b
    PROVE  Max(S) \in S /\ \A y \in S : Max(S) >= y
<1> DEFINE Behind == {n \in Nat : b - n \in S}
<1>1. Behind # {}
  <2>1. PICK x \in S : TRUE
    BY Zenon
  <2>2. x \in Int /\ x <= b
    BY Zenon, <2>1
  <2>3. b - x \in Nat /\ b - (b - x) = x
    BY <2>2
  <2> QED
    BY Zenon, <2>1, <2>3
<1>2. Behind \subseteq Nat
  BY Zenon
<1>3. PICK n \in Behind : \A m \in Behind : n <= m
  <2> HIDE DEF Behind
  <2> QED
    BY <1>1, <1>2, LeastNat, Zenon
<1>4. b - n \in S
  BY Zenon
<1>5. ASSUME NEW y \in S PROVE b - n >= y
  <2>1. y \in Int /\ y <= b
    BY Zenon
  <2>2. b - y \in Nat /\ b - (b - y) = y
    BY <2>1
  <2>3. b - y \in Behind
    BY Zenon, <2>2
  <2>4. n <= b - y
    <3> HIDE DEF Behind
    <3> QED
      BY <1>3, <2>3, Zenon
  <2>5. n \in Nat
    BY Zenon
  <2> QED
    BY <2>1, <2>4, <2>5
<1> QED
  BY Zenon, <1>4, <1>5 DEF Max

-----------------------------------------------------------------------------
(* The inductive invariant. *)

\* What the event of a filing date may say: a captured date names every document of its scope,
\* as read or as an error, and a date without an index had no filing.
FitEvent(day, event, current) ==
    /\ day \in Int /\ day < current
    /\ event.status \in {"captured", "no_index"}
    /\ \A d \in event.found : event.status = "captured" /\ IssuerOf[d] \in event.scope
    /\ event.status = "captured" =>
         \A d \in Documents : FiledOn[d] = day /\ IssuerOf[d] \in event.scope => d \in event.found \cup event.errors
    /\ event.status = "no_index" => \A d \in Documents : FiledOn[d] # day

FitJournal(j, current) == \A day \in DOMAIN j : FitEvent(day, j[day], current)

\* EDGAR has every filing of a past date, and its indexes have no holes.
FitEdgar(e, current) ==
    /\ e \in [filed : SUBSET Documents, indexes : SUBSET Int, bodies : SUBSET Documents]
    /\ \A d \in Documents : FiledOn[d] < current => d \in e.filed
    /\ \A later \in e.indexes : \A day \in Business \ Closed : day \in Int /\ day < later => day \in e.indexes

PassType ==
    [step : {"date", "documents"}, day : Int, target : Int, begun : Int, held : Seq(Int), rows : SUBSET Documents]

\* The rows of an index are the filings of its date by the issuers of the scope.
FitRows(rows, day, scope) ==
    /\ \A d \in rows : IssuerOf[d] \in scope
    /\ \A d \in Documents : FiledOn[d] = day /\ IssuerOf[d] \in scope => d \in rows

\* A pass stays behind the day it began on, and holds only dates before the one it has reached.
FitPass(w, indexes, current, scope) ==
    w # NoCapture =>
        /\ w \in PassType
        /\ w.target < current
        /\ \A k \in 1..Len(w.held) : w.held[k] < w.day /\ w.held[k] < current
        /\ w.step = "documents" =>
             w.day <= w.target /\ w.day \in indexes /\ FitRows(w.rows, w.day, scope)

WatchInv ==
    /\ today \in Int
    /\ release \in Builds
    /\ FitEdgar(edgar, today)
    /\ FitJournal(captures, today)
    /\ FitPass(worker, edgar.indexes, today, Scope)
    /\ WatchComplete

-----------------------------------------------------------------------------
(* Lemmas. *)

\* record adds an event that fits to a journal that fits, or leaves the journal.
LEMMA JournaledFits ==
    ASSUME NEW day, NEW event, FitJournal(captures, today), FitEvent(day, event, today)
    PROVE  FitJournal(Journaled(day, event), today)
<1>1. CASE day \in DOMAIN captures
  BY <1>1, Zenon DEF Journaled
<1>2. CASE day \notin DOMAIN captures
  <2> DEFINE j == [e \in DOMAIN captures \cup {day} |-> IF e = day THEN event ELSE captures[e]]
  <2>1. Journaled(day, event) = j
    BY <1>2, Zenon DEF Journaled
  <2>2. ASSUME NEW e \in DOMAIN j PROVE FitEvent(e, j[e], today)
    <3>1. CASE e = day
      BY <3>1, Zenon
    <3>2. CASE e # day
      <4>1. e \in DOMAIN captures /\ j[e] = captures[e]
        BY <3>2, Zenon
      <4> QED
        BY <4>1, Zenon DEF FitJournal
    <3> QED
      BY <3>1, <3>2, Zenon
  <2> QED
    BY <2>1, <2>2, Zenon DEF FitJournal
<1> QED
  BY <1>1, <1>2, Zenon

\* A date that is not a business day, or that EDGAR skipped when it published a later index, had
\* no filing: its event is _no_index.
LEMMA NoIndexFits ==
    ASSUME WatchInv, NEW day \in Int, day < today,
           \/ day \notin Business
           \/ day \notin edgar.indexes /\ \E later \in edgar.indexes : day < later
    PROVE  FitEvent(day, _no_index, today)
<1>1. ASSUME NEW d \in Documents PROVE FiledOn[d] # day
  <2>1. FiledOn[d] \in Business \ Closed
    BY WatchAssumption, Zenon
  <2>2. day \in Business \ Closed => \A later \in edgar.indexes : day < later => day \in edgar.indexes
    BY Zenon DEF WatchInv, FitEdgar
  <2> QED
    BY <2>1, <2>2, Zenon
<1> DEFINE event == _no_index
<1>2. event.status = "no_index" /\ event.found = {}
  BY Zenon DEF _no_index
<1> HIDE DEF event
<1>3. FitEvent(day, event, today)
  BY Zenon, <1>1, <1>2 DEF FitEvent
<1> QED
  BY Zenon, <1>3 DEF event

\* parse_daily_index and select_form4 on the index of a past date: the filings of the scope.
LEMMA ListedFits ==
    ASSUME WatchInv, NEW day \in Int, day < today
    PROVE  Listed(day) \subseteq Documents /\ FitRows(Listed(day), day, Scope)
<1>1. edgar.filed \subseteq Documents /\ \A d \in Documents : FiledOn[d] < today => d \in edgar.filed
  BY Zenon DEF WatchInv, FitEdgar
<1> QED
  BY Zenon, <1>1 DEF Listed, FitRows

\* _capture_day: every document of the rows is read or is an error, so that the event fits.
LEMMA CapturedFits ==
    ASSUME NEW day \in Int, day < today, NEW rows \in SUBSET Documents, FitRows(rows, day, Scope)
    PROVE  FitEvent(day, [status |-> "captured", scope |-> Scope, found |-> (rows \cap edgar.bodies) \ Unreadable,
                          errors |-> DocumentErrors(rows)], today)
<1> DEFINE event == [status |-> "captured", scope |-> Scope, found |-> (rows \cap edgar.bodies) \ Unreadable,
                     errors |-> DocumentErrors(rows)]
<1>1. event.status = "captured" /\ event.scope = Scope
      /\ event.found = (rows \cap edgar.bodies) \ Unreadable /\ event.errors = DocumentErrors(rows)
  BY Zenon
<1> HIDE DEF event
<1>2. event.found \subseteq rows /\ rows \subseteq event.found \cup event.errors
  BY Zenon, <1>1 DEF DocumentErrors
<1>3. FitEvent(day, event, today)
  BY Zenon, <1>1, <1>2 DEF FitEvent, FitRows
<1> QED
  BY Zenon, <1>3 DEF event

\* What capture leaves: a journal that fits, and the pass ended or gone on.
LEMMA CaptureFits ==
    ASSUME WatchInv, NEW day \in Int, day < today, NEW rows \in SUBSET Documents, FitRows(rows, day, Scope),
           NEW then, capture(day, rows, then)
    PROVE  FitJournal(captures', today) /\ worker' \in {NoCapture, then}
<1> DEFINE event == [status |-> "captured", scope |-> Scope, found |-> (rows \cap edgar.bodies) \ Unreadable,
                     errors |-> DocumentErrors(rows)]
<1>1. FitEvent(day, event, today)
  BY CapturedFits, Zenon
<1>2. FitJournal(captures, today)
  BY Zenon DEF WatchInv
<1>3. CASE unconfirmed(rows \ edgar.bodies) # {}
  BY <1>2, <1>3, Zenon DEF capture
<1>4. CASE unconfirmed(rows \ edgar.bodies) = {}
  <2>1. captures' = Journaled(day, event) /\ worker' = then
    BY <1>4, Zenon DEF capture
  <2> HIDE DEF event
  <2>2. FitJournal(Journaled(day, event), today)
    BY <1>1, <1>2, JournaledFits, Zenon
  <2> QED
    BY <2>1, <2>2, Zenon
<1> QED
  BY <1>3, <1>4, Zenon

\* The history that merge_watch_history gives to a decision of today, when it reaches the day
\* before: a document of a known issuer without unread filings is in it.
LEMMA HistoryComplete ==
    ASSUME WatchInv, current_for(today), NEW d \in Documents,
           FiledOn[d] >= span_start(today), FiledOn[d] < today,
           NEW e \in history(today).known, IssuerOf[e] = IssuerOf[d],
           IssuerOf[d] \notin history(today).incomplete
    PROVE  d \in history(today).known
<1> DEFINE A == ArchiveThrough[release]
           f == FiledOn[d]
           unread == UNION {captures[day].errors : day \in {x \in live_dates : x >= span_start(today)}}
<1>1. history(today).known = InArchive \cup UNION {captures[day].found : day \in live_dates}
  BY Zenon DEF history
<1>2. history(today).incomplete = {IssuerOf[x] : x \in unread}
  BY Zenon DEF history
<1>3. A \in Int /\ f \in Int /\ today \in Int
  <2>1. release \in Builds /\ today \in Int
    BY Zenon DEF WatchInv
  <2>2. A \in Int
    BY Zenon, <2>1, WatchAssumption
  <2>3. f \in Nat
    BY Zenon, WatchAssumption
  <2> QED
    BY <2>1, <2>2, <2>3
<1>4. FitJournal(captures, today) /\ \A x \in DOMAIN captures : FitEvent(x, captures[x], today)
  BY Zenon DEF WatchInv, FitJournal
<1>5. ASSUME NEW day \in live_dates
      PROVE  /\ day \in DOMAIN captures /\ day \in Int /\ day > A /\ day < today
             /\ SameScope(captures[day])
             /\ \A x \in (A + 1)..day : x \in DOMAIN captures /\ SameScope(captures[x])
  <2>1. day \in DOMAIN captures /\ day > A
        /\ \A x \in (A + 1)..day : x \in DOMAIN captures /\ SameScope(captures[x])
    BY Zenon DEF live_dates
  <2>2. day \in Int /\ day < today
    BY <1>4, <2>1, Zenon DEF FitEvent
  <2>3. day \in (A + 1)..day
    BY <1>3, <2>1, <2>2
  <2> QED
    BY <2>1, <2>2, <2>3, Zenon
<1>6. IssuerOf[d] \in Scope
  <2>1. CASE e \in InArchive
    BY Zenon, <2>1 DEF InArchive
  <2>2. ASSUME NEW day \in live_dates, e \in captures[day].found PROVE IssuerOf[d] \in Scope
    <3>1. captures[day].status = "captured" /\ IssuerOf[e] \in captures[day].scope
      BY <1>4, <1>5, <2>2, Zenon DEF FitEvent
    <3>2. captures[day].scope = Scope
      BY <1>5, <3>1, Zenon DEF SameScope
    <3> QED
      BY <3>1, <3>2, Zenon
  <2> QED
    BY <1>1, <2>1, <2>2, Zenon
<1>7. CASE f <= A
  <2>1. d \in edgar.filed
    BY Zenon DEF WatchInv, FitEdgar
  <2>2. d \in InArchive
    BY <1>6, <1>7, <2>1, Zenon DEF InArchive
  <2> QED
    BY <1>1, <2>2, Zenon
<1>8. CASE f > A
  <2>1. f \in live_dates
    <3> DEFINE S == {A} \cup live_dates
               L == Max(S)
               b == IF A < today THEN today ELSE A
    <3>1. S \subseteq Int /\ S # {} /\ b \in Int /\ \A x \in S : x <= b
      <4> HIDE DEF A
      <4> QED
        BY <1>3, <1>5
    <3>2. L \in S
      <4> HIDE DEF S, b
      <4> QED
        BY <3>1, LastDate, Zenon
    <3>3. L = latest_filing_date
      BY Zenon DEF latest_filing_date
    <3>4. L >= today - 1
      BY <3>3, Zenon DEF current_for
    <3> HIDE DEF L
    <3>5. L \in Int
      BY <3>1, <3>2, Zenon
    <3>6. f <= L
      BY <1>3, <3>4, <3>5
    <3>7. L \in live_dates
      <4>1. L # A
        BY <1>3, <1>8, <3>5, <3>6
      <4> QED
        BY <3>2, <4>1, Zenon
    <3>8. \A x \in (A + 1)..L : x \in DOMAIN captures /\ SameScope(captures[x])
      BY <1>5, <3>7, Zenon
    <3>9. \A x \in (A + 1)..f : x \in (A + 1)..L
      <4> HIDE DEF A, f
      <4> QED
        BY <1>3, <3>5, <3>6
    <3>10. f \in (A + 1)..L
      <4> HIDE DEF A, f
      <4> QED
        BY <1>3, <1>8, <3>5, <3>6
    <3> QED
      BY <1>8, <3>8, <3>9, <3>10, Zenon DEF live_dates
  <2>2. FitEvent(f, captures[f], today) /\ SameScope(captures[f])
    BY <1>4, <1>5, <2>1, Zenon
  <2>3. captures[f].status = "captured"
    BY <2>2, Zenon DEF FitEvent
  <2>4. captures[f].scope = Scope
    BY <2>2, <2>3, Zenon DEF SameScope
  <2>5. d \in captures[f].found \cup captures[f].errors
    BY <1>6, <2>2, <2>3, <2>4, Zenon DEF FitEvent
  <2>6. d \notin captures[f].errors
    <3>1. d \notin unread
      <4> HIDE DEF unread
      <4> QED
        BY <1>2, Zenon
    <3> QED
      BY <2>1, <3>1, Zenon
  <2> QED
    BY <1>1, <2>1, <2>5, <2>6, Zenon
<1> QED
  <2> HIDE DEF A, f
  <2> QED
    BY <1>3, <1>7, <1>8
-----------------------------------------------------------------------------
(* Preservation. *)

\* The daemon starts with an empty journal on the first day.
LEMMA WatchInitInv == WatchInit => WatchInv
<1> SUFFICES ASSUME WatchInit PROVE WatchInv
  BY Zenon
<1>1. today = 1 /\ release = First /\ captures = <<>> /\ worker = NoCapture /\ decision = NoDecision
  BY Zenon DEF WatchInit
<1>2. edgar = [filed |-> {}, indexes |-> {}, bodies |-> {}]
  BY Zenon DEF WatchInit
<1>3. FitEdgar(edgar, today)
  <2>1. ASSUME NEW d \in Documents PROVE ~ (FiledOn[d] < today)
    <3>1. FiledOn[d] \in Nat \ {0}
      BY Zenon, WatchAssumption
    <3> QED
      BY <1>1, <3>1
  <2> QED
    BY Zenon, <1>2, <2>1 DEF FitEdgar
<1>4. FitJournal(captures, today)
  BY <1>1 DEF FitJournal
<1>5. WatchComplete
  BY Zenon, <1>1 DEF WatchComplete, NoDecision
<1>6. today \in Int /\ release \in Builds
  BY <1>1, WatchAssumption
<1> QED
  BY Zenon, <1>1, <1>3, <1>4, <1>5, <1>6 DEF WatchInv, FitPass

\* A completed decision stays what it was while its date and what it read of the day stay.
LEMMA DecisionKept ==
    ASSUME WatchInv, today' = today, UNCHANGED decision
    PROVE  WatchComplete'
BY Zenon DEF WatchInv, WatchComplete, span_start

\* A step of the worker: EDGAR, the date, the release and the decision are as they were.
LEMMA WorkerStep ==
    ASSUME WatchInv, UNCHANGED workerOnly, FitJournal(captures', today),
           FitPass(worker', edgar.indexes, today, Scope)
    PROVE  WatchInv'
<1>1. today' = today /\ edgar' = edgar /\ release' = release /\ decision' = decision
  BY Zenon DEF workerOnly
<1>2. WatchComplete'
  BY <1>1, DecisionKept, Zenon
<1>3. Scope' = Scope
  BY <1>1, Zenon DEF Scope
<1> QED
  BY <1>1, <1>2, <1>3, Zenon DEF WatchInv

\* Everything that the journal and the worker have not moved under stays fit.
LEMMA EdgarStep ==
    ASSUME WatchInv, UNCHANGED <<captures, worker, release, decision>>, today' = today,
           FitEdgar(edgar', today), edgar.indexes \subseteq edgar'.indexes
    PROVE  WatchInv'
<1>1. WatchComplete'
  BY DecisionKept, Zenon
<1>2. Scope' = Scope
  BY Zenon DEF Scope
<1>3. FitPass(worker, edgar'.indexes, today, Scope)
  BY Zenon DEF WatchInv, FitPass
<1> QED
  BY <1>1, <1>2, <1>3, Zenon DEF WatchInv

\* The hour moves on, or the day ends with everything of its date filed.
LEMMA DayPassesInv == WatchInv /\ DayPasses => WatchInv'
<1> SUFFICES ASSUME WatchInv, DayPasses PROVE WatchInv'
  BY Zenon
<1>1. UNCHANGED <<edgar, captures, worker, release>>
  BY Zenon DEF DayPasses
<1>2. CASE UNCHANGED <<today, decision>>
  <2>1. FitEdgar(edgar', today) /\ edgar.indexes \subseteq edgar'.indexes
    BY <1>1, Zenon DEF WatchInv
  <2> QED
    BY <1>1, <1>2, <2>1, EdgarStep, Zenon
<1>3. CASE /\ {d \in Documents : FiledOn[d] = today} \subseteq edgar.filed
           /\ today' = today + 1 /\ decision' = NoDecision
  <2>0. today \in Int
    BY Zenon DEF WatchInv
  <2>1. FitEdgar(edgar, today + 1)
    <3>1. ASSUME NEW d \in Documents, FiledOn[d] < today + 1 PROVE d \in edgar.filed
      <4>1. FiledOn[d] \in Int
        BY WatchAssumption
      <4>2. FiledOn[d] < today \/ FiledOn[d] = today
        BY <2>0, <3>1, <4>1
      <4> QED
        BY <1>3, <4>2, Zenon DEF WatchInv, FitEdgar
    <3> QED
      BY <3>1, Zenon DEF WatchInv, FitEdgar
  <2>2. FitJournal(captures, today + 1)
    <3>1. ASSUME NEW day \in DOMAIN captures PROVE FitEvent(day, captures[day], today + 1)
      <4>1. FitEvent(day, captures[day], today)
        BY Zenon DEF WatchInv, FitJournal
      <4>2. day \in Int /\ day < today + 1
        BY <2>0, <4>1 DEF FitEvent
      <4> QED
        BY <4>1, <4>2, Zenon DEF FitEvent
    <3> QED
      BY <3>1, Zenon DEF FitJournal
  <2>3. FitPass(worker, edgar.indexes, today + 1, Scope)
    <3>1. FitPass(worker, edgar.indexes, today, Scope)
      BY Zenon DEF WatchInv
    <3>2. CASE worker = NoCapture
      BY <3>2, Zenon DEF FitPass
    <3>3. CASE worker # NoCapture
      <4>1. worker \in PassType /\ worker.target < today
            /\ \A k \in 1..Len(worker.held) : worker.held[k] < worker.day /\ worker.held[k] < today
        BY <3>1, <3>3, Zenon DEF FitPass
      <4>2. worker.target < today + 1 /\ \A k \in 1..Len(worker.held) : worker.held[k] < today + 1
        BY <2>0, <4>1 DEF PassType
      <4> QED
        BY <3>1, <3>3, <4>1, <4>2, Zenon DEF FitPass
    <3> QED
      BY <3>2, <3>3, Zenon
  <2>4. WatchComplete'
    BY Zenon, <1>3 DEF WatchComplete, NoDecision
  <2>5. Scope' = Scope /\ today + 1 \in Int
    BY <1>1, <2>0 DEF Scope
  <2> QED
    BY <1>1, <1>3, <2>1, <2>2, <2>3, <2>4, <2>5, Zenon DEF WatchInv
<1> QED
  BY <1>2, <1>3, Zenon DEF DayPasses

\* EDGAR takes a filing of today, publishes a body, or publishes the next index.
LEMMA EdgarInv ==
    ASSUME WatchInv,
           \/ \E d \in Documents : Filed(d) \/ BodyPublished(d)
           \/ \E day \in 1..LastDay : IndexPublished(day)
    PROVE  WatchInv'
<1>1. edgar \in [filed : SUBSET Documents, indexes : SUBSET Int, bodies : SUBSET Documents]
  BY Zenon DEF WatchInv, FitEdgar
<1>2. ASSUME NEW d \in Documents, Filed(d) PROVE WatchInv'
  <2>1. UNCHANGED <<captures, worker, release, decision>> /\ today' = today
    BY <1>2, Zenon DEF Filed, daemonVars
  <2>2. edgar' = [edgar EXCEPT !.filed = edgar.filed \cup {d}]
    BY Zenon, <1>2 DEF Filed
  <2>3. edgar' \in [filed : SUBSET Documents, indexes : SUBSET Int, bodies : SUBSET Documents]
        /\ edgar'.indexes = edgar.indexes /\ edgar.filed \subseteq edgar'.filed
    BY Zenon, <1>1, <2>2
  <2>4. FitEdgar(edgar', today)
    BY <2>3, Zenon DEF WatchInv, FitEdgar
  <2> QED
    BY <2>1, <2>3, <2>4, EdgarStep, Zenon
<1>3. ASSUME NEW d \in Documents, BodyPublished(d) PROVE WatchInv'
  <2>1. UNCHANGED <<captures, worker, release, decision>> /\ today' = today
    BY <1>3, Zenon DEF BodyPublished, daemonVars
  <2>2. edgar' = [edgar EXCEPT !.bodies = edgar.bodies \cup {d}]
    BY Zenon, <1>3 DEF BodyPublished
  <2>3. edgar' \in [filed : SUBSET Documents, indexes : SUBSET Int, bodies : SUBSET Documents]
        /\ edgar'.indexes = edgar.indexes /\ edgar.filed = edgar'.filed
    BY Zenon, <1>1, <2>2
  <2>4. FitEdgar(edgar', today)
    BY <2>3, Zenon DEF WatchInv, FitEdgar
  <2> QED
    BY <2>1, <2>3, <2>4, EdgarStep, Zenon
<1>4. ASSUME NEW day \in 1..LastDay, IndexPublished(day) PROVE WatchInv'
  <2>1. UNCHANGED <<captures, worker, release, decision>> /\ today' = today
    BY <1>4, Zenon DEF IndexPublished, daemonVars
  <2>2. edgar' = [edgar EXCEPT !.indexes = edgar.indexes \cup {day}]
    BY Zenon, <1>4 DEF IndexPublished
  <2>3. edgar' \in [filed : SUBSET Documents, indexes : SUBSET Int, bodies : SUBSET Documents]
        /\ edgar'.indexes = edgar.indexes \cup {day} /\ edgar.filed = edgar'.filed
    BY <1>1, <2>2, WatchAssumption
  <2>4. ASSUME NEW later \in edgar'.indexes, NEW x \in Business \ Closed, x \in Int, x < later
        PROVE  x \in edgar'.indexes
    <3>1. CASE later = day
      <4>1. x \in edgar.indexes
        BY <1>4, <2>4, <3>1, Zenon DEF IndexPublished
      <4> QED
        BY <2>3, <4>1, Zenon
    <3>2. CASE later \in edgar.indexes
      <4>1. x \in edgar.indexes
        BY <2>4, <3>2, Zenon DEF WatchInv, FitEdgar
      <4> QED
        BY <2>3, <4>1, Zenon
    <3> QED
      BY <2>3, <3>1, <3>2, Zenon
  <2>5. FitEdgar(edgar', today)
    BY <2>3, <2>4, Zenon DEF WatchInv, FitEdgar
  <2> QED
    BY <2>1, <2>3, <2>5, EdgarStep, Zenon
<1> QED
  BY <1>2, <1>3, <1>4, Zenon

\* A pass starts on a date: BackfillFrom, or the one after the last that is recorded.
LEMMA StartDateInt == WatchInv => start_date \in Int
<1> SUFFICES ASSUME WatchInv PROVE start_date \in Int
  BY Zenon
<1>1. CASE DOMAIN captures = {}
  BY Zenon, <1>1, WatchAssumption DEF start_date
<1>2. CASE DOMAIN captures # {}
  <2> DEFINE S == DOMAIN captures
  <2>1. \A day \in S : FitEvent(day, captures[day], today)
    BY Zenon DEF WatchInv, FitJournal
  <2>2. today \in Int /\ S \subseteq Int /\ S # {} /\ \A day \in S : day <= today
    BY <1>2, <2>1 DEF WatchInv, FitEvent
  <2>3. Max(S) \in S
    <3> HIDE DEF S
    <3> QED
      BY <2>2, LastDate, Zenon
  <2>4. start_date = Max(S) + 1
    BY Zenon, <1>2 DEF start_date, latest_recorded_date
  <2> HIDE DEF S
  <2> QED
    BY <2>2, <2>3, <2>4
<1> QED
  BY <1>1, <1>2, Zenon

\* run_once: nothing to do today, or a pass that ends at yesterday.
LEMMA RunOnceInv == WatchInv /\ run_once => WatchInv'
<1> SUFFICES ASSUME WatchInv, run_once PROVE WatchInv'
  BY Zenon
<1>1. UNCHANGED workerOnly /\ captures' = captures
  BY Zenon DEF run_once, workerOnly
<1>2. FitJournal(captures', today)
  BY <1>1, Zenon DEF WatchInv
<1>3. FitPass(worker', edgar.indexes, today, Scope)
  <2>1. CASE worker' = worker
    BY <2>1, Zenon DEF WatchInv
  <2>2. CASE worker' = [step |-> "date", day |-> start_date, target |-> target_date, begun |-> today,
                        held |-> <<>>, rows |-> {}]
    <3>1. start_date \in Int /\ today \in Int /\ target_date = today - 1
      BY StartDateInt, Zenon DEF WatchInv, target_date
    <3> DEFINE w == [step |-> "date", day |-> start_date, target |-> target_date, begun |-> today,
                     held |-> <<>>, rows |-> {}]
    <3>2. w \in PassType /\ w.target < today /\ w.step = "date" /\ w.held = <<>>
      BY <3>1 DEF PassType
    <3> HIDE DEF w
    <3>3. FitPass(w, edgar.indexes, today, Scope)
      BY <3>2 DEF FitPass
    <3> QED
      BY <2>2, <3>3, Zenon DEF w
  <2> QED
    BY <2>1, <2>2, Zenon DEF run_once
<1> QED
  BY <1>1, <1>2, <1>3, WorkerStep, Zenon

\* The facts about a running pass.
LEMMA PassFacts ==
    ASSUME WatchInv, worker.step # "idle"
    PROVE  /\ worker \in PassType /\ worker.target < today /\ today \in Int
           /\ \A k \in 1..Len(worker.held) : worker.held[k] < worker.day /\ worker.held[k] < today
           /\ worker.step = "documents" =>
                worker.day <= worker.target /\ worker.day \in edgar.indexes /\ FitRows(worker.rows, worker.day, Scope)
<1>1. worker # NoCapture
  BY DEF NoCapture
<1>2. FitPass(worker, edgar.indexes, today, Scope) /\ today \in Int
  BY Zenon DEF WatchInv
<1> QED
  BY <1>1, <1>2, Zenon DEF FitPass

\* The pass moves on to the next date, with the same dates in hand or with this one held.
LEMMA NextDateFits ==
    ASSUME WatchInv, worker.step \in {"date", "documents"}
    PROVE  FitPass(NextDate, edgar.indexes, today, Scope)
<1>1. worker.step # "idle"
  BY Zenon
<1>2. /\ worker \in PassType /\ worker.target < today /\ today \in Int
      /\ \A k \in 1..Len(worker.held) : worker.held[k] < worker.day /\ worker.held[k] < today
  BY <1>1, PassFacts, Zenon
<1> DEFINE one == [worker EXCEPT !.step = "date"]
           w == [one EXCEPT !.day = worker.day + 1]
<1>3. one \in PassType /\ one.step = "date" /\ one.target = worker.target /\ one.held = worker.held
  BY Zenon, <1>2 DEF PassType
<1>4. NextDate = w
  BY Zenon, <1>2 DEF NextDate, PassType
<1> HIDE DEF one
<1>5. worker.day \in Int
  BY Zenon, <1>2 DEF PassType
<1>6. w \in PassType /\ w.step = "date" /\ w.target = worker.target /\ w.held = worker.held /\ w.day = worker.day + 1
  BY <1>3, <1>5 DEF PassType
<1> HIDE DEF w
<1>7. worker.held \in Seq(Int)
  BY Zenon, <1>2 DEF PassType
<1>8. \A k \in 1..Len(w.held) : w.held[k] < w.day /\ w.held[k] < today
  BY <1>2, <1>5, <1>6, <1>7
<1>9. FitPass(w, edgar.indexes, today, Scope)
  BY Zenon, <1>2, <1>6, <1>8 DEF FitPass
<1> QED
  BY <1>4, <1>9, Zenon

\* The same with the date held.
LEMMA HeldDateFits ==
    ASSUME WatchInv, worker.step = "date", worker.day <= worker.target
    PROVE  FitPass(HeldDate, edgar.indexes, today, Scope)
<1>1. worker.step # "idle"
  BY Zenon
<1>2. /\ worker \in PassType /\ worker.target < today /\ today \in Int
      /\ \A k \in 1..Len(worker.held) : worker.held[k] < worker.day /\ worker.held[k] < today
  BY <1>1, PassFacts, Zenon
<1>0. PICK n \in Int : n = worker.day + 1
  BY <1>2 DEF PassType
<1> DEFINE held == Append(worker.held, worker.day)
           one == [worker EXCEPT !.step = "date"]
           two == [one EXCEPT !.day = n]
           w == [two EXCEPT !.held = held]
<1>3. one \in PassType /\ one.step = "date" /\ one.target = worker.target
  BY Zenon, <1>2 DEF PassType
<1>4. HeldDate = w
  BY Zenon, <1>0, <1>2 DEF HeldDate, NextDate, PassType
<1> HIDE DEF one
<1>5. worker.day \in Int /\ worker.target \in Int /\ worker.held \in Seq(Int)
  BY Zenon, <1>2 DEF PassType
<1>6. two \in PassType /\ two.step = "date" /\ two.target = worker.target /\ two.day = n
  BY Zenon, <1>3 DEF PassType
<1> HIDE DEF two
<1>7. held \in Seq(Int) /\ Len(held) = Len(worker.held) + 1 /\ held[Len(worker.held) + 1] = worker.day
      /\ \A k \in 1..Len(worker.held) : held[k] = worker.held[k]
  BY <1>5
<1> HIDE DEF held
<1>8. w \in PassType /\ w.step = "date" /\ w.target = worker.target /\ w.held = held /\ w.day = worker.day + 1
  BY Zenon, <1>0, <1>6, <1>7 DEF PassType
<1> HIDE DEF w
<1>9. ASSUME NEW k \in 1..Len(held) PROVE held[k] < worker.day + 1 /\ held[k] < today
  <2>1. CASE k = Len(worker.held) + 1
    BY <1>2, <1>5, <1>7, <2>1
  <2>2. CASE k # Len(worker.held) + 1
    <3>1. k \in 1..Len(worker.held)
      BY <1>5, <1>7, <2>2
    <3>2. held[k] = worker.held[k] /\ worker.held[k] < worker.day /\ worker.held[k] < today
      BY <1>2, <1>7, <3>1, Zenon
    <3>3. worker.held[k] \in Int
      BY <1>5, <3>1
    <3> QED
      BY <1>2, <1>5, <3>2, <3>3
  <2> QED
    BY <2>1, <2>2, Zenon
<1>10. FitPass(w, edgar.indexes, today, Scope)
  BY Zenon, <1>2, <1>8, <1>9 DEF FitPass
<1> QED
  BY <1>4, <1>10, Zenon

\* No pass is fit.
LEMMA NoPassFits == FitPass(NoCapture, edgar.indexes, today, Scope)
BY Zenon DEF FitPass

\* The end of a pass, and the steps that read no document.
LEMMA DateStepsInv ==
    ASSUME WatchInv, PassEnds \/ NonBusinessDay \/ IndexMissing \/ IndexFound
    PROVE  WatchInv'
<1>1. FitJournal(captures, today)
  BY Zenon DEF WatchInv
<1>2. CASE PassEnds
  <2>1. UNCHANGED workerOnly /\ captures' = captures /\ worker' = NoCapture
    BY <1>2, Zenon DEF PassEnds
  <2> QED
    BY <1>1, <2>1, NoPassFits, WorkerStep, Zenon
<1>3. CASE NonBusinessDay
  <2>1. UNCHANGED workerOnly /\ worker.step = "date" /\ worker.day <= worker.target /\ worker.day \notin Business
    BY <1>3, Zenon DEF NonBusinessDay, AtDate
  <2>2. worker \in PassType /\ worker.target < today /\ today \in Int
    <3>1. worker.step # "idle"
      BY Zenon, <2>1
    <3> QED
      BY <3>1, PassFacts, Zenon
  <2>3. worker.day \in Int /\ worker.day < today
    BY <2>1, <2>2 DEF PassType
  <2>4. CASE worker.held = <<>>
    <3>1. captures' = Journaled(worker.day, _no_index) /\ worker' = NextDate
      BY <1>3, <2>4, Zenon DEF NonBusinessDay
    <3>2. FitEvent(worker.day, _no_index, today)
      BY <2>1, <2>3, NoIndexFits, Zenon
    <3>3. FitJournal(captures', today)
      BY <1>1, <3>1, <3>2, JournaledFits, Zenon
    <3>4. FitPass(worker', edgar.indexes, today, Scope)
      BY <2>1, <3>1, NextDateFits, Zenon
    <3> QED
      BY <2>1, <3>3, <3>4, WorkerStep, Zenon
  <2>5. CASE worker.held # <<>>
    <3>1. captures' = captures /\ worker' = HeldDate
      BY <1>3, <2>5, Zenon DEF NonBusinessDay
    <3>2. FitPass(worker', edgar.indexes, today, Scope)
      BY <2>1, <3>1, HeldDateFits, Zenon
    <3> QED
      BY <1>1, <2>1, <3>1, <3>2, WorkerStep, Zenon
  <2> QED
    BY <2>4, <2>5, Zenon
<1>4. CASE IndexMissing
  <2>1. UNCHANGED workerOnly /\ worker.step = "date" /\ worker.day <= worker.target
        /\ captures' = captures /\ worker' = HeldDate
    BY <1>4, Zenon DEF IndexMissing, AtDate
  <2>2. FitPass(worker', edgar.indexes, today, Scope)
    BY <2>1, HeldDateFits, Zenon
  <2> QED
    BY <1>1, <2>1, <2>2, WorkerStep, Zenon
<1>5. CASE IndexFound
  <2>1. UNCHANGED workerOnly /\ worker.step = "date" /\ worker.day <= worker.target
        /\ captures' = captures /\ worker.day \in edgar.indexes
        /\ worker' = [worker EXCEPT !.step = "documents", !.rows = Listed(worker.day)]
    BY <1>5, Zenon DEF IndexFound, AtDate
  <2>2. worker \in PassType /\ worker.target < today /\ today \in Int
        /\ \A k \in 1..Len(worker.held) : worker.held[k] < worker.day /\ worker.held[k] < today
    <3>1. worker.step # "idle"
      BY Zenon, <2>1
    <3> QED
      BY <3>1, PassFacts, Zenon
  <2>3. worker.day \in Int /\ worker.day < today
    BY <2>1, <2>2 DEF PassType
  <2>4. Listed(worker.day) \subseteq Documents /\ FitRows(Listed(worker.day), worker.day, Scope)
    BY <2>3, ListedFits, Zenon
  <2>5. PICK rows \in SUBSET Documents : rows = Listed(worker.day)
    BY <2>4, Zenon
  <2> DEFINE one == [worker EXCEPT !.step = "documents"]
             w == [one EXCEPT !.rows = rows]
  <2>6. worker' = w
    BY Zenon, <2>1, <2>2, <2>5 DEF PassType
  <2>7. one \in PassType /\ one.step = "documents" /\ one.target = worker.target /\ one.day = worker.day
        /\ one.held = worker.held
    BY Zenon, <2>2 DEF PassType
  <2> HIDE DEF one
  <2>8. w \in PassType /\ w.step = "documents" /\ w.target = worker.target /\ w.day = worker.day
        /\ w.held = worker.held /\ w.rows = rows
    BY Zenon, <2>7 DEF PassType
  <2> HIDE DEF w
  <2>9. FitPass(w, edgar.indexes, today, Scope)
    BY <2>1, <2>2, <2>4, <2>5, <2>8, Zenon DEF FitPass
  <2> QED
    BY <1>1, <2>1, <2>6, <2>9, WorkerStep, Zenon
<1> QED
  BY <1>2, <1>3, <1>4, <1>5, Zenon

\* The first held date leaves the pass.
LEMMA RestFits ==
    ASSUME WatchInv, worker.step = "documents", worker.held # <<>>
    PROVE  /\ Head(worker.held) \in Int /\ Head(worker.held) < worker.day /\ Head(worker.held) < today
           /\ FitPass([worker EXCEPT !.held = Tail(worker.held)], edgar.indexes, today, Scope)
<1>1. worker.step # "idle"
  BY Zenon
<1>2. /\ worker \in PassType /\ worker.target < today /\ today \in Int
      /\ \A k \in 1..Len(worker.held) : worker.held[k] < worker.day /\ worker.held[k] < today
      /\ worker.day <= worker.target /\ worker.day \in edgar.indexes /\ FitRows(worker.rows, worker.day, Scope)
  BY <1>1, PassFacts, Zenon
<1>3. worker.held \in Seq(Int)
  BY Zenon, <1>2 DEF PassType
<1> DEFINE rest == Tail(worker.held)
<1>4. rest \in Seq(Int) /\ Len(rest) = Len(worker.held) - 1
      /\ \A k \in 1..Len(rest) : rest[k] = worker.held[k + 1] /\ k + 1 \in 1..Len(worker.held)
  BY <1>3
<1>5. 1 \in 1..Len(worker.held) /\ Head(worker.held) = worker.held[1] /\ worker.held[1] \in Int
  BY <1>3
<1> HIDE DEF rest
<1>6. \A k \in 1..Len(rest) : rest[k] < worker.day /\ rest[k] < today
  BY <1>2, <1>4, Zenon
<1> DEFINE w == [worker EXCEPT !.held = rest]
<1>7. w \in PassType /\ w.step = worker.step /\ w.target = worker.target /\ w.day = worker.day
      /\ w.held = rest /\ w.rows = worker.rows
  BY Zenon, <1>2, <1>4 DEF PassType
<1> HIDE DEF w
<1>8. FitPass(w, edgar.indexes, today, Scope)
  BY <1>2, <1>6, <1>7, Zenon DEF FitPass
<1>9. Head(worker.held) \in Int /\ Head(worker.held) < worker.day /\ Head(worker.held) < today
  BY <1>2, <1>5, Zenon
<1> QED
  BY <1>8, <1>9, Zenon DEF w, rest

\* Once a later index exists each held date is captured or inferred closed.
LEMMA RedoHeldInv == WatchInv /\ RedoHeld => WatchInv'
<1> SUFFICES ASSUME WatchInv, RedoHeld PROVE WatchInv'
  BY Zenon
<1> DEFINE day == Head(worker.held)
           rest == [worker EXCEPT !.held = Tail(worker.held)]
<1>1. worker.step = "documents" /\ worker.held # <<>> /\ UNCHANGED workerOnly
      /\ IF PublishedAgain(day) THEN capture(day, Listed(day), rest)
         ELSE captures' = Journaled(day, _no_index) /\ worker' = rest
  BY Zenon DEF RedoHeld
<1>2. day \in Int /\ day < worker.day /\ day < today /\ FitPass(rest, edgar.indexes, today, Scope)
  BY <1>1, RestFits, Zenon
<1>3. FitJournal(captures, today)
  BY Zenon DEF WatchInv
<1>4. worker.day \in edgar.indexes
  <2>1. worker.step # "idle"
    BY Zenon, <1>1
  <2> QED
    BY <1>1, <2>1, PassFacts, Zenon
<1> HIDE DEF day, rest
<1>5. CASE PublishedAgain(day)
  <2>1. Listed(day) \in SUBSET Documents /\ FitRows(Listed(day), day, Scope)
    BY <1>2, ListedFits, Zenon
  <2>2. FitJournal(captures', today) /\ worker' \in {NoCapture, rest}
    BY <1>1, <1>2, <1>5, <2>1, CaptureFits, Zenon
  <2>3. FitPass(worker', edgar.indexes, today, Scope)
    BY <1>2, <2>2, NoPassFits, Zenon
  <2> QED
    BY <1>1, <2>2, <2>3, WorkerStep, Zenon
<1>6. CASE ~ PublishedAgain(day)
  <2>1. day \notin Business \/ day \notin edgar.indexes
    BY <1>6, Zenon DEF PublishedAgain
  <2>2. FitEvent(day, _no_index, today)
    BY <1>2, <1>4, <2>1, NoIndexFits, Zenon
  <2>3. FitJournal(captures', today)
    BY <1>1, <1>3, <1>6, <2>2, JournaledFits, Zenon
  <2>4. FitPass(worker', edgar.indexes, today, Scope)
    BY <1>1, <1>2, <1>6, Zenon
  <2> QED
    BY <1>1, <2>3, <2>4, WorkerStep, Zenon
<1> QED
  BY <1>5, <1>6, Zenon

\* The documents of the index at hand are read, and the date is recorded.
LEMMA CaptureDateInv == WatchInv /\ CaptureDate => WatchInv'
<1> SUFFICES ASSUME WatchInv, CaptureDate PROVE WatchInv'
  BY Zenon
<1>1. worker.step = "documents" /\ UNCHANGED workerOnly /\ capture(worker.day, worker.rows, NextDate)
  BY Zenon DEF CaptureDate
<1>2. /\ worker \in PassType /\ worker.target < today /\ today \in Int
      /\ worker.day <= worker.target /\ FitRows(worker.rows, worker.day, Scope)
  <2>1. worker.step # "idle"
    BY Zenon, <1>1
  <2> QED
    BY <1>1, <2>1, PassFacts, Zenon
<1>3. worker.day \in Int /\ worker.day < today /\ worker.rows \in SUBSET Documents
  BY <1>2 DEF PassType
<1>4. FitJournal(captures', today) /\ worker' \in {NoCapture, NextDate}
  BY <1>1, <1>2, <1>3, CaptureFits, Zenon
<1>5. FitPass(worker', edgar.indexes, today, Scope)
  BY <1>1, <1>4, NoPassFits, NextDateFits, Zenon
<1> QED
  BY <1>1, <1>4, <1>5, WorkerStep, Zenon

\* A failed request ends the pass.
LEMMA RequestFailsInv == WatchInv /\ RequestFails => WatchInv'
<1> SUFFICES ASSUME WatchInv, RequestFails PROVE WatchInv'
  BY Zenon
<1>1. UNCHANGED <<today, edgar, captures, release, decision>> /\ worker' = NoCapture
  BY Zenon DEF RequestFails
<1>2. WatchComplete'
  BY <1>1, DecisionKept, Zenon
<1>3. Scope' = Scope
  BY <1>1, Zenon DEF Scope
<1> QED
  BY <1>1, <1>2, <1>3, NoPassFits, Zenon DEF WatchInv

\* The steps of a decision: only _session_history completes one, on a current history.
LEMMA DecisionStepsInv ==
    ASSUME WatchInv, ArchiveRead \/ ArchiveFails \/ prepare \/ _session_history \/ PrepareTimeout
    PROVE  WatchInv'
<1>1. UNCHANGED <<today, edgar, captures, worker, release>>
  BY Zenon DEF ArchiveRead, ArchiveFails, prepare, _session_history, PrepareTimeout, decisionOnly
<1>2. WatchComplete'
  <2>1. CASE decision' = decision
    BY <1>1, <2>1, DecisionKept, Zenon
  <2>2. CASE decision' \in {Preparing, Unavailable}
    BY <2>2 DEF WatchComplete, Preparing, Unavailable
  <2>3. CASE current_for(today) /\ decision' = [status |-> "completed", history |-> history(today)]
    <3> DEFINE h == history(today)
    <3>1. decision'.history = h
      BY Zenon, <2>3
    <3>2. span_start(today)' = span_start(today)
      BY <1>1, Zenon DEF span_start
    <3>3. ASSUME NEW d \in Documents, FiledOn[d] >= span_start(today), FiledOn[d] < today,
                 IssuerOf[d] \in {IssuerOf[e] : e \in h.known} \ h.incomplete
          PROVE  d \in h.known
      <4>1. PICK e \in h.known : IssuerOf[e] = IssuerOf[d]
        BY <3>3, Zenon
      <4> QED
        BY <2>3, <3>3, <4>1, HistoryComplete, Zenon
    <3> HIDE DEF h
    <3> QED
      BY <1>1, <3>1, <3>2, <3>3, Zenon DEF WatchComplete
  <2> QED
    BY <2>1, <2>2, <2>3, Zenon DEF ArchiveRead, ArchiveFails, prepare, _session_history, PrepareTimeout
<1>3. Scope' = Scope
  BY <1>1, Zenon DEF Scope
<1> QED
  BY <1>1, <1>2, <1>3, Zenon DEF WatchInv

\* Another release starts with no pass and no decision.
LEMMA RestartInv == WatchInv /\ DaemonRestarts => WatchInv'
<1> SUFFICES ASSUME WatchInv, DaemonRestarts PROVE WatchInv'
  BY Zenon
<1>1. UNCHANGED <<today, edgar, captures>> /\ worker' = NoCapture /\ decision' = NoDecision /\ release' \in Builds
  BY Zenon DEF DaemonRestarts
<1>2. WatchComplete'
  BY Zenon, <1>1 DEF WatchComplete, NoDecision
<1>3. FitPass(NoCapture, edgar'.indexes, today', Scope')
  BY Zenon DEF FitPass
<1> QED
  BY <1>1, <1>2, <1>3, Zenon DEF WatchInv

\* Every step of the watch keeps the invariant.
LEMMA WatchStepInv == WatchInv /\ [WatchNext]_watchVars => WatchInv'
<1> SUFFICES ASSUME WatchInv, [WatchNext]_watchVars PROVE WatchInv'
  BY Zenon
<1>1. CASE UNCHANGED watchVars
  <2>1. UNCHANGED <<captures, worker, release, decision, edgar>> /\ today' = today
    BY <1>1, Zenon DEF watchVars, daemonVars
  <2>2. FitEdgar(edgar', today) /\ edgar.indexes \subseteq edgar'.indexes
    BY <2>1, Zenon DEF WatchInv
  <2> QED
    BY <2>1, <2>2, EdgarStep, Zenon
<1>2. CASE WatchNext
  BY <1>2, DayPassesInv, EdgarInv, RunOnceInv, DateStepsInv, RedoHeldInv, CaptureDateInv, RequestFailsInv,
     DecisionStepsInv, RestartInv, Zenon DEF WatchNext
<1> QED
  BY <1>1, <1>2, Zenon

\* "Never a decision on a partial history" (prepare, merge_watch_history, capture_filing_dates), for
\* any calendar, cohort, releases and number of filings, faults and restarts.
THEOREM WatchHistoryComplete == WatchSpec => []WatchComplete
<1>1. WatchInv => WatchComplete
  BY Zenon DEF WatchInv
<1> QED
  BY <1>1, WatchInitInv, WatchStepInv, PTL DEF WatchSpec
=============================================================================
