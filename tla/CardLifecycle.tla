---------------------------- MODULE CardLifecycle ----------------------------
(***************************************************************************)
(* The life of a suggestion card between its recording and its entry:      *)
(* taps (execute_signal_by_id), dismissals, the expiry sweep, re-pricing,  *)
(* re-evaluation and the paper auto-entry sweep of agent/copilot.py, over  *)
(* the signal rows, the entry work items and the journal of storage/.      *)
(* A client is a Telegram handler or a CLI command; the auto-entry sweep   *)
(* runs in the daemon, one at a time (_auto_entry_lock).                   *)
(***************************************************************************)
EXTENDS Naturals, FiniteSets

CONSTANTS
    Cards,          \* signal ids
    Scanned,        \* the ids a scan may record; the others are left for replacements
    Clients,        \* the handlers that tap
    Sweep,          \* the auto-entry sweep
    NoCard,
    MaxFaults       \* bound on crashes and failed database calls

ASSUME CardAssumption == Scanned \subseteq Cards /\ NoCard \notin Cards /\ Sweep \notin Clients
ASSUME CardFaultAssumption == MaxFaults \in Nat

VARIABLES
    signal,         \* SignalRecord.status; "none" before the row exists
    marked,         \* the cards whose decision_provenance carries the auto_entry marker
    reprices,       \* decision_provenance["reprices"]
    entry,          \* the trigger stored on the card's entry work item
    attempt,        \* the outcome of the journaled auto-entry/{id} event
    outbox,         \* the follow-up notifications queued for the card
    claimed,        \* the cards with a card_reevaluate/{id} event
    elapsed,        \* which of the card's times have passed
    cause,          \* whose assessment expired the card
    step,           \* where each actor is
    card,           \* the card it works on
    result,         \* the sweep's verdict: the outcome, and whether a re-card or a strike may follow
    selected,       \* the cards the sweep read and has not come to yet
    attempted,      \* _auto_entry_attempted, the daemon's memory
    faults

Actors == Clients \cup {Sweep}

rowVars == <<signal, marked, reprices, entry, attempt, outbox, claimed>>
actorVars == <<step, card, result, selected, attempted>>
vars == <<rowVars, elapsed, cause, actorVars, faults>>

Outcomes == {"entered", "refused", "skipped_not_pending", "abandoned"}
NoResult == [outcome |-> "none", follow |-> {}]

TypeOK ==
    /\ signal \in [Cards -> {"none", "PENDING", "SUBMITTING", "EXECUTED", "FAILED",
                             "EXPIRED", "DISMISSED"}]
    /\ marked \subseteq Cards
    /\ reprices \in [Cards -> Cards \cup {NoCard}]
    /\ entry \in [Cards -> {"none", "tap", "auto"}]
    /\ attempt \in [Cards -> Outcomes \cup {"none"}]
    /\ outbox \in [Cards -> SUBSET {"expired", "auto_entered", "auto_not_placed", "auto_refused"}]
    /\ claimed \subseteq Cards
    /\ elapsed \in [Cards -> SUBSET {"freshness", "day", "session"}]
    /\ cause \in [Cards -> {"none", "tap", "auto", "sweep"}]
    /\ step \in [Actors -> {"idle", "sweeping", "checking", "called", "assessing", "repricing",
                            "expiring", "authorizing", "reading", "recording", "claiming"}]
    /\ card \in [Actors -> Cards \cup {NoCard}]
    /\ result \in [outcome : Outcomes \cup {"none"}, follow : SUBSET {"recard", "strike"}]
    /\ selected \subseteq Cards
    /\ attempted \subseteq Cards
    /\ faults \in 0..MaxFaults

Init ==
    /\ signal = [c \in Cards |-> "none"]
    /\ marked = {}
    /\ reprices = [c \in Cards |-> NoCard]
    /\ entry = [c \in Cards |-> "none"]
    /\ attempt = [c \in Cards |-> "none"]
    /\ outbox = [c \in Cards |-> {}]
    /\ claimed = {}
    /\ elapsed = [c \in Cards |-> {}]
    /\ cause = [c \in Cards |-> "none"]
    /\ step = [a \in Actors |-> "idle"]
    /\ card = [a \in Actors |-> NoCard]
    /\ result = NoResult
    /\ selected = {}
    /\ attempted = {}
    /\ faults = 0

Trigger(a) == IF a = Sweep THEN "auto" ELSE "tap"

\* The end of a call of execute_signal_by_id: a handler replies, the sweep reads the outcome.
Return(a) ==
    /\ step' = [step EXCEPT ![a] = IF a = Sweep THEN "reading" ELSE "idle"]
    /\ card' = [card EXCEPT ![a] = IF a = Sweep THEN @ ELSE NoCard]

Go(a, to) == step' = [step EXCEPT ![a] = to] /\ UNCHANGED card

-----------------------------------------------------------------------------
(* Single transactions on the signal row.                                  *)

\* record_signal by a scan; only a native card of a suggestion scan is marked.
RecordSignal(c) ==
    /\ c \in Scanned
    /\ signal[c] = "none"
    /\ signal' = [signal EXCEPT ![c] = "PENDING"]
    /\ marked' \in {marked, marked \cup {c}}
    /\ UNCHANGED <<reprices, entry, attempt, outbox, claimed, elapsed, cause, actorVars, faults>>

DismissSignal(c) ==
    /\ signal[c] = "PENDING"
    /\ signal' = [signal EXCEPT ![c] = "DISMISSED"]
    /\ UNCHANGED <<marked, reprices, entry, attempt, outbox, claimed, elapsed, cause,
                   actorVars, faults>>

\* Mutant: marked cards are left to the auto-entry sweep.
StaleTapOnly == {c \in Cards : signal[c] = "PENDING" /\ c \notin marked /\ "session" \in elapsed[c]}

\* card_is_stale of the pending cards.
Stale == {c \in Cards : signal[c] = "PENDING" /\ "session" \in elapsed[c]}

\* expire_stale_signals: every stale card and its strike in one transaction.
ExpireStaleSignals ==
    /\ Stale # {}
    /\ signal' = [c \in Cards |-> IF c \in Stale THEN "EXPIRED" ELSE signal[c]]
    /\ outbox' = [c \in Cards |-> IF c \in Stale THEN outbox[c] \cup {"expired"} ELSE outbox[c]]
    /\ cause' = [c \in Cards |-> IF c \in Stale THEN "sweep" ELSE cause[c]]
    /\ UNCHANGED <<marked, reprices, entry, attempt, claimed, elapsed, actorVars, faults>>

\* The entry queue ends the entry (module EntryWorkflow).
EntryResolves(c) ==
    /\ signal[c] = "SUBMITTING"
    /\ \E s \in {"EXECUTED", "FAILED"} : signal' = [signal EXCEPT ![c] = s]
    /\ UNCHANGED <<marked, reprices, entry, attempt, outbox, claimed, elapsed, cause,
                   actorVars, faults>>

\* The clock.  The New York day ends after the freshness limit.
Elapse(c) ==
    /\ signal[c] # "none"
    /\ \E t \in {"freshness", "day", "session"} \ elapsed[c] :
          /\ t = "day" => "freshness" \in elapsed[c]
          /\ elapsed' = [elapsed EXCEPT ![c] = @ \cup {t}]
    /\ UNCHANGED <<rowVars, cause, actorVars, faults>>

-----------------------------------------------------------------------------
(* execute_signal_by_id, called by a tap or by the sweep.                  *)

\* A tap reads the card pending; any other status is answered without a change.
Tap(a, c) ==
    /\ a \in Clients
    /\ step[a] = "idle"
    /\ signal[c] = "PENDING"
    /\ step' = [step EXCEPT ![a] = "assessing"]
    /\ card' = [card EXCEPT ![a] = c]
    /\ UNCHANGED <<rowVars, elapsed, cause, result, selected, attempted, faults>>

\* The sweep's call reads the status once more; a halt also refuses it.
ReadSignal ==
    /\ step[Sweep] = "called"
    /\ \/ signal[card[Sweep]] = "PENDING" /\ Go(Sweep, "assessing")
       \/ Return(Sweep)
    /\ UNCHANGED <<rowVars, elapsed, cause, result, selected, attempted, faults>>

\* assess_card: what an assessment may lead to.  A price, a session or a gate can always expire
\* a card or leave it unchanged (waiting, or reads unavailable).  Past the freshness limit only
\* a policy-locked card, which is never marked, still executes.
Verdicts(c) ==
    {"expiring", "unchanged"}
    \cup (IF "session" \in elapsed[c] THEN {}
          ELSE IF "freshness" \in elapsed[c] /\ c \in marked THEN {"repricing"}
          ELSE {"repricing", "authorizing"})

AssessCard(a) ==
    /\ step[a] = "assessing"
    /\ \E v \in Verdicts(card[a]) : IF v = "unchanged" THEN Return(a) ELSE Go(a, v)
    /\ UNCHANGED <<rowVars, elapsed, cause, result, selected, attempted, faults>>

\* Mutant: a queued card may still be replaced.
ReplaceableQueued(c) == signal[c] \in {"PENDING", "SUBMITTING"}

\* The UPDATE ... WHERE status = PENDING of replace_signal and expire_signal changed a row.
Replaceable(c) == signal[c] = "PENDING"

\* Mutant: the replacement inherits the whole provenance.
InheritedMarker(c) == c \in marked

\* _replacement_card drops the auto_entry key.
ReplacementMarker(c) == FALSE

\* replace_signal: the replacement is a new signal with a new recording time and the old valid_until.
ReplaceSignal(a) ==
    /\ step[a] = "repricing"
    /\ LET c == card[a]
       IN  IF Replaceable(c)
           THEN \E new \in Cards :
                   /\ signal[new] = "none"
                   /\ signal' = [signal EXCEPT ![c] = "EXPIRED", ![new] = "PENDING"]
                   /\ marked' = IF ReplacementMarker(c) THEN marked \cup {new} ELSE marked
                   /\ reprices' = [reprices EXCEPT ![new] = c]
                   /\ elapsed' = [elapsed EXCEPT ![new] = elapsed[c] \cap {"session"}]
                   /\ cause' = [cause EXCEPT ![c] = Trigger(a)]
           ELSE UNCHANGED <<signal, marked, reprices, elapsed, cause>>
    /\ Return(a)
    /\ UNCHANGED <<entry, attempt, outbox, claimed, result, selected, attempted, faults>>

\* expire_signal; a re-pricing that leaves no size or no evaluation ends here too.
ExpireSignal(a) ==
    /\ step[a] \in {"expiring", "repricing"}
    /\ LET c == card[a]
       IN  IF Replaceable(c)
           THEN /\ signal' = [signal EXCEPT ![c] = "EXPIRED"]
                /\ cause' = [cause EXCEPT ![c] = Trigger(a)]
           ELSE UNCHANGED <<signal, cause>>
    /\ Return(a)
    /\ UNCHANGED <<marked, reprices, entry, attempt, outbox, claimed, elapsed, result,
                   selected, attempted, faults>>

\* Mutant: the card's status is not read again under the lock.
QueueableStale(c) == entry[c] = "none"

\* enqueue_entry: no item exists and the signal is still pending.
Queueable(c) == entry[c] = "none" /\ signal[c] = "PENDING"

\* enqueue_entry; risk, halt, closes and cancellations may refuse it as well.
Authorize(a) ==
    /\ step[a] = "authorizing"
    /\ LET c == card[a]
       IN  \/ /\ Queueable(c)
              /\ signal' = [signal EXCEPT ![c] = "SUBMITTING"]
              /\ entry' = [entry EXCEPT ![c] = Trigger(a)]
           \/ UNCHANGED <<signal, entry>>
    /\ Return(a)
    /\ UNCHANGED <<marked, reprices, attempt, outbox, claimed, elapsed, cause, result,
                   selected, attempted, faults>>

\* A database call of the handler raises before its write.
CallRaises(a) ==
    /\ step[a] \in {"called", "assessing", "repricing", "expiring", "authorizing"}
    /\ faults < MaxFaults
    /\ faults' = faults + 1
    /\ Return(a)
    /\ UNCHANGED <<rowVars, elapsed, cause, result, selected, attempted>>

-----------------------------------------------------------------------------
(* The auto-entry sweep: auto_enter_pending and _auto_enter_card.          *)

\* Mutant: cards with a journaled attempt are selected again.
SelectableAgain(c) == signal[c] = "PENDING" /\ c \in marked /\ "day" \notin elapsed[c]

\* pending_auto_entries: today's marked pending cards without an attempt event.
Selectable(c) ==
    /\ signal[c] = "PENDING"
    /\ c \in marked
    /\ "day" \notin elapsed[c]
    /\ attempt[c] = "none"

AutoEnterPending ==
    /\ step[Sweep] = "idle"
    /\ \E c \in Cards : Selectable(c)
    /\ selected' = {c \in Cards : Selectable(c)}
    /\ step' = [step EXCEPT ![Sweep] = "sweeping"]
    /\ UNCHANGED <<rowVars, elapsed, cause, card, result, attempted, faults>>

\* The loop: a card this process has come to before is skipped.
NextSelected ==
    /\ step[Sweep] = "sweeping"
    /\ IF selected = {}
       THEN /\ step' = [step EXCEPT ![Sweep] = "idle"]
            /\ UNCHANGED <<card, selected, attempted>>
       ELSE \E c \in selected :
               /\ selected' = selected \ {c}
               /\ attempted' = attempted \cup {c}
               /\ IF c \in attempted
                  THEN UNCHANGED <<step, card>>
                  ELSE /\ step' = [step EXCEPT ![Sweep] = "checking"]
                       /\ card' = [card EXCEPT ![Sweep] = c]
    /\ UNCHANGED <<rowVars, elapsed, cause, result, faults>>

\* _auto_entry_attempt reads the card again: a veto is kept, a late card is abandoned.
CheckCard ==
    /\ step[Sweep] = "checking"
    /\ LET c == card[Sweep]
       IN  IF signal[c] # "PENDING"
           THEN /\ result' = [outcome |-> "skipped_not_pending", follow |-> {}]
                /\ Go(Sweep, "recording")
           ELSE IF "freshness" \in elapsed[c]
           THEN /\ result' = [outcome |-> "abandoned", follow |-> {"recard"}]
                /\ Go(Sweep, "recording")
           ELSE /\ Go(Sweep, "called")
                /\ UNCHANGED result
    /\ UNCHANGED <<rowVars, elapsed, cause, selected, attempted, faults>>

\* Mutant: whoever owns the entry item, a submitting card counts as entered.
OutcomeByStatus(c) ==
    IF signal[c] \in {"SUBMITTING", "EXECUTED"} THEN "entered"
    ELSE IF signal[c] \in {"PENDING", "FAILED", "EXPIRED"} THEN "refused"
    ELSE "skipped_not_pending"

\* outcome_after_call.
OutcomeAfterCall(c) ==
    IF entry[c] = "tap" THEN "skipped_not_pending"
    ELSE IF signal[c] \in {"SUBMITTING", "EXECUTED"} THEN "entered"
    ELSE IF signal[c] \in {"PENDING", "FAILED", "EXPIRED"} THEN "refused"
    ELSE "skipped_not_pending"

\* The verdict on the card as the signal and its work item show it.
ResultOf(c) ==
    [outcome |-> OutcomeAfterCall(c),
     follow  |-> IF OutcomeAfterCall(c) # "refused" THEN {}
                 ELSE IF signal[c] = "PENDING" THEN {"recard"}
                 ELSE IF signal[c] = "EXPIRED" THEN {"strike"} ELSE {}]

\* The outcome is read from state after the call, after an exception too.
ReadOutcome ==
    /\ step[Sweep] = "reading"
    /\ result' = ResultOf(card[Sweep])
    /\ Go(Sweep, "recording")
    /\ UNCHANGED <<rowVars, elapsed, cause, selected, attempted, faults>>

\* A second failure: the re-read fails and the attempt is a plain refusal of the card as it was
\* selected, or the expiry follow-up cannot be read and is dropped.
ReadFails ==
    /\ step[Sweep] \in {"checking", "reading"}
    /\ faults < MaxFaults
    /\ faults' = faults + 1
    /\ result' \in {[outcome |-> "refused", follow |-> {"recard"}],
                    [ResultOf(card[Sweep]) EXCEPT !.follow = @ \ {"strike"}]}
    /\ Go(Sweep, "recording")
    /\ UNCHANGED <<rowVars, elapsed, cause, selected, attempted>>

\* The notifications record_auto_entry_attempt queues, on the status it reads under the lock.
FollowUp(c) ==
    (IF result.outcome = "entered" THEN {"auto_entered"} ELSE {})
    \cup (IF "strike" \in result.follow /\ signal[c] = "EXPIRED" THEN {"expired", "auto_not_placed"} ELSE {})
    \cup (IF "recard" \in result.follow /\ signal[c] = "PENDING" THEN {"auto_refused"} ELSE {})

\* record_auto_entry_attempt: the event is written once, with its follow-up; the write may fail.
RecordAttempt ==
    /\ step[Sweep] = "recording"
    /\ LET c == card[Sweep]
       IN  \/ /\ IF attempt[c] = "none"
                 THEN /\ attempt' = [attempt EXCEPT ![c] = result.outcome]
                      /\ outbox' = [outbox EXCEPT ![c] = @ \cup FollowUp(c)]
                 ELSE UNCHANGED <<attempt, outbox>>
              /\ UNCHANGED faults
           \/ /\ faults < MaxFaults
              /\ faults' = faults + 1
              /\ UNCHANGED <<attempt, outbox>>
    /\ step' = [step EXCEPT ![Sweep] = "sweeping"]
    /\ card' = [card EXCEPT ![Sweep] = NoCard]
    /\ result' = NoResult
    /\ UNCHANGED <<signal, marked, reprices, entry, claimed, elapsed, cause, selected, attempted>>

\* The daemon dies: the sweep starts over with an empty memory.
DaemonCrashes ==
    /\ faults < MaxFaults
    /\ step[Sweep] # "idle"
    /\ faults' = faults + 1
    /\ step' = [step EXCEPT ![Sweep] = "idle"]
    /\ card' = [card EXCEPT ![Sweep] = NoCard]
    /\ result' = NoResult
    /\ selected' = {}
    /\ attempted' = {}
    /\ UNCHANGED <<rowVars, elapsed, cause>>

-----------------------------------------------------------------------------
(* Re-evaluation of an expired card.                                       *)

\* reevaluate_signal up to its claim: expired, and its contract has no live card (here: no live
\* replacement; other cards are other contracts').
Reevaluate(a, c) ==
    /\ a \in Clients
    /\ step[a] = "idle"
    /\ signal[c] = "EXPIRED"
    /\ \A d \in Cards : reprices[d] = c => signal[d] \notin {"PENDING", "SUBMITTING"}
    /\ step' = [step EXCEPT ![a] = "claiming"]
    /\ card' = [card EXCEPT ![a] = c]
    /\ UNCHANGED <<rowVars, elapsed, cause, result, selected, attempted, faults>>

\* claim_card_reevaluation: no event with the card's key.
Unclaimed(c) == c \notin claimed

ClaimReevaluation(a) ==
    /\ step[a] = "claiming"
    /\ LET c == card[a]
       IN  IF Unclaimed(c)
           THEN claimed' = claimed \cup {c}
           ELSE UNCHANGED claimed
    /\ Return(a)
    /\ UNCHANGED <<signal, marked, reprices, entry, attempt, outbox, elapsed, cause, result,
                   selected, attempted, faults>>

-----------------------------------------------------------------------------

Next ==
    \/ \E c \in Cards : RecordSignal(c) \/ DismissSignal(c) \/ EntryResolves(c) \/ Elapse(c)
    \/ ExpireStaleSignals
    \/ \E a \in Clients, c \in Cards : Tap(a, c) \/ Reevaluate(a, c)
    \/ \E a \in Actors :
          \/ AssessCard(a) \/ ReplaceSignal(a) \/ ExpireSignal(a) \/ Authorize(a)
          \/ ClaimReevaluation(a) \/ CallRaises(a)
    \/ AutoEnterPending \/ NextSelected \/ CheckCard \/ ReadSignal \/ ReadOutcome \/ ReadFails
    \/ RecordAttempt \/ DaemonCrashes

Spec == Init /\ [][Next]_vars

\* The sweep runs on (its reads are bounded and its exceptions caught), the card-expiry job
\* runs every five minutes whatever the halt, and the clock advances.
Fairness ==
    /\ WF_vars(ReadSignal \/ AssessCard(Sweep) \/ ReplaceSignal(Sweep)
               \/ ExpireSignal(Sweep) \/ Authorize(Sweep) \/ NextSelected \/ CheckCard
               \/ ReadOutcome \/ RecordAttempt)
    /\ WF_vars(AutoEnterPending)
    /\ WF_vars(ExpireStaleSignals)
    /\ \A c \in Cards : WF_vars(Elapse(c))

FairSpec == Spec /\ Fairness

-----------------------------------------------------------------------------
(* Properties.                                                             *)

\* A re-priced card was never entered and never will be, and it has one replacement: however
\* taps and the sweep interleave, one thesis gets at most one entry; and only the original
\* marked card is entered without a tap, never its replacement (replace_signal, enqueue_entry,
\* _replacement_card).
OneEntryPerThesis ==
    \A c, d \in Cards :
        /\ reprices[d] = c /\ c \in Cards => signal[c] = "EXPIRED" /\ entry[c] = "none"
        /\ reprices[c] \in Cards /\ reprices[c] = reprices[d] => c = d
        /\ reprices[c] # NoCard => entry[c] # "auto"

\* A dismissed, expired or failed card stays so: a Dismiss that wins the race against a tap or
\* the sweep is a veto (dismiss_signal, and the reads under the lock in enqueue_entry).  And
\* once an attempt is journaled the sweep never enters the card, not even after a restart that
\* lost its memory: a card sent again for a tap waits for the tap (pending_auto_entries).
VetoKept ==
    [][\A c \in Cards :
          /\ signal[c] \in {"DISMISSED", "EXPIRED", "FAILED"} => signal'[c] = signal[c]
          /\ attempt[c] # "none" /\ entry[c] # "auto" => entry'[c] # "auto"]_vars

\* What the card says of an automatic entry is true: a swapped card was entered by the sweep,
\* not by a tap that came first, and one reported as not placed expired without an entry
\* (outcome_after_call, record_auto_entry_attempt).
FollowUpIsTrue ==
    TypeOK /\ \A c \in Cards :
        /\ "auto_entered" \in outbox[c] => entry[c] = "auto"
        /\ "auto_not_placed" \in outbox[c] => signal[c] = "EXPIRED" /\ entry[c] = "none"

\* Every pending card ends: it is entered, dismissed or expired (expire_stale_cards).
CardEnds == \A c \in Cards : signal[c] = "PENDING" ~> signal[c] # "PENDING"

\* A card that the sweep's own assessment expired gets its expiry strike, so that it does not
\* keep saying it was entered (_auto_entry_attempt, record_auto_entry_attempt).
ExpiredCardStruck == \A c \in Cards : cause[c] = "auto" ~> "expired" \in outbox[c]

=============================================================================
