------------------------------ MODULE CardScan ------------------------------
(***************************************************************************)
(* run_scan of agent/copilot.py and what asks for it: the scheduled        *)
(* suggestion and swing scans, an operator's full scan, and the background *)
(* scans of one name (/scan SYMBOL and Re-evaluate).  A scan of the daemon *)
(* runs under its scan lock: it gates itself, collects and ranks setups,   *)
(* reads today's cards for what it may still spend, sends in rank order    *)
(* and journals.  Between its awaits the clock moves, cards are tapped,    *)
(* expire, fail and are repriced, and the daemon may stop.                 *)
(*                                                                         *)
(* A setup is a contract with the strategy that found it.  What a setup is *)
(* worth (its ranking), the evaluator's gates and the book are choices.    *)
(***************************************************************************)
EXTENDS Integers, Sequences, FiniteSets, Functions

CONSTANTS
    Natives,        \* setups of configured contracts
    Dynamics,       \* setups of screener names, or of a name an operator asks for
    Events,         \* setups of the catalog sources
    SourceOf,       \* event -> catalog source
    Watch,          \* the events of the insider watch
    Carried,        \* native setups whose cards are valid until the next session's close
    ContractOf,     \* setup -> contract
    GroupsOf,       \* setup -> configured correlation groups
    Dynamic,        \* DYNAMIC_CORRELATION_GROUP
    NoSetup,
    MaxPerScan,     \* scan.max_cards_per_scan
    MaxPerSession,  \* scan.max_cards_per_session
    MaxPerGroup,    \* scan.max_cards_per_group_per_session
    MaxPerSource,   \* max_cards_per_session of a catalog source
    MaxLLM,         \* scan.max_llm_evaluations_per_scan
    DayLength,      \* ticks of a New York date
    DedupTime,      \* risk.deduplication_hours
    MaxClock, MaxScans, MaxRequests, MaxReprices, MaxMoves     \* bounds

VARIABLES
    now,
    cards,          \* signals in the order they were recorded
    scan,           \* the scan that holds _scan_lock, or NoScan
    scans,          \* scans begun (their scan_id)
    background,     \* background_scan_tasks and how each ended
    requests,       \* background scans accepted
    reclaimed,      \* cards with a card_reevaluate event
    ranking         \* the scan_candidates_ranked event of the latest scan, or NoEvent

scanVars == <<now, cards, scan, scans, background, requests, reclaimed, ranking>>

Native == Natives \cup Dynamics
Setups == Native \cup Events
Sources == {SourceOf[s] : s \in Events}
Of(source) == {s \in Events : SourceOf[s] = source}
NoScan == [phase |-> "idle"]
NoEvent == [run |-> 0, outcomes |-> <<>>]
Date(t) == t \div DayLength

ASSUME ScanAssumption ==
    /\ IsFiniteSet(Setups)
    /\ MaxPerScan \in Nat /\ MaxPerSession \in Nat /\ MaxPerGroup \in Nat /\ MaxPerSource \in Nat
    /\ MaxLLM \in Nat /\ DayLength \in Nat \ {0}

-----------------------------------------------------------------------------
(* Reads of the signal table: storage/db.py. *)

\* Mutant: a card whose entry failed frees its slot.
SinceUnfailed(t) == {i \in DOMAIN cards : cards[i].at >= t /\ cards[i].reprices = 0 /\ cards[i].status # "failed"}

\* signals_since: a replacement card stands for the card it repriced; a failed card still counts.
signals_since(t) == {i \in DOMAIN cards : cards[i].at >= t /\ cards[i].reprices = 0}

session_start_et == Date(now) * DayLength

is_duplicate_recent(s) ==
    \E i \in DOMAIN cards :
        cards[i].setup = s /\ cards[i].at >= now - DedupTime /\ cards[i].status # "failed"

\* Mutant: an entry being submitted is no live card.
LivePending == {i \in DOMAIN cards : cards[i].status = "pending"}

Live == {i \in DOMAIN cards : cards[i].status \in {"pending", "submitting"}}

live_signal(s) == \E i \in Live : cards[i].setup = s
live_contract(s) == \E i \in Live : ContractOf[cards[i].setup] = ContractOf[s]

-----------------------------------------------------------------------------
(* Kinds of scan. *)

Scheduled == {"suggestion", "swing"}
Background == {"symbol", "reevaluate"}

\* ScanBudget by caller: make_suggestion_scan, register_swing_scan, run_scan, _run_background_scan.
Budget(kind) ==
    IF kind = "suggestion" THEN "FULL"
    ELSE IF kind = "swing" THEN "JOURNAL_ONLY"
    ELSE IF kind = "operator" THEN "SESSION"
    ELSE "NONE"

operator_dynamic == scan.kind = "symbol" /\ scan.target \in Dynamics

\* What the scan can select and fetch: screener and catalog names in a suggestion scan only.
Selectable ==
    IF scan.kind \in Background THEN {s \in Natives \cup ({scan.target} \cap Dynamics) : ContractOf[s] = ContractOf[scan.target]}
    ELSE Natives \cup (IF scan.kind = "suggestion" THEN Dynamics \cup Events ELSE {})

\* _scan_groups, card_groups: a catalog card is never a dynamic name.
card_groups(s) == GroupsOf[s] \cup (IF s \in Dynamics THEN {Dynamic} ELSE {})

capped_groups(s) ==
    IF Budget(scan.kind) # "NONE" THEN card_groups(s)
    ELSE IF operator_dynamic /\ s \in Dynamics THEN {Dynamic} ELSE {}

Groups == {Dynamic} \cup UNION {GroupsOf[s] : s \in Setups}

-----------------------------------------------------------------------------

ScanInit ==
    /\ now = 0
    /\ cards = <<>>
    /\ scan = NoScan /\ scans = 0
    /\ background = [r \in Background \X Native |-> "none"]
    /\ requests = 0
    /\ reclaimed = {}
    /\ ranking = NoEvent

\* _hold_scan_lock: the lock is taken, and the gates come first.
Begin(kind, target) ==
    /\ scan = NoScan
    /\ scans' = scans + 1
    /\ scan' = [phase |-> "collect", kind |-> kind, target |-> target, run |-> scans + 1]
    /\ ranking' = NoEvent
    /\ UNCHANGED <<now, cards, requests, reclaimed>>

\* A cron or interval job of the scheduler, or an operator's full scan, gets the lock.
BeginScan(kind) ==
    /\ kind \notin Background /\ scans < MaxScans
    /\ Begin(kind, NoSetup)
    /\ UNCHANGED background

\* request_symbol_scan: no scan of the name in flight, no live card, an open session.
request_symbol_scan(s) ==
    /\ requests < MaxRequests
    /\ background[<<"symbol", s>>] \notin {"waiting", "running"}
    /\ ~ live_contract(s)
    /\ background' = [background EXCEPT ![<<"symbol", s>>] = "waiting"]
    /\ requests' = requests + 1
    /\ UNCHANGED <<now, cards, scan, scans, reclaimed, ranking>>

\* reevaluate_signal: an expired card of a configured contract, claimed once for good.
reevaluate_signal(i) ==
    LET s == cards[i].setup IN
    /\ requests < MaxRequests
    /\ cards[i].status = "expired" /\ s \in Natives
    /\ ~ live_contract(s)
    /\ i \notin reclaimed
    /\ reclaimed' = reclaimed \cup {i}
    /\ background' = [background EXCEPT ![<<"reevaluate", s>>] = "waiting"]
    /\ requests' = requests + 1
    /\ UNCHANGED <<now, cards, scan, scans, ranking>>

\* _run_background_scan inside its wait for the lock, then past it (ScanBusyError).
BeginBackground(r) ==
    /\ background[r] = "waiting"
    /\ Begin(r[1], r[2])
    /\ background' = [background EXCEPT ![r] = "running"]

ScanBusy(r) ==
    /\ background[r] = "waiting" /\ scan # NoScan
    /\ background' = [background EXCEPT ![r] = "message"]
    /\ UNCHANGED <<now, cards, scan, scans, requests, reclaimed, ranking>>

\* _run_symbol_scan: an unconfigured name fails its validation, or the validation raises.
SymbolRefused(s) ==
    /\ background[<<"symbol", s>>] = "waiting"
    /\ background' = [background EXCEPT ![<<"symbol", s>>] = "message"]
    /\ UNCHANGED <<now, cards, scan, scans, requests, reclaimed, ranking>>

-----------------------------------------------------------------------------
(* The scan. *)

unrestricted == scan.kind \notin Background

\* Mutant: a background scan that was gated reports nothing.
AnswerRun(ran, sent) ==
    [r \in DOMAIN background |->
        IF background[r] = "running" /\ ran THEN (IF sent THEN "card" ELSE "message") ELSE background[r]]

\* _run_background_scan after run_scan: the fresh card is the result, or a message follows.
Answer(ran, sent) ==
    [r \in DOMAIN background |->
        IF background[r] = "running" THEN (IF sent THEN "card" ELSE "message") ELSE background[r]]

\* append_scan_journal: the event of a budgeted full scan; a failed write stops nothing.
append_scan_journal(outcomes) ==
    \/ ranking' = [run |-> scan.run, outcomes |-> outcomes]
    \/ UNCHANGED ranking

\* The returns before any card: a halt, a closed session or nothing to select; or a macro lockout
\* or a failed regime read, which a full scan journals (_record_gated_scan).
Gated ==
    /\ scan.phase = "collect"
    /\ \/ UNCHANGED ranking
       \/ unrestricted /\ append_scan_journal(<<>>)
    /\ scan' = NoScan
    /\ background' = Answer(FALSE, FALSE)
    /\ UNCHANGED <<now, cards, scans, requests, reclaimed>>

\* _admit_candidate: the duplicate rule, with the re-evaluated setup exempt.
Admitted(found) ==
    {s \in found : (scan.kind = "reevaluate" /\ s = scan.target) \/ ~ is_duplicate_recent(s)}

Orders(S) == Injection(1..Cardinality(S), S)

\* COLLECT and RANK: the setups found and admitted, natives by quality, then the
\* sources' events; a journal-only scan's are settled here.
Collect ==
    /\ scan.phase = "collect"
    /\ \E found \in SUBSET Selectable :
         LET admitted == Admitted(found) IN
         \E natives \in Orders(admitted \cap Native), events \in Orders(admitted \cap Events) :
           LET ranked == natives \o events IN
           scan' = [phase |-> IF scan.kind = "swing" THEN "journal" ELSE "budget",
                    kind |-> scan.kind, target |-> scan.target, run |-> scan.run, ranked |-> ranked,
                    outcomes |-> [i \in DOMAIN ranked |-> IF scan.kind = "swing" THEN "held" ELSE "none"]]
    /\ UNCHANGED <<now, cards, scans, background, requests, reclaimed, ranking>>

\* How many of today's cards are of the given setups, or in the group.
Spent(today, setups) == Cardinality({i \in today : cards[i].setup \in setups})
Spent_group(today, g) == Cardinality({i \in today : g \in card_groups(cards[i].setup)})
Left(limit, spent) == IF limit > spent THEN limit - spent ELSE 0

\* The durable, derived budget: what today's recorded cards leave of each allowance.
ReadBudget ==
    /\ scan.phase = "budget"
    /\ LET today == signals_since(session_start_et)
           budget == Budget(scan.kind)
           all == Len(scan.ranked)
       IN scan' = [phase |-> "send", kind |-> scan.kind, target |-> scan.target, run |-> scan.run,
                   ranked |-> scan.ranked, outcomes |-> scan.outcomes, rank |-> 1,
                   perScan |-> IF budget = "FULL" THEN MaxPerScan ELSE all,
                   perSession |-> IF budget = "NONE" THEN all ELSE Left(MaxPerSession, Spent(today, Native)),
                   source |-> [c \in Sources |->
                       IF budget = "NONE" THEN 0 ELSE Left(MaxPerSource, Spent(today, Of(c)))],
                   groups |-> [g \in Groups |->
                       IF budget = "NONE" /\ ~ (operator_dynamic /\ g = Dynamic) THEN 0 ELSE Spent_group(today, g)],
                   llm |-> MaxLLM, calls |-> 0, breaker |-> "closed"]
    /\ UNCHANGED <<now, cards, scans, background, requests, reclaimed, ranking>>

Sending == scan.phase = "send" /\ scan.rank <= Len(scan.ranked)
candidate == scan.ranked[scan.rank]

Settle(outcome) ==
    [scan EXCEPT !.outcomes = [scan.outcomes EXCEPT ![scan.rank] = outcome],
                 !.rank = scan.rank + 1, !.phase = "send"]

\* Contracts this scan carded: a watch event never cards one of them again.
carded_contracts == {ContractOf[scan.ranked[i]] : i \in {j \in DOMAIN scan.ranked : scan.outcomes[j] = "sent"}}

\* The send loop's refusals before the evaluator.
Refused(s) ==
    \/ s \in Watch /\ ContractOf[s] \in carded_contracts
    \/ s \in Events /\ scan.source[SourceOf[s]] <= 0
    \/ s \in Native /\ (scan.perScan <= 0 \/ scan.perSession <= 0 \/ scan.llm <= 0)
    \/ \E g \in capped_groups(s) : scan.groups[g] >= MaxPerGroup
    \/ s \in Carried /\ live_signal(s)

\* The next candidate is a runner-up: refused, a broad-index fund, or withheld by the card policy.
RunnerUp ==
    /\ Sending
    /\ candidate \in Native \/ Refused(candidate)
    /\ scan' = Settle("held")
    /\ UNCHANGED <<now, cards, scans, background, requests, reclaimed, ranking>>

\* The next candidate goes to the evaluator; a native one spends an LLM evaluation.
Evaluate ==
    /\ Sending /\ ~ Refused(candidate)
    /\ scan' = [scan EXCEPT !.phase = "evaluate", !.llm = IF candidate \in Native THEN scan.llm - 1 ELSE scan.llm]
    /\ UNCHANGED <<now, cards, scans, background, requests, reclaimed, ranking>>

\* No card: the evaluator or the book sizer rejects, the LLM gate vetoes a native candidate, or
\* the candidate raises before its card exists.
NotCarded ==
    /\ scan.phase = "evaluate"
    /\ scan' = Settle("held")
    /\ UNCHANGED <<now, cards, scans, background, requests, reclaimed, ranking>>

\* Mutant: only a failed commentary opens the breaker.
BreakerNative(error) == IF error /\ candidate \in Events THEN "open" ELSE scan.breaker

\* The breaker: after the first gate error, native or catalog, no later candidate calls the gate.
BreakerAfter(error) == IF error THEN "open" ELSE scan.breaker

Calls(error) == IF error /\ scan.breaker = "closed" THEN scan.calls + 1 ELSE scan.calls

\* The LLM gate fails for a native candidate, or is not called any more: no card.
LLMUnavailable ==
    /\ scan.phase = "evaluate" /\ candidate \in Native
    /\ scan' = [Settle("held") EXCEPT !.breaker = BreakerAfter(TRUE), !.calls = Calls(TRUE)]
    /\ UNCHANGED <<now, cards, scans, background, requests, reclaimed, ranking>>

\* Mutant: whatever raises after the card exists makes the candidate an error.
OutcomeRaised(raised) == IF raised THEN "held" ELSE "sent"

\* The outcome is set before the bookkeeping that may still raise, and kept if it does.
OutcomeOf(raised) == "sent"

\* The gate approves, or is commentary on a catalog card: record_signal, then the charges.  A
\* commentary call that fails opens the breaker too.
Record ==
    /\ scan.phase = "evaluate"
    /\ candidate \in Native => scan.breaker = "closed"
    /\ cards' = Append(cards, [setup |-> candidate, at |-> now, status |-> "pending", run |-> scan.run,
                               budget |-> Budget(scan.kind), capped |-> capped_groups(candidate), reprices |-> 0])
    /\ \E raised \in BOOLEAN, error \in {FALSE} \cup {c \in BOOLEAN : candidate \in Events} :
         scan' = [Settle(OutcomeOf(raised)) EXCEPT
                    !.perScan = IF candidate \in Native THEN scan.perScan - 1 ELSE scan.perScan,
                    !.perSession = IF candidate \in Native THEN scan.perSession - 1 ELSE scan.perSession,
                    !.source = [c \in Sources |->
                        IF candidate \in Of(c) THEN scan.source[c] - 1 ELSE scan.source[c]],
                    !.groups = [g \in Groups |->
                        IF g \in card_groups(candidate) THEN scan.groups[g] + 1 ELSE scan.groups[g]],
                    !.breaker = BreakerAfter(error),
                    !.calls = Calls(error)]
    /\ UNCHANGED <<now, scans, background, requests, reclaimed, ranking>>

\* After the last rank: the ranking journal of a full scan, each source's decision, the answer of
\* a background scan, and the lock.
Finish ==
    /\ scan.phase = "journal" \/ (scan.phase = "send" /\ scan.rank > Len(scan.ranked))
    /\ IF unrestricted
       THEN append_scan_journal([i \in DOMAIN scan.ranked |-> <<scan.ranked[i], scan.outcomes[i]>>])
       ELSE UNCHANGED ranking
    /\ scan' = NoScan
    /\ background' = Answer(TRUE, \E i \in DOMAIN scan.outcomes : scan.outcomes[i] = "sent")
    /\ UNCHANGED <<now, cards, scans, requests, reclaimed>>

\* The scan raises outside its guards; a background scan says it failed.
ScanRaises ==
    /\ scan # NoScan
    /\ scan' = NoScan
    /\ background' = Answer(TRUE, FALSE)
    /\ UNCHANGED <<now, cards, scans, requests, reclaimed, ranking>>

ScanSteps ==
    \/ Gated \/ Collect \/ ReadBudget
    \/ RunnerUp \/ Evaluate \/ NotCarded \/ LLMUnavailable \/ Record \/ Finish

-----------------------------------------------------------------------------
(* Around the scan. *)

Elapse ==
    /\ now < MaxClock
    /\ now' = now + 1
    /\ UNCHANGED <<cards, scan, scans, background, requests, reclaimed, ranking>>

\* Steps the cards have taken (a bound).
Moves == Cardinality({i \in DOMAIN cards : cards[i].status # "pending"})
         + Cardinality({i \in DOMAIN cards : cards[i].status = "failed"})

\* A tap or the auto-entry sweep authorizes a card; its entry executes or fails; an untapped card
\* is dismissed or expires (an executed and a dismissed card are both done here).
CardMoves(i) ==
    /\ cards[i].status \in {"pending", "submitting"}
    /\ Moves < MaxMoves
    /\ \E next \in IF cards[i].status = "pending" THEN {"submitting", "expired", "done"} ELSE {"done", "failed"} :
          cards' = [cards EXCEPT ![i].status = next]
    /\ UNCHANGED <<now, scan, scans, background, requests, reclaimed, ranking>>

\* replace_signal: the old card expires and the repriced one is recorded in one transaction.
replace_signal(i) ==
    /\ cards[i].status = "pending"
    /\ Moves < MaxMoves /\ Cardinality({j \in DOMAIN cards : cards[j].reprices # 0}) < MaxReprices
    /\ cards' = Append([cards EXCEPT ![i].status = "expired"], [cards[i] EXCEPT !.at = now, !.reprices = i])
    /\ UNCHANGED <<now, scan, scans, background, requests, reclaimed, ranking>>

\* The daemon stops and starts again: the lock and the background tasks are gone, the rows stay.
ScanLost ==
    /\ scan # NoScan \/ \E r \in DOMAIN background : background[r] = "waiting"
    /\ scan' = NoScan
    /\ background' = [r \in DOMAIN background |->
          IF background[r] \in {"waiting", "running"} THEN "lost" ELSE background[r]]
    /\ UNCHANGED <<now, cards, scans, requests, reclaimed, ranking>>

ScanNext ==
    \/ \E kind \in Scheduled \cup {"operator"} : BeginScan(kind)
    \/ \E s \in Native : request_symbol_scan(s)
    \/ \E s \in Dynamics : SymbolRefused(s)
    \/ \E i \in DOMAIN cards : reevaluate_signal(i) \/ CardMoves(i) \/ replace_signal(i)
    \/ \E r \in Background \X Native : BeginBackground(r) \/ ScanBusy(r)
    \/ ScanSteps \/ ScanRaises
    \/ Elapse \/ ScanLost

\* The event loop runs the scan it holds, and a waiting background scan gets the lock or its
\* timeout fires.
ScanFairness ==
    /\ WF_scanVars(ScanSteps)
    /\ WF_scanVars(\E r \in Background \X Native : BeginBackground(r) \/ ScanBusy(r))

ScanSpec == ScanInit /\ [][ScanNext]_scanVars /\ ScanFairness

-----------------------------------------------------------------------------
(* Properties. *)

Day(i) == Date(cards[i].at)
Recorded(i) == cards[i].reprices = 0

\* The ration of cards holds for every New York date, whatever restarts, failed entries, repriced
\* cards and scans over midnight come between the reads of run_scan: native cards of budgeted
\* scans, cards of a catalog source, and cards of a correlation group that the scan had to
\* respect; of one suggestion scan, MaxPerScan native cards; no contract carded again by a watch
\* event of the same scan; and an LLM outage costs a scan one failed call.
CardsRationed ==
    /\ \A d \in 0..Date(MaxClock) :
         /\ Cardinality({i \in DOMAIN cards : Day(i) = d /\ Recorded(i) /\ cards[i].setup \in Native
                                               /\ cards[i].budget # "NONE"}) <= MaxPerSession
         /\ \A c \in Sources :
              Cardinality({i \in DOMAIN cards : Day(i) = d /\ Recorded(i) /\ cards[i].setup \in Of(c)}) <= MaxPerSource
         /\ \A g \in Groups :
              Cardinality({i \in DOMAIN cards : Day(i) = d /\ Recorded(i) /\ g \in cards[i].capped}) <= MaxPerGroup
    /\ \A i \in DOMAIN cards : cards[i].budget = "FULL" /\ cards[i].setup \in Native =>
         Cardinality({j \in DOMAIN cards : cards[j].run = cards[i].run /\ Recorded(j) /\ cards[j].setup \in Native})
            <= MaxPerScan
    /\ \A i, j \in DOMAIN cards :
         Recorded(i) /\ Recorded(j) /\ i < j /\ cards[i].run = cards[j].run /\ cards[j].setup \in Watch =>
            ContractOf[cards[i].setup] # ContractOf[cards[j].setup]
    /\ scan.phase \in {"send", "evaluate"} => scan.calls <= 1

\* A journaled scan tells what it did (_journal_scan_ranking): every ranked setup has its outcome,
\* "sent" exactly when the scan recorded its card, and no card of the scan is missing.
ScanAccounted ==
    LET sent == {cards[i].setup : i \in {j \in DOMAIN cards : cards[j].run = ranking.run /\ Recorded(j)}}
        told == {e \in Range(ranking.outcomes) : e[2] = "sent"}
    IN /\ \A e \in Range(ranking.outcomes) : e[2] # "none"
       /\ ranking.run > 0 => sent = {e[1] : e \in told}

\* "one live card per setup": a setup whose cards are carried over the session never has two cards
\* that can still be entered, although a re-evaluation skips the duplicate rule and a card may be
\* repriced while a scan runs.
OneLiveCard ==
    \A i, j \in DOMAIN cards :
       /\ cards[i].setup = cards[j].setup /\ cards[i].setup \in Carried
       /\ cards[i].status \in {"pending", "submitting"} /\ cards[j].status \in {"pending", "submitting"}
       => i = j

\* "a fresh card or a result message will follow": an accepted background scan neither waits nor
\* runs for ever, however long another scan holds the lock and whatever gates or raises; only a
\* restart loses it (_run_background_scan).
RequestAnswered == []<>(\A r \in DOMAIN background : background[r] \notin {"waiting", "running"})

=============================================================================
