--------------------------- MODULE PooledCampaign ---------------------------
(***************************************************************************)
(* The pooled research lane: the campaign of research/pooled/              *)
(* campaign_run.py with its worker thread, the journal ledger of           *)
(* research/pooled/ledger.py and the reservations, charges and one-use     *)
(* confirmation windows of storage/alpha.py.  A run may be started twice,  *)
(* cancelled, killed or lose the answer of a journal write that commits    *)
(* later; a rerun resumes, and after the consumption only a recovery runs. *)
(*                                                                         *)
(* The search is deterministic for a reservation, whose protocol, cube and *)
(* code revision are pinned, so a campaign always proposes and freezes the *)
(* same formulas.  A campaign here has one family.                         *)
(***************************************************************************)
EXTENDS Integers, FiniteSets, Sequences

CONSTANTS
    Campaigns,
    Runs,           \* processes
    Proposals,      \* campaign -> the formulas its search charges, in order
    Frozen,         \* campaign -> those frozen for confirmation
    Budget,         \* the family's budget
    Windows,        \* campaign -> its confirmation interval <<start, end>>
    MaxStarts       \* bound on processes started

\* A search charges something, freezes only what it charged, and its interval is one.
ASSUME PooledAssumption ==
    /\ Budget \in Nat
    /\ \A c \in Campaigns :
          /\ Len(Proposals[c]) \in Nat \ {0}
          /\ Frozen[c] \subseteq {Proposals[c][i] : i \in 1..Len(Proposals[c])}
          /\ Windows[c][1] \in Int /\ Windows[c][2] \in Int /\ Windows[c][1] <= Windows[c][2]

VARIABLES
    record,         \* pooled/campaign/: status, stages and the frozen detail
    charged,        \* pooled/campaign/<c>/family/: charged, or NotReserved
    charges,        \* pooled/formula/<c>/<f>
    counts,         \* pooled/ledger
    consumed,       \* pooled/confirmation: intervals with their campaign and candidates
    runs,           \* each process: its campaign, step, proposal, abort and write without an answer
    opened,         \* confirmation windows opened: by whom, for which campaign (history)
    starts

pooledVars == <<record, charged, charges, counts, consumed, runs, opened, starts>>

NotReserved == -1
NoRecord == [status |-> "none", stages |-> {}, frozen |-> {}]
NoRun == [campaign |-> "none", step |-> "idle", next |-> 1, aborted |-> "no", orphan |-> "none"]

PooledInit ==
    /\ record = [c \in Campaigns |-> NoRecord]
    /\ charged = [c \in Campaigns |-> NotReserved]
    /\ charges = {}
    /\ counts = [formulas_charged |-> 0, campaigns |-> 0, confirmations |-> 0]
    /\ consumed = {}
    /\ runs = [r \in Runs |-> NoRun]
    /\ opened = {}
    /\ starts = 0

-----------------------------------------------------------------------------
(* The repository's transactions.  Each is Accepted or raises, and Applied when it is. *)

journalVars == <<record, charged, charges, counts, consumed>>

WindowsOverlap(v, w) == ~ (v[2] < w[1] \/ w[2] < v[1])

advance_pooled_campaign(c, status) ==
    record' = [record EXCEPT ![c] = [record[c] EXCEPT
        !.status = status, !.stages = @ \cup {status},
        !.frozen = IF status = "frozen" THEN Frozen[c] ELSE @]]

\* Mutant: a formula is charged each time it is proposed.
ChargeRepeated(c, f) ==
    /\ charges' = charges \cup {<<c, f>>}
    /\ charged' = [charged EXCEPT ![c] = @ + 1]
    /\ counts' = [counts EXCEPT !.formulas_charged = @ + 1]

charge_pooled_formula(c, f) ==
    IF <<c, f>> \in charges THEN UNCHANGED <<charged, charges, counts>>
    ELSE /\ charges' = charges \cup {<<c, f>>}
         /\ charged' = [charged EXCEPT ![c] = @ + 1]
         /\ counts' = [counts EXCEPT !.formulas_charged = @ + 1]

\* Mutant: only the campaign's own consumption counts.
ConsumableByOther(c) == \A i \in consumed : i.campaign # c

Consumable(c) == \A i \in consumed : ~ WindowsOverlap(Windows[c], Windows[i.campaign])

consume_pooled_confirmation(c) ==
    /\ consumed' = consumed \cup {[campaign |-> c, candidates |-> Frozen[c]]}
    /\ record' = [record EXCEPT ![c] = [record[c] EXCEPT
          !.status = "confirmation_consumed", !.stages = @ \cup {"confirmation_consumed"}]]
    /\ counts' = [counts EXCEPT !.confirmations = @ + 1]

\* The write a worker makes at a step, its next formula given.
Accepted(c, write, f) ==
    \/ write = "family" /\ record[c].status # "none"
    \/ write = "charge" /\ (<<c, f>> \in charges \/ (charged[c] # NotReserved /\ charged[c] < Budget))
    \/ write = "freeze" /\ record[c].status \notin {"none", "completed"}
    \/ write = "consume" /\ record[c].status # "none" /\ Consumable(c)

Applied(c, write, f) ==
    \/ /\ write = "family"
       /\ charged' = [charged EXCEPT ![c] = IF @ = NotReserved THEN 0 ELSE @]
       /\ UNCHANGED <<record, charges, counts, consumed>>
    \/ write = "charge" /\ charge_pooled_formula(c, f) /\ UNCHANGED <<record, consumed>>
    \/ /\ write = "freeze" /\ advance_pooled_campaign(c, "frozen")
       /\ UNCHANGED <<charged, charges, counts, consumed>>
    \/ write = "consume" /\ consume_pooled_confirmation(c) /\ UNCHANGED <<charged, charges>>

-----------------------------------------------------------------------------
(* A campaign run. *)

\* reserve_pooled_campaign: a new reservation or a resume; a campaign that consumed its window
\* or completed cannot run again.
Resumable(c) == "confirmation_consumed" \notin record[c].stages /\ record[c].status # "completed"

reserve_pooled_campaign(r, c) ==
    /\ runs[r].step = "idle" /\ starts < MaxStarts
    /\ Resumable(c)
    /\ IF record[c].status = "none"
       THEN /\ record' = [record EXCEPT ![c] = [NoRecord EXCEPT !.status = "reserved", !.stages = {"reserved"}]]
            /\ counts' = [counts EXCEPT !.campaigns = @ + 1]
       ELSE UNCHANGED <<record, counts>>
    /\ runs' = [runs EXCEPT ![r] = [NoRun EXCEPT !.campaign = c, !.step = "family"]]
    /\ starts' = starts + 1
    /\ UNCHANGED <<charged, charges, consumed, opened>>

Writing == {"family", "charge", "freeze", "consume"}
Working == Writing \cup {"confirm", "complete"}

\* Mutant: the window is consumed before the candidates are frozen.
AfterUnfrozen(c, step, next) ==
    IF step = "charge" /\ next > Len(Proposals[c]) THEN IF Frozen[c] = {} THEN "complete" ELSE "consume"
    ELSE IF step = "consume" THEN "freeze"
    ELSE IF step = "freeze" THEN "confirm"
    ELSE "charge"

\* What the worker does after a write: the charges, then the freeze and the consumption of its
\* candidates, if it has any (run_search_stages, later_stages).
After(c, step, next) ==
    IF step = "charge" /\ next > Len(Proposals[c]) THEN IF Frozen[c] = {} THEN "complete" ELSE "freeze"
    ELSE IF step = "freeze" THEN "consume"
    ELSE IF step = "consume" THEN "confirm"
    ELSE "charge"

\* JournalLedger._call: scheduled on the loop and waited for; after an abort only the write
\* that had started finishes.
JournalWrite(r) ==
    LET run == runs[r]
        c == run.campaign
        next == IF run.step = "charge" THEN run.next + 1 ELSE run.next
        f == Proposals[c][run.next]
    IN  /\ run.step \in Writing /\ run.aborted # "all"
        /\ IF Accepted(c, run.step, f)
           THEN /\ Applied(c, run.step, f)
                /\ runs' = [runs EXCEPT ![r].step = After(c, run.step, next), ![r].next = next,
                                        ![r].aborted = IF @ = "one" THEN "all" ELSE @]
           ELSE /\ UNCHANGED journalVars
                /\ runs' = [runs EXCEPT ![r].step = "failing"]
        /\ UNCHANGED <<opened, starts>>

\* The answer does not come within the timeout: the worker raises and its write is left running.
WriteTimesOut(r) ==
    /\ runs[r].step \in Writing /\ runs[r].aborted # "all"
    /\ runs' = [runs EXCEPT ![r].step = "failing", ![r].orphan = runs[r].step]
    /\ UNCHANGED <<journalVars, opened, starts>>

LateWrite(r) ==
    LET run == runs[r]
        f == Proposals[run.campaign][run.next]
    IN  /\ run.orphan # "none"
        /\ IF Accepted(run.campaign, run.orphan, f) THEN Applied(run.campaign, run.orphan, f)
           ELSE UNCHANGED journalVars
        /\ runs' = [runs EXCEPT ![r].orphan = "none"]
        /\ UNCHANGED <<opened, starts>>

\* CampaignWindows.confirmation once its consumption has returned, and the confirmation on it.
OpenWindow(r) ==
    /\ runs[r].step = "confirm"
    /\ opened' = opened \cup {[by |-> r, campaign |-> runs[r].campaign, kind |-> "run"]}
    /\ runs' = [runs EXCEPT ![r].step = "complete"]
    /\ UNCHANGED <<journalVars, starts>>

\* advance_pooled_campaign(completed) from the run itself; it raises when the campaign is completed.
Complete(r) ==
    /\ runs[r].step = "complete" /\ runs[r].aborted = "no"
    /\ IF record[runs[r].campaign].status = "completed"
       THEN /\ runs' = [runs EXCEPT ![r].step = "failing"]
            /\ UNCHANGED record
       ELSE /\ advance_pooled_campaign(runs[r].campaign, "completed")
            /\ runs' = [runs EXCEPT ![r] = NoRun]
    /\ UNCHANGED <<charged, charges, counts, consumed, opened, starts>>

\* An exception anywhere in the run's own computation.
StageFails(r) ==
    /\ runs[r].step \in Working /\ runs[r].aborted = "no"
    /\ runs' = [runs EXCEPT ![r].step = "failing"]
    /\ UNCHANGED <<journalVars, opened, starts>>

\* A cancellation aborts the ledger while the worker is in a write that started, or in none.
Cancel(r) ==
    /\ runs[r].step \in Working /\ runs[r].aborted = "no"
    /\ \E aborted \in {"all"} \cup {"one" : s \in Writing \cap {runs[r].step}} :
          runs' = [runs EXCEPT ![r].aborted = aborted]
    /\ UNCHANGED <<journalVars, opened, starts>>

\* The worker stopped: at its next ledger call, or with the outcome it only had to compute.
RunStops(r) ==
    /\ runs[r].aborted # "no" /\ runs[r].step \in Writing \cup {"complete"}
    /\ runs' = [runs EXCEPT ![r].step = "failing"]
    /\ UNCHANGED <<journalVars, opened, starts>>

\* The failure and cancellation paths: advance to failed, unless completed.
AdvanceFailed(r) ==
    /\ runs[r].step = "failing"
    /\ IF record[runs[r].campaign].status = "completed" THEN UNCHANGED record
       ELSE advance_pooled_campaign(runs[r].campaign, "failed")
    /\ runs' = [runs EXCEPT ![r].step = "reporting"]
    /\ UNCHANGED <<charged, charges, counts, consumed, opened, starts>>

\* The process ends after its result, or dies; a write left running dies with it.
ProcessEnds(r) ==
    /\ runs[r].step # "idle"
    /\ runs' = [runs EXCEPT ![r] = NoRun]
    /\ UNCHANGED <<journalVars, opened, starts>>

-----------------------------------------------------------------------------
(* execute_campaign_recovery. *)

\* The recovery's refusals: completed, never consumed, or a freeze or a charge that does not
\* match what was journalled with the consumption.
RecoveryChecks(c) ==
    \E i \in consumed :
       /\ i.campaign = c
       /\ record[c].frozen = i.candidates
       /\ \A f \in i.candidates : <<c, f>> \in charges

Recoverable(c) ==
    /\ "confirmation_consumed" \in record[c].stages /\ record[c].status # "completed"
    /\ RecoveryChecks(c)

Recover(r, c) ==
    /\ runs[r].step = "idle" /\ starts < MaxStarts
    /\ Recoverable(c)
    /\ runs' = [runs EXCEPT ![r] = [NoRun EXCEPT !.campaign = c, !.step = "recovering"]]
    /\ starts' = starts + 1
    /\ UNCHANGED <<journalVars, opened>>

RecoverOpens(r) ==
    /\ runs[r].step = "recovering"
    /\ opened' = opened \cup {[by |-> r, campaign |-> runs[r].campaign, kind |-> "recovery"]}
    /\ runs' = [runs EXCEPT ![r].step = "recovered"]
    /\ UNCHANGED <<journalVars, starts>>

RecoverCompletes(r) ==
    /\ runs[r].step = "recovered"
    /\ IF record[runs[r].campaign].status = "completed" THEN UNCHANGED record
       ELSE advance_pooled_campaign(runs[r].campaign, "completed")
    /\ runs' = [runs EXCEPT ![r] = NoRun]
    /\ UNCHANGED <<charged, charges, counts, consumed, opened, starts>>

PooledNext ==
    \E r \in Runs :
       \/ \E c \in Campaigns : reserve_pooled_campaign(r, c) \/ Recover(r, c)
       \/ JournalWrite(r) \/ WriteTimesOut(r) \/ LateWrite(r)
       \/ OpenWindow(r) \/ Complete(r) \/ StageFails(r) \/ Cancel(r) \/ RunStops(r)
       \/ AdvanceFailed(r) \/ ProcessEnds(r)
       \/ RecoverOpens(r) \/ RecoverCompletes(r)

PooledSpec == PooledInit /\ [][PooledNext]_pooledVars

-----------------------------------------------------------------------------
(* Properties. *)

\* A confirmation interval is used once, lane-wide: consumed intervals never overlap, a window
\* is opened only for the candidates journalled with its consumption, and only one run opens
\* it; what a recovery opens is what that run left (consume_pooled_confirmation,
\* CampaignWindows.confirmation).
WindowUsedOnce ==
    /\ \A i, j \in consumed : i # j => ~ WindowsOverlap(Windows[i.campaign], Windows[j.campaign])
    /\ \A o \in opened : [campaign |-> o.campaign, candidates |-> Frozen[o.campaign]] \in consumed
    /\ \A o, p \in opened : o.campaign = p.campaign /\ o.kind = "run" /\ p.kind = "run" => o = p

\* Nothing consumed is stranded: wherever a run died, was cancelled or lost an answer after
\* the consumption, the journal holds what a recovery checks, and the campaign it completes is
\* never charged, frozen or failed again (execute_campaign_recovery, advance_pooled_campaign).
ConsumedIsRecoverable ==
    \A c \in Campaigns :
       /\ "confirmation_consumed" \in record[c].stages => RecoveryChecks(c)
       /\ "completed" \in record[c].stages => record[c].status = "completed"

\* Each formula is charged once, within the family's budget, however often the search ran, and
\* the lane's totals are the sums of what was charged, reserved and consumed
\* (charge_pooled_formula, _pooled_count).
ChargesAddUp ==
    /\ \A c \in Campaigns : charged[c] # NotReserved =>
          charged[c] = Cardinality({x \in charges : x[1] = c}) /\ charged[c] <= Budget
    /\ counts = [formulas_charged |-> Cardinality(charges),
                 campaigns |-> Cardinality({c \in Campaigns : record[c].status # "none"}),
                 confirmations |-> Cardinality(consumed)]

\* The lane's journal is sound: every window used once, nothing consumed stranded, every
\* charge counted once (consume_pooled_confirmation, charge_pooled_formula).
LaneSound == WindowUsedOnce /\ ConsumedIsRecoverable /\ ChargesAddUp
=============================================================================
