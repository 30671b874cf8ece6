----------------------------- MODULE MCResearch -----------------------------
(***************************************************************************)
(* The research journal's five lanes on one instance: the alpha registry,  *)
(* the daily campaign, pooled campaigns, session decisions and the budget  *)
(* of trials and holdout days.  They share no state in these models, so a  *)
(* behaviour is of one of them and the others stay in their initial        *)
(* states.                                                                 *)
(***************************************************************************)
EXTENDS AlphaRegistry, DailyCampaign, PooledCampaign, SessionDecisions, ResearchBudget, TLC

CONSTANTS
    a1, b1, c1, x

VARIABLE
    lane            \* the lane that this behaviour is about

\* The registry: a1 and b1 are of two alphas and trade one symbol, c1 is a catalog definition.
MCVersions == {a1, b1, c1}
MCCatalog == {c1}
MCAlphaOf == (a1 :> "A") @@ (b1 :> "B") @@ (c1 :> "C")
MCSymbolsOf == (a1 :> {x}) @@ (b1 :> {x}) @@ (c1 :> {})
MCKillR == -1
MCResults == {-1, 1}
\* The daily campaign: two sessions, each decided in the period after its close and measured in
\* the one after that.
MCSessions == 1..2
MCClose == <<1, 2>>
MCExpires == <<2, 3>>
MCOutcomeFrom == <<3, 4>>
MCOutcomeUntil == <<4, 5>>
\* Pooled campaigns: two whose confirmation windows overlap.
MCCampaigns == {"p", "q"}
MCProposals == [p |-> <<"f", "g">>, q |-> <<"f">>]
MCFrozen == [p |-> {"g"}, q |-> {"f"}]
MCWindows == [p |-> <<1, 2>>, q |-> <<2, 3>>]
\* Session decisions: the last two windows of one session, available at midnight and after it, and
\* one of the next session; the history is two dates.
MCBars == 1..3
MCSessionOf == <<0, 0, 1>>
MCAvailableAt == <<1, 2, 3>>
MCExpiresAt == <<3, 4, 5>>
MCDates == -1..2
MCMidnight == (-1 :> -1) @@ (0 :> 0) @@ (1 :> 1) @@ (2 :> 4)
MCDateOf == (0 :> 0) @@ (1 :> 1) @@ (2 :> 1) @@ (3 :> 1) @@ (4 :> 2)
MCDays == 1..3
\* The budget: bound on the diagnostics and tests of one behaviour.
MaxObservers == 1
Observed == Cardinality({r \in Diagnostics \cup Tests : worker[r].step # "none"}) <= MaxObservers

\* Runs, services and studies are one set of processes, compared for equality only.
MCSymmetry == Permutations(Runs)

ResearchInit ==
    /\ lane \in {"registry", "daily", "pooled", "session", "budget"}
    /\ Init /\ DailyInit /\ PooledInit /\ SessionInit /\ BudgetInit

ResearchNext ==
    /\ UNCHANGED lane
    /\ \/ lane = "registry" /\ Next /\ UNCHANGED <<dailyVars, pooledVars, sessionVars, budgetVars>>
       \/ lane = "daily" /\ DailyNext /\ UNCHANGED <<registryVars, pooledVars, sessionVars, budgetVars>>
       \/ lane = "pooled" /\ PooledNext /\ UNCHANGED <<registryVars, dailyVars, sessionVars, budgetVars>>
       \/ lane = "session" /\ SessionNext /\ UNCHANGED <<registryVars, dailyVars, pooledVars, budgetVars>>
       \/ lane = "budget" /\ BudgetNext /\ Observed' /\ UNCHANGED <<registryVars, dailyVars, pooledVars, sessionVars>>

ResearchSpec ==
    ResearchInit /\ [][ResearchNext]_<<lane, registryVars, dailyVars, pooledVars, sessionVars, budgetVars>>
=============================================================================
