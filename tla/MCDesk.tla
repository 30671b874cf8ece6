------------------------------- MODULE MCDesk -------------------------------
(***************************************************************************)
(* The desk's services beside the order workflow, on one instance: the     *)
(* account ledger, incidents, the release exit, trailing stops and bounded *)
(* provider reads.  They share no state in these models, so a behaviour is *)
(* of one of them and the others stay in their initial states.             *)
(*                                                                         *)
(* The ledger's amounts are signed powers of two, so that no two unlisted  *)
(* activities cancel in the account's cash.                                *)
(***************************************************************************)
EXTENDS AccountLedger, ReleaseExit, TrailingStops, ProviderReads, TLC

CONSTANTS
    deposit, journalled, fill, fee,
    Components, FailureTime, RecoveryTime, ReminderTime, AlertLength, DayLength, MaxTime, MaxSummaryFailures

VARIABLES
    service,        \* the service that this behaviour is about
    policy, clock, rows, delivered, events, decisions, pass, failures, story, firstPass, failing

incidentVars == <<policy, clock, rows, delivered, events, decisions, pass, failures, story, firstPass, failing>>

MCActivities == {deposit, journalled, fill, fee}
MCKind == (deposit :> "transfer") @@ (journalled :> "journal") @@ (fill :> "fill") @@ (fee :> "fee")
MCAmount == (deposit :> 8) @@ (journalled :> 4) @@ (fill :> 1) @@ (fee :> -2)
MCOpening == {deposit}
MCRevised == (deposit :> 16) @@ (journalled :> 0) @@ (fill :> 1) @@ (fee :> -2)
MCPrices == {8, 10, 11, 14, 18}
MCProviders == 1..2

\* Importers, daemons and callers are one set of processes; like account ids they are compared
\* for equality only.
MCSymmetry == Permutations(Importers) \cup Permutations(Accounts)

Incident == INSTANCE Incidents

\* Of a service that stays in its initial state one initial state is enough.
DeskInit ==
    /\ service \in {"ledger", "incidents", "release", "trail", "reads"}
    /\ LedgerInit /\ Incident!Init /\ ReleaseInit /\ TrailInit /\ ReadInit
    /\ service # "ledger" => mark = 0 /\ \A a \in Activities : posted[a] = 0
    /\ service # "incidents" => policy = [exempt_components |-> {}, notifications_enabled |-> TRUE]
    /\ service # "release" => \A q \in Daemons : daemon[q].mode = "preview"
    /\ service # "trail" => ~ alphaPolicy

DeskNext ==
    /\ UNCHANGED service
    /\ \/ service = "ledger" /\ LedgerNext /\ UNCHANGED <<incidentVars, releaseVars, trailVars, readVars>>
       \/ service = "incidents" /\ Incident!Next /\ UNCHANGED <<ledgerVars, releaseVars, trailVars, readVars>>
       \/ service = "release" /\ ReleaseNext /\ UNCHANGED <<ledgerVars, incidentVars, trailVars, readVars>>
       \/ service = "trail" /\ TrailNext /\ UNCHANGED <<ledgerVars, incidentVars, releaseVars, readVars>>
       \/ service = "reads" /\ ReadNext /\ UNCHANGED <<ledgerVars, incidentVars, releaseVars, trailVars>>

DeskSpec == DeskInit /\ [][DeskNext]_<<service, ledgerVars, incidentVars, releaseVars, trailVars, readVars>>

\* Incidents: notices of an incident follow its life and are paged in time (advance).
OperatorTold == Incident!OperatorTold
=============================================================================
