------------------------------ MODULE MCDaemon ------------------------------
(***************************************************************************)
(* Jobs of the daemon that race with the operator, the broker and EDGAR,   *)
(* on one instance: the cancellation of a resting entry, the scans that    *)
(* record cards, and the capture and decision of the insider watch.  They  *)
(* share no state in these models, so a behaviour is of one of them and    *)
(* the others stay in their initial states.                                *)
(***************************************************************************)
EXTENDS EntryCancel, CardScan, InsiderWatch, TLC

CONSTANTS configured, screened, insider     \* one setup of each kind

VARIABLE job            \* what this behaviour is about

\* The insider watch finds the configured contract too.
SetupContract == (configured :> "A") @@ (screened :> "B") @@ (insider :> "A")
SetupGroups == (configured :> {"tech"}) @@ (screened :> {}) @@ (insider :> {"tech"})
EventSource == insider :> "insider_watch"

\* Two filings of B, which may stay unpublished.  The second release adds B to the cohort and a
\* date to the archive.
FilingDate == ("b1" :> 2) @@ ("b2" :> 4)
FilingIssuer == ("b1" :> "B") @@ ("b2" :> "B")
Cohort == ("r1" :> {"A"}) @@ ("r2" :> {"A", "B"})
LastArchived == ("r1" :> 0) @@ ("r2" :> 1)

DaemonInit ==
    /\ job \in {"cancellation", "scan", "watch"}
    /\ Init
    /\ ScanInit
    /\ WatchInit

DaemonNext ==
    \/ job = "cancellation" /\ Next /\ UNCHANGED <<job, scanVars, watchVars>>
    \/ job = "scan" /\ ScanNext /\ UNCHANGED <<job, vars, watchVars>>
    \/ job = "watch" /\ WatchNext /\ UNCHANGED <<job, vars, scanVars>>

DaemonSpec == DaemonInit /\ [][DaemonNext]_<<job, vars, scanVars, watchVars>>

\* No action orders the processes.
Symmetry == Permutations(Processes)
=============================================================================
