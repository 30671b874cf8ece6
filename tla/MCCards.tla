------------------------------ MODULE MCCards ------------------------------
(***************************************************************************)
(* Cards on one instance: the life of a card and its replacement, the      *)
(* scans that an operator asks for, and the capture behind the insider     *)
(* watch.  They share no state in these models, so a behaviour is of one   *)
(* of them and the others stay in their initial states.  A card and a scan *)
(* have no fair action enabled there; the capture's fair actions are those *)
(* of a behaviour about the capture.                                       *)
(***************************************************************************)
EXTENDS CardLifecycle, TLC

CONSTANTS
    configured, screened,       \* a setup of each kind an operator can ask for
    NoSetup

VARIABLES
    about,          \* what this behaviour is about
    now, cards, scan, scans, background, requests, reclaimed, ranking,
    today, hour, edgar, captures, worker, heldDocuments, done, release, archive, decision, watchFaults, restarts

scanVars == <<now, cards, scan, scans, background, requests, reclaimed, ranking>>

Scan == INSTANCE CardScan WITH
    Natives <- {configured}, Dynamics <- {screened}, Events <- {}, Watch <- {}, Carried <- {},
    Dynamic <- "dynamic", ContractOf <- (configured :> "A") @@ (screened :> "B"),
    GroupsOf <- [s \in {configured, screened} |-> {}], SourceOf <- <<>>,
    MaxPerScan <- 1, MaxPerSession <- 1, MaxPerGroup <- 1, MaxPerSource <- 1, MaxLLM <- 1,
    DayLength <- 1, DedupTime <- 0, MaxClock <- 0, MaxScans <- 1, MaxRequests <- 2,
    MaxReprices <- 0, MaxMoves <- 1

watchVars ==
    <<today, hour, edgar, captures, worker, heldDocuments, done, release, archive, decision, watchFaults, restarts>>

\* An unreadable filing on the second date, EDGAR closed on the first, and a weekend; no decisions.
Watch == INSTANCE InsiderWatch WITH
    Business <- {1, 2, 4}, Closed <- {1}, Sessions <- {}, Documents <- {"form4"}, FiledOn <- "form4" :> 2,
    IssuerOf <- "form4" :> "A", Unreadable <- {"form4"}, Builds <- {"r"}, First <- "r", ScopeOf <- "r" :> {"A"},
    ArchiveThrough <- "r" :> 0, BackfillFrom <- 1, Span <- 2, LastDay <- 5, MaxRequestFaults <- 1, MaxRestarts <- 1

CardsInit ==
    /\ about \in {"card", "scan", "capture"}
    /\ Init
    /\ Scan!ScanInit
    /\ Watch!WatchInit

CardsNext ==
    \/ about = "card" /\ Next /\ UNCHANGED <<about, scanVars, watchVars>>
    \/ about = "scan" /\ Scan!ScanNext /\ UNCHANGED <<about, vars, watchVars>>
    \/ about = "capture" /\ Watch!WatchNext /\ UNCHANGED <<about, vars, scanVars>>

CardsSpec ==
    /\ CardsInit /\ [][CardsNext]_<<about, vars, scanVars, watchVars>>
    /\ Fairness /\ Scan!ScanFairness
    /\ WF_watchVars(about = "capture" /\ Watch!DayPasses)
    /\ WF_watchVars(about = "capture" /\ \E d \in {"form4"} : Watch!Filed(d))
    /\ WF_watchVars(about = "capture" /\ \E day \in 1..5 : Watch!IndexPublished(day))
    /\ WF_watchVars(about = "capture" /\ Watch!Worker)

\* CardScan: an accepted background scan is answered (_run_background_scan).
RequestAnswered == Scan!RequestAnswered

\* InsiderWatch: every filing date is journaled in the end (capture_filing_dates).
CaptureCatchesUp == Watch!CaptureCatchesUp
=============================================================================
