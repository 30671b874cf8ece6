----------------------------- MODULE MCSettling -----------------------------
(***************************************************************************)
(* What the daemon must eventually settle, on one instance: entries in the *)
(* queue, and the cancellation of a resting entry.  The two share no state *)
(* in these models, so a behaviour is of one of them and the other stays   *)
(* in its initial state, where none of its fair actions is enabled.        *)
(***************************************************************************)
EXTENDS EntryWorkflow

CONSTANT Processes

VARIABLES
    active,         \* what this behaviour is about
    cancelItem, refusal, window, cancelSignal, executedAt, cancelHalted, closing, view,
    cancelStep, owner, seen, failedRead, error, patient, late,
    parent, exits, asked, deletes, cancelFaults

cancelVars ==
    <<cancelItem, refusal, window, cancelSignal, executedAt, cancelHalted, closing, view, cancelStep, owner, seen,
      failedRead, error, patient, late, parent, exits, asked, deletes, cancelFaults>>

Cancel == INSTANCE EntryCancel WITH
    item <- cancelItem, signal <- cancelSignal, halted <- cancelHalted,
    step <- cancelStep, faults <- cancelFaults

SettlingVars == <<active, vars, cancelVars>>

SettlingInit ==
    /\ active \in {"queue", "cancellation"}
    /\ Init
    /\ Cancel!Init

SettlingNext ==
    \/ active = "queue" /\ Next /\ UNCHANGED <<active, cancelVars>>
    \/ active = "cancellation" /\ Cancel!Next /\ UNCHANGED <<active, vars>>

SettlingSpec ==
    /\ SettlingInit /\ [][SettlingNext]_SettlingVars
    /\ Fairness
    /\ Cancel!Fairness

\* EntryCancel: an intent is resolved after its owner crashed, and a cancellation whose order
\* ended unfilled is settled, also after an unknown verdict (recover, _recover_cancel).
CancelSettles == Cancel!CancelSettles
=============================================================================
