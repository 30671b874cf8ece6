---------------------------- MODULE MCEntryBook ----------------------------
(***************************************************************************)
(* The entry queue and the admission of its head against the book, on one  *)
(* instance: a behaviour is of one of them, and the other stays in its     *)
(* initial state.  Both cards of the queue's instance are of one symbol in *)
(* the book's, and a third card is of another.                             *)
(***************************************************************************)
EXTENDS MCEntryWorkflow

CONSTANT other      \* the third card

VARIABLES
    about,          \* what this behaviour is about
    status, queue, worker, account, order, foreign, seen

Cards == Signals \cup {other}

Admission == INSTANCE EntryRisk WITH
    Signals <- Cards, SymbolOf <- [s \in Cards |-> IF s = other THEN "B" ELSE "A"],
    RiskOf <- [s \in Cards |-> 1], MaxPositions <- 2, Equities <- {2, 3}, Distances <- {0, 1, 2}

bookVars == <<status, queue, worker, account, order, foreign, seen>>

\* Of a part that stays in its initial state one initial state is enough.
EntriesInit ==
    /\ about \in {"queue", "book"} /\ Init /\ Admission!Init
    /\ about = "queue" => account = 2

EntriesNext ==
    \/ about = "queue" /\ Next /\ UNCHANGED <<about, bookVars>>
    \/ about = "book" /\ Admission!Next /\ UNCHANGED <<about, vars>>

EntriesSpec == EntriesInit /\ [][EntriesNext]_<<about, vars, bookVars>>

\* EntryRisk: an order is authorised only on a book that was really there (entry_market_context,
\* assess_entry_capacity, begin_submission).
BookAdmitted == Admission!BookAdmitted
=============================================================================
