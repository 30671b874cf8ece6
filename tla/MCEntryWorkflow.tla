-------------------------- MODULE MCEntryWorkflow --------------------------
(***************************************************************************)
(* Instances of EntryWorkflow for TLC.  Cards and tasks are interchangeable*)
(* in every definition, so the safety runs use both symmetries.            *)
(***************************************************************************)
EXTENDS EntryWorkflow, TLC

Sym == Permutations(Signals) \cup Permutations(Workers)

=============================================================================
