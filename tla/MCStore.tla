------------------------------ MODULE MCStore ------------------------------
(***************************************************************************)
(* Two journals of the workflow store on one instance: notices for the     *)
(* chat, and observations of an order at the broker.  They share no state  *)
(* in these models, so a behaviour is of one of them and the other stays   *)
(* in its initial state.  The outbox has no fair action enabled there; the *)
(* order's fair actions are those of a behaviour about the order.          *)
(***************************************************************************)
EXTENDS Outbox, OrderProjection

VARIABLE facts          \* what this behaviour is about

storeVars == <<facts, vars, orderVars>>

StoreInit ==
    /\ facts \in {"notices", "orders"}
    /\ Init
    /\ OrderInit

StoreNext ==
    \/ facts = "notices" /\ Next /\ UNCHANGED <<facts, orderVars>>
    \/ facts = "orders" /\ OrderNext /\ UNCHANGED <<facts, vars>>

StoreSpec ==
    /\ StoreInit /\ [][StoreNext]_storeVars
    /\ Fairness
    /\ WF_orderVars(facts = "orders" /\ EntryAccepted)
    /\ WF_orderVars(facts = "orders" /\ ObserveOrder(Order, "none", FALSE))

=============================================================================
