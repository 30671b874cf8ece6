--------------------------- MODULE MCCardLifecycle ---------------------------
(* A card and the slot of its replacement, a tapping client and the sweep: *)
(* small instances for TLC.                                                *)
EXTENDS CardLifecycle
=============================================================================
