----------------------------- MODULE MCObserve -----------------------------
(* One periodic resource and its observers.                                *)
EXTENDS Observe
=============================================================================
