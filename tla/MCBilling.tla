----------------------------- MODULE MCBilling -----------------------------
(* Small instances of Billing for TLC. *)
EXTENDS Billing

\* A free plan and two paid ones: the fewest with an upgrade from a paid plan.
ThreePrices == <<0, 1, 2>>
=============================================================================
