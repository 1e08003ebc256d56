------------------------------ MODULE MCPayroll ------------------------------
(* Small instances of Payroll for TLC. *)
EXTENDS Payroll, TLC

\* One above the insurance limit and the provident-fund ceiling, one below
\* both whose contributions do not divide, who joins in the second month.
TwoPeople == [e \in {"head", "hand"} |->
                IF e = "head" THEN [basic |-> 16000, allowances |-> 6000, joins |-> 1, leaves |-> 0]
                              ELSE [basic |-> 12345, allowances |-> 500, joins |-> 2, leaves |-> 0]]
Registered == [providentFund |-> TRUE, insurance |-> TRUE, monthly |-> 200, threshold |-> 22000]
\* An amount, and a slipped digit that one person's pay cannot bear.
TypedTax == {[e \in {"head", "hand"} |-> IF e = "head" THEN n ELSE 0] : n \in {500, 25000}}
RequestSymmetry == Permutations(Requests)
=============================================================================
