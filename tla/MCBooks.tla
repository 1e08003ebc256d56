------------------------------ MODULE MCBooks ------------------------------
(* Small instances of Books for TLC. *)
EXTENDS LateEntries

\* One sale's worth of income; a second value adds nothing the sweep tells apart.
OneAmount == {1}
=============================================================================
