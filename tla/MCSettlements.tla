--------------------------- MODULE MCSettlements ---------------------------
(* Small instances of Settlements for TLC. *)
EXTENDS Settlements

Everything == {"RECEIVE", "VOID_RECEIPT", "VOID_SALE", "RETURN"}
=============================================================================
