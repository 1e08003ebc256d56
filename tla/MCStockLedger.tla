--------------------------- MODULE MCStockLedger ---------------------------
(* Small instances of StockLedger for TLC. *)
EXTENDS StockLedger, TLC

RequestSymmetry == Permutations(Requests)
Everything == Documents \union Voids
BothMethods == {"WEIGHTED_AVERAGE", "FIFO"}
\* One unit for 1, three units whose unit cost does not divide.
SmallBills == {<<1, 1>>, <<3, 8>>}
=============================================================================
