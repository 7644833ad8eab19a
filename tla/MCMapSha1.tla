----------------------------- MODULE MCMapSha1 -----------------------------
(* Every vector of up to Width + 2 bytes over three byte values, for a     *)
(* hash of width 3: shorter, exact and longer inputs, with zero bytes that *)
(* padding could be confused with.                                         *)
EXTENDS MapSha1

MCWidth == 3

MCByte == {0, 1, 2}

MCInput == UNION {[1..n -> MCByte] : n \in 0..(MCWidth + 2)}

=============================================================================
