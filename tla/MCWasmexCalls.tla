---------------------------- MODULE MCWasmexCalls ----------------------------
(* Small instances of WasmexCalls for TLC.                                   *)
EXTENDS WasmexCallsProofs

Symmetry == Permutations(Clients) \cup Permutations(Refs)
=============================================================================
