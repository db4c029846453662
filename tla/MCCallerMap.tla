----------------------------- MODULE MCCallerMap -----------------------------
(* Small instances of CallerMap for TLC.                                    *)
EXTENDS CallerMap, TLC

Symmetry == Permutations(Wrappers) \cup Permutations(Tokens)
=============================================================================
