-------------------------- MODULE MCComponentCalls --------------------------
(* Small instances of ComponentCalls for TLC.                               *)
EXTENDS ComponentCalls

CONSTANTS s1, s2, s3, st1, st2

TwoStores == (s1 :> st1) @@ (s2 :> st2)
\* Two servers on one store, a third on its own.
Shared    == (s1 :> st1) @@ (s2 :> st2) @@ (s3 :> st1)
Chain     == {<<s1, s2>>}
Cycle     == {<<s1, s2>>, <<s2, s1>>}

Symmetry == Permutations(Clients) \cup Permutations(Refs)
=============================================================================
