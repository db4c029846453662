------------------------------ MODULE CallerMap ------------------------------
(***************************************************************************)
(* CALLER_MAP of native/wasmex/src/caller.rs: the import wrappers of every *)
(* running Wasm function, whatever its store, register their               *)
(* wasmtime::Caller in one hash map under a random i32 token, and the host *)
(* side of the callback (a NIF, or the task of a nested call) finds it     *)
(* with that token (StoreOrCaller in store.rs), at any time: the `caller`  *)
(* of a callback is a term that can be kept.  Nothing keeps a token from   *)
(* being drawn while it is in the map, or again later.  get_caller returns *)
(* a reference into the map and unlocks it; that a table that grows moves  *)
(* its entries is not modelled.                                            *)
(***************************************************************************)
EXTENDS Naturals, FiniteSets

CONSTANTS
  Wrappers,  \* invocations of import wrappers; bounds how often they are entered
  Tokens,    \* values of an i32
  None

ASSUME CallerMapAssumption == None \notin Wrappers \cup Tokens

VARIABLES
  map,     \* CALLER_MAP: the wrapper whose Caller is stored under a token
  pc,      \* where a wrapper is
  token,   \* its caller_token
  found,   \* the wrapper whose Caller its host side got from get_caller
  clashed  \* history: wrappers that were registered with a common token

vars == <<map, pc, token, found, clashed>>

Init ==
  /\ map = [t \in Tokens |-> None]
  /\ pc = [w \in Wrappers |-> "new"]
  /\ token = [w \in Wrappers |-> None]
  /\ found = [w \in Wrappers |-> None]
  /\ clashed = {}

\* It called set_caller and not remove_caller.
Registered(w) == pc[w] \in {"waiting", "panicked"}
Users(t) == {w \in Wrappers : Registered(w) /\ token[w] = t}
Clash(w, t) == IF Users(t) = {} THEN {} ELSE Users(t) \cup {w}

\* The wrapper w is called and the message with its token is sent, or not: then
\* it panics.
Enter(w, t, sent) ==
  /\ pc[w] = "new"
  /\ token' = [token EXCEPT ![w] = t]
  /\ clashed' = clashed \cup Clash(w, t)
  /\ pc' = [pc EXCEPT ![w] = IF sent THEN "waiting" ELSE "panicked"]
  /\ UNCHANGED found

\* Mutant: a known token is thrown again, and the first one returned.
MutThrowAgain(w, t, sent) ==
  /\ Enter(w, t, sent)
  /\ \E u \in Tokens :
       /\ IF map[t] = None THEN u = t ELSE map[u] = None
       /\ map' = [map EXCEPT ![u] = w]

\* set_caller inserts under a random token, whatever is there, and the token
\* goes to the callback.  A wrapper that panics leaves its entry.
SetCaller(w, t, sent) ==
  /\ Enter(w, t, sent)
  /\ map' = [map EXCEPT ![t] = w]

\* Mutant: what get_caller returns is not looked at.
MutGetUnchecked(w) ==
  /\ pc[w] # "new" /\ found[w] = None
  /\ found' = [found EXCEPT ![w] = token[w]]
  /\ UNCHANGED <<map, pc, token, clashed>>

\* get_caller(token), get_caller_mut(token), during the callback of w or later.
\* None is a panic of the unwrap or, for fuel, an error: no Caller is found.
GetCaller(w) ==
  /\ pc[w] # "new" /\ found[w] = None
  /\ map[token[w]] # None
  /\ found' = [found EXCEPT ![w] = map[token[w]]]
  /\ UNCHANGED <<map, pc, token, clashed>>

\* The host is done with what it found.
UseCaller(w) ==
  /\ found[w] # None
  /\ found' = [found EXCEPT ![w] = None]
  /\ UNCHANGED <<map, pc, token, clashed>>

\* Mutant: a failed callback returns before remove_caller.
MutLeaveEntry(w) ==
  /\ pc[w] = "waiting"
  /\ \E success \in BOOLEAN : map' = IF success THEN [map EXCEPT ![token[w]] = None] ELSE map
  /\ pc' = [pc EXCEPT ![w] = "gone"]
  /\ UNCHANGED <<token, found, clashed>>

\* The callback has returned, whatever its host side still does with the
\* Caller, and the wrapper removes what is stored under its token.
RemoveCaller(w) ==
  /\ pc[w] = "waiting"
  /\ map' = [map EXCEPT ![token[w]] = None]
  /\ pc' = [pc EXCEPT ![w] = "gone"]
  /\ UNCHANGED <<token, found, clashed>>

Next == \E w \in Wrappers :
  \/ \E t \in Tokens, sent \in BOOLEAN : SetCaller(w, t, sent)
  \/ GetCaller(w) \/ UseCaller(w) \/ RemoveCaller(w)

Spec == Init /\ [][Next]_vars

-----------------------------------------------------------------------------
(* Safety.                                                                  *)

\* Types of the variables.
TypeOK ==
  /\ map \in [Tokens -> Wrappers \cup {None}]
  /\ pc \in [Wrappers -> {"new", "waiting", "panicked", "gone"}]
  /\ token \in [Wrappers -> Tokens \cup {None}]
  /\ found \in [Wrappers -> Wrappers \cup {None}]
  /\ clashed \subseteq Wrappers

\* Whatever tokens are drawn, the map does not keep the Caller of a wrapper that
\* returned: a lookup finds one that waits, or that panicked in the call and
\* whose entry stays for ever (environment.rs:162, 222, 229).
NoReturnedCaller ==
  \A t \in Tokens : map[t] # None => Registered(map[t]) /\ token[map[t]] = t

\* "That token can then be used to retrieve references to the Caller instance
\* later" (caller.rs:10-11): the Caller of a registered wrapper is there, unless
\* a wrapper that was registered at the same time had the same token.
CallerIsThere ==
  \A w \in Wrappers : Registered(w) /\ w \notin clashed => map[token[w]] = w

\* What the host side of a callback finds is the Caller of that callback's own
\* wrapper, of its store and no other; to find another one it takes a token
\* that both had at the same time, or one that is used after its wrapper left
\* and was drawn again (caller.rs:17-36).
OwnCaller ==
  \A w \in Wrappers : found[w] \notin {None, w} =>
    token[found[w]] = token[w] /\ (w \in clashed \/ pc[w] = "gone")
=============================================================================
