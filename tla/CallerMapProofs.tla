--------------------------- MODULE CallerMapProofs ---------------------------
(***************************************************************************)
(* Proofs about CallerMap for any number of wrappers and any set of        *)
(* tokens, whatever tokens are drawn and whenever they are looked up.      *)
(***************************************************************************)
EXTENDS CallerMap, TLAPS

\* Registered wrappers with a common token have clashed.
ClashInv == \A v, w \in Wrappers :
  Registered(v) /\ Registered(w) /\ token[v] = token[w] /\ v # w => w \in clashed

\* A wrapper that was called has a token.
TokenInv == \A w \in Wrappers : pc[w] # "new" => token[w] \in Tokens

\* Nothing was found for a wrapper that was not called, or of one.
FoundInv == \A w \in Wrappers : found[w] # None => pc[w] # "new" /\ pc[found[w]] # "new"

MapInv ==
  /\ TypeOK /\ TokenInv /\ ClashInv /\ FoundInv
  /\ NoReturnedCaller /\ CallerIsThere /\ OwnCaller

USE CallerMapAssumption

\* The map is empty and no wrapper was called.
LEMMA InitMap == Init => MapInv
  BY DEF Init, MapInv, TypeOK, TokenInv, ClashInv, FoundInv, Registered,
         NoReturnedCaller, CallerIsThere, OwnCaller

\* A wrapper enters under any token, one that is in the map included.
LEMMA SetCallerKeeps ==
  ASSUME MapInv, NEW w \in Wrappers, NEW t \in Tokens,
         NEW sent \in BOOLEAN, SetCaller(w, t, sent)
  PROVE  MapInv'
<1> USE DEF MapInv, TypeOK, Registered
<1>1. /\ pc[w] = "new" /\ pc'[w] \in {"waiting", "panicked"}
      /\ token' = [token EXCEPT ![w] = t] /\ map' = [map EXCEPT ![t] = w]
      /\ found' = found /\ clashed' = clashed \cup Clash(w, t)
      /\ \A v \in Wrappers : v # w => pc'[v] = pc[v] /\ token'[v] = token[v]
  BY DEF SetCaller, Enter
<1>2. \A v \in Wrappers : Registered(v) /\ token[v] = t => v \in clashed' /\ w \in clashed'
  BY <1>1 DEF Clash, Users
<1>3. TypeOK'
  <2>1. Clash(w, t) \subseteq Wrappers
    BY DEF Clash, Users
  <2>2. pc' \in [Wrappers -> {"new", "waiting", "panicked", "gone"}]
    BY DEF SetCaller, Enter
  <2>3. QED
    BY <1>1, <2>1, <2>2
<1>4. TokenInv' /\ FoundInv'
  BY <1>1 DEF TokenInv, FoundInv
<1>5. ClashInv'
  BY <1>1, <1>2 DEF ClashInv
<1>6. NoReturnedCaller'
  BY <1>1 DEF NoReturnedCaller
<1>7. CallerIsThere'
  <2>1. ASSUME NEW v \in Wrappers, Registered(v)', v \notin clashed'
        PROVE  map'[token'[v]] = v
    <3>1. CASE v = w
      BY <1>1, <3>1
    <3>2. CASE v # w
      <4>1. Registered(v) /\ token'[v] = token[v] /\ token[v] # t /\ map[token[v]] = v
        BY <1>1, <1>2, <2>1, <3>2 DEF CallerIsThere
      <4>2. QED
        BY <1>1, <4>1, <2>1 DEF TokenInv
    <3>3. QED
      BY <3>1, <3>2
  <2>2. QED
    BY <2>1 DEF CallerIsThere
<1>8. OwnCaller'
  BY <1>1 DEF OwnCaller, FoundInv
<1>9. QED
  BY <1>3, <1>4, <1>5, <1>6, <1>7, <1>8

\* A lookup finds the wrapper's own Caller, or one it shares the token with.
LEMMA GetCallerKeeps ==
  ASSUME MapInv, NEW w \in Wrappers, GetCaller(w)
  PROVE  MapInv'
<1> USE DEF MapInv, TypeOK, Registered, GetCaller
<1>1. token[w] \in Tokens /\ map[token[w]] \in Wrappers
  BY DEF TokenInv
<1>2. Registered(map[token[w]]) /\ token[map[token[w]]] = token[w]
  BY <1>1 DEF NoReturnedCaller
<1>3. TypeOK' /\ TokenInv' /\ ClashInv' /\ NoReturnedCaller' /\ CallerIsThere'
  BY <1>1 DEF TokenInv, ClashInv, NoReturnedCaller, CallerIsThere
<1>4. FoundInv'
  BY <1>1, <1>2 DEF FoundInv
<1>5. map[token[w]] # w => w \in clashed \/ pc[w] = "gone"
  BY <1>1, <1>2 DEF ClashInv
<1>6. OwnCaller'
  BY <1>1, <1>2, <1>5 DEF OwnCaller
<1>7. QED
  BY <1>3, <1>4, <1>6

\* A wrapper that leaves takes away what is stored under its token: its own
\* entry, or that of a wrapper it clashed with.
LEMMA RemoveCallerKeeps ==
  ASSUME MapInv, NEW w \in Wrappers, RemoveCaller(w)
  PROVE  MapInv'
<1> USE DEF MapInv, TypeOK, Registered, RemoveCaller
<1>1. token[w] \in Tokens
  BY DEF TokenInv
<1>2. TypeOK' /\ TokenInv' /\ ClashInv' /\ FoundInv' /\ OwnCaller'
  BY <1>1 DEF TokenInv, ClashInv, FoundInv, OwnCaller
<1>3. \A t \in Tokens : map'[t] # None => map'[t] = map[t] /\ map[t] # w
  BY <1>1 DEF NoReturnedCaller
<1>4. NoReturnedCaller'
  BY <1>3 DEF NoReturnedCaller
<1>5. CallerIsThere'
  <2>1. ASSUME NEW v \in Wrappers, Registered(v)', v \notin clashed
        PROVE  map'[token[v]] = v
    <3>1. v # w /\ Registered(v) /\ token[v] # token[w] /\ map[token[v]] = v
      BY <2>1 DEF ClashInv, CallerIsThere
    <3>2. token[v] \in Tokens
      BY <3>1 DEF TokenInv
    <3>3. QED
      BY <1>1, <3>1, <3>2
  <2>2. QED
    BY <2>1 DEF CallerIsThere
<1>6. QED
  BY <1>2, <1>4, <1>5

\* The invariant of every state.
LEMMA MapInvariant == Spec => []MapInv
<1>1. MapInv /\ [Next]_vars => MapInv'
  <2> SUFFICES ASSUME MapInv, [Next]_vars PROVE MapInv'
    OBVIOUS
  <2>1. CASE UNCHANGED vars
    BY <2>1 DEF vars, MapInv, TypeOK, TokenInv, ClashInv, FoundInv, Registered,
                NoReturnedCaller, CallerIsThere, OwnCaller
  <2>2. ASSUME NEW w \in Wrappers, NEW t \in Tokens, NEW sent \in BOOLEAN,
               SetCaller(w, t, sent)
        PROVE  MapInv'
    BY <2>2, SetCallerKeeps
  <2>3. ASSUME NEW w \in Wrappers, UseCaller(w)
        PROVE  MapInv'
    BY <2>3 DEF UseCaller, MapInv, TypeOK, TokenInv, ClashInv, FoundInv, Registered,
                NoReturnedCaller, CallerIsThere, OwnCaller
  <2>4. ASSUME NEW w \in Wrappers, GetCaller(w) \/ RemoveCaller(w)
        PROVE  MapInv'
    BY <2>4, GetCallerKeeps, RemoveCallerKeeps
  <2>5. QED
    BY <2>1, <2>2, <2>3, <2>4 DEF Next
<1>2. QED
  BY <1>1, InitMap, PTL DEF Spec

\* Whatever tokens are drawn, no lookup finds the Caller of a wrapper that
\* returned (environment.rs:162, 229).
THEOREM NoReturnedCallerIsFound == Spec => []NoReturnedCaller
<1>1. MapInv => NoReturnedCaller
  BY DEF MapInv
<1> QED
  BY <1>1, MapInvariant, PTL

\* The Caller of a registered wrapper is in the map, unless a wrapper that was
\* registered at the same time had its token (caller.rs:10-11, 34-36).
THEOREM CallersAreThere == Spec => []CallerIsThere
<1>1. MapInv => CallerIsThere
  BY DEF MapInv
<1> QED
  BY <1>1, MapInvariant, PTL

\* What the host finds with the `caller` of a callback is the Caller of that
\* callback's own wrapper, unless the token clashed, or was kept after the
\* wrapper left and drawn again (caller.rs:17-44).
THEOREM HostFindsOwnCaller == Spec => []OwnCaller
<1>1. MapInv => OwnCaller
  BY DEF MapInv
<1> QED
  BY <1>1, MapInvariant, PTL
=============================================================================
