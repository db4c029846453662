----------------------------- MODULE SerialStore -----------------------------
(***************************************************************************)
(* What a Wasmex store promises to the calls made on it, without servers,  *)
(* threads, locks and callbacks: Wasm code runs in it one call at a time.  *)
(* The calls inside the store form a stack.  A call from the outside opens *)
(* only an empty stack, a call made from within a callback opens on top of *)
(* the call whose callback made it, and only the top of the stack closes.  *)
(* A call is delivered to its caller after it closed, once; a call that    *)
(* panics is lost and never delivered.                                     *)
(***************************************************************************)
EXTENDS Sequences, Naturals

CONSTANTS Calls, None

VARIABLES
  parent,  \* the call whose callback made this one, None for an outer call
  phase,   \* how far a call is
  stack    \* the calls inside the store, the innermost last

serialVars == <<parent, phase, stack>>

Phases == {"fresh", "asked", "open", "closed", "delivered", "lost"}

IsTop(c) == stack # <<>> /\ stack[Len(stack)] = c
Pop == SubSeq(stack, 1, Len(stack) - 1)
Move(c, p, q) == phase[c] = p /\ phase' = [phase EXCEPT ![c] = q]

Init ==
  /\ parent = [c \in Calls |-> None]
  /\ phase = [c \in Calls |-> "fresh"]
  /\ stack = <<>>

Ask(c) ==
  /\ Move(c, "fresh", "asked")
  /\ \/ UNCHANGED parent
     \/ \E p \in Calls : IsTop(p) /\ parent' = [parent EXCEPT ![c] = p]
  /\ UNCHANGED stack

Open(c) ==
  /\ Move(c, "asked", "open")
  /\ IF parent[c] = None THEN stack = <<>> ELSE IsTop(parent[c])
  /\ stack' = Append(stack, c)
  /\ UNCHANGED parent

\* A call can be refused without entering the store.
Refuse(c) == Move(c, "asked", "closed") /\ UNCHANGED <<parent, stack>>

Close(c) == Move(c, "open", "closed") /\ IsTop(c) /\ stack' = Pop /\ UNCHANGED parent

Deliver(c) == Move(c, "closed", "delivered") /\ UNCHANGED <<parent, stack>>

Lose(c) ==
  /\ \/ Move(c, "asked", "lost") /\ UNCHANGED stack
     \/ Move(c, "open", "lost") /\ IsTop(c) /\ stack' = Pop
  /\ UNCHANGED parent

Next ==
  \E c \in Calls : Ask(c) \/ Open(c) \/ Refuse(c) \/ Close(c) \/ Deliver(c) \/ Lose(c)

Spec == Init /\ [][Next]_serialVars
=============================================================================
