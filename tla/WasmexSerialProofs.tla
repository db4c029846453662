-------------------------- MODULE WasmexSerialProofs --------------------------
(***************************************************************************)
(* WasmexCalls implements SerialStore, for any number of clients, calls,   *)
(* workers and imports, when callbacks wait for their nested calls: every  *)
(* step of the server, the tasks and the clients is a step of the abstract *)
(* store or invisible to it.                                               *)
(***************************************************************************)
EXTENDS WasmexCallsProofs, FiniteSetTheorems

StackOf(o, nested) == (IF o = None THEN <<>> ELSE <<o>>) \o SetToSeq(nested)

phase == [r \in Refs |-> SerialPhase(taskPc[r])]
stack == StackOf(owner, InsideNested)

Enters(r, ph) == phase' = [phase EXCEPT ![r] = ph]

-----------------------------------------------------------------------------
(* The stack.                                                               *)

\* A set of at most one element has one order.
LEMMA OneOrder ==
  /\ SetToSeq({}) = <<>>
  /\ \A x : SetToSeq({x}) = <<x>>
<1>1. SetToSeq({}) = <<>>
  <2>1. Cardinality({}) = 0 /\ 1..0 = {}
    BY FS_EmptySet
  <2> DEFINE F == [1..0 -> {}]
  <2>2. <<>> \in F /\ IsInjective(<<>>)
    BY <2>1 DEF IsInjective
  <2>3. \A f \in F : f = <<>>
    BY <2>1
  <2>4. (CHOOSE f \in F : IsInjective(f)) \in F
    BY <2>2
  <2> QED BY <2>1, <2>3, <2>4 DEF SetToSeq
<1>2. ASSUME NEW x PROVE SetToSeq({x}) = <<x>>
  <2>1. Cardinality({x}) = 1
    BY FS_Singleton
  <2> DEFINE F == [1..1 -> {x}]
  <2>2. <<x>> \in F /\ IsInjective(<<x>>)
    BY DEF IsInjective
  <2>3. \A f \in F : f = <<x>>
    OBVIOUS
  <2>4. (CHOOSE f \in F : IsInjective(f)) \in F
    BY <2>2
  <2> QED BY <2>1, <2>3, <2>4 DEF SetToSeq
<1> QED BY <1>1, <1>2

\* Pairs and single calls as sequences.
LEMMA Pairs ==
  \A x, y : /\ Append(<<>>, x) = <<x>> /\ Append(<<x>>, y) = <<x, y>>
            /\ <<x>> # <<>> /\ <<x>>[Len(<<x>>)] = x
<1> SUFFICES ASSUME NEW x, NEW y
             PROVE  /\ Append(<<>>, x) = <<x>> /\ Append(<<x>>, y) = <<x, y>>
                    /\ <<x>> # <<>> /\ <<x>>[Len(<<x>>)] = x
  OBVIOUS
<1> DEFINE S == {x, y}  a == Append(<<x>>, y)  b == <<x, y>>
<1>1. <<x>> \in Seq(S) /\ Len(<<x>>) = 1 /\ <<x>>[1] = x /\ y \in S
  OBVIOUS
<1>2. b \in Seq(S) /\ Len(b) = 2 /\ b[1] = x /\ b[2] = y
  OBVIOUS
<1>3. a \in Seq(S) /\ Len(a) = 2 /\ a[1] = x /\ a[2] = y
  BY <1>1, AppendProperties
<1> HIDE DEF a, b
<1>4. a = b
  <2>1. \A i \in 1..Len(a) : i = 1 \/ i = 2
    BY <1>3
  <2> QED BY <1>2, <1>3, <2>1, SeqEqual
<1>5. Append(<<>>, x) = <<x>>
  OBVIOUS
<1> QED BY <1>1, <1>4, <1>5 DEF a, b

\* The stacks there are.
LEMMA StackForms ==
  ASSUME NEW o \in Refs, NEW n \in Refs
  PROVE  /\ StackOf(None, {}) = <<>>
         /\ StackOf(o, {}) = <<o>>
         /\ StackOf(o, {n}) = <<o, n>>
<1>1. o # None
  BY CallsAssumption
<1>2. <<>> \o <<>> = <<>> /\ <<o>> \o <<>> = <<o>> /\ <<o>> \o <<n>> = <<o, n>>
  <2>1. <<>> \in Seq(Refs) /\ <<o>> \in Seq(Refs)
    OBVIOUS
  <2>2. <<>> \o <<>> = <<>> /\ <<o>> \o <<>> = <<o>>
    BY <2>1, ConcatEmptySeq
  <2>3. <<o>> \o <<n>> = Append(<<o>>, n)
    BY <2>1, AppendIsConcat
  <2>4. Append(<<o>>, n) = <<o, n>>
    BY Pairs
  <2> QED BY <2>2, <2>3, <2>4
<1> QED BY <1>1, <1>2, OneOrder DEF StackOf

\* A call in the store is an outer one, which has the mutex, or the one nested
\* call there is, on top of the owner.
LEMMA InsideStore ==
  ASSUME IInv, NEW t \in Refs, taskPc[t] \in InStore
  PROVE  IF via[t] = None
           THEN owner = t
           ELSE /\ InsideNested = {t} /\ via[t] \in Refs /\ owner = via[t] /\ owner # t
                /\ taskPc[via[t]] \in Parked /\ token[via[t]] = "none"
<1> USE DEF IInv, BaseInv
<1>1. CASE via[t] = None
  BY <1>1 DEF OwnerInv
<1>2. CASE via[t] # None
  <2>1. Active(t)
    BY <1>2 DEF Active, InStore, Parked, OnWorker
  <2>2. /\ via[t] \in Refs /\ taskPc[via[t]] \in Parked /\ token[via[t]] = "none"
        /\ via[via[t]] = None
    BY <1>2, <2>1 DEF NestedInv, TypeOK
  <2>3. owner = via[t] /\ owner # t
    BY <1>2, <2>2 DEF OwnerInv, InStore
  <2>4. \A n \in InsideNested : Active(n)
    BY DEF InsideNested, Active, InStore, Parked, OnWorker
  <2>5. InsideNested = {t}
    BY <1>2, <2>1, <2>4 DEF NestedInv, InsideNested
  <2> QED BY <1>2, <2>2, <2>3, <2>5
<1> QED BY <1>1, <1>2

\* Nothing is nested in a call that runs, or that has its result: it is the top
\* of the stack, and alone in it when it is an outer one.
LEMMA Top ==
  ASSUME IInv, NEW t \in Refs, taskPc[t] = "wasm" \/ (taskPc[t] = "checking" /\ token[t] # "none")
  PROVE  IF via[t] = None
           THEN InsideNested = {} /\ owner = t /\ stack = <<t>>
           ELSE /\ InsideNested = {t} /\ via[t] \in Refs /\ owner = via[t] /\ owner # t
                /\ stack = <<via[t], t>>
<1>1. taskPc[t] \in InStore
  BY DEF InStore, Parked
<1>2. CASE via[t] = None
  <2>1. owner = t
    BY <1>1, <1>2, InsideStore
  <2>2. ASSUME NEW n \in InsideNested PROVE FALSE
    <3>1. n \in Refs /\ via[n] # None /\ taskPc[n] \in InStore
      BY DEF InsideNested
    <3>2. via[n] = t /\ taskPc[t] \in Parked /\ token[t] = "none"
      BY <2>1, <3>1, InsideStore
    <3> QED BY <3>2 DEF Parked
  <2>3. InsideNested = {}
    BY <2>2
  <2> QED BY <1>2, <2>1, <2>3, StackForms DEF stack
<1>3. CASE via[t] # None
  <2>1. InsideNested = {t} /\ via[t] \in Refs /\ owner = via[t] /\ owner # t
    BY <1>1, <1>3, InsideStore
  <2> QED BY <1>3, <2>1, StackForms DEF stack
<1> QED BY <1>2, <1>3

\* Nobody is in a store that nobody has locked.
LEMMA EmptyStore ==
  ASSUME IInv, owner = None
  PROVE  InsideNested = {} /\ stack = <<>>
<1>1. ASSUME NEW n \in InsideNested PROVE FALSE
  <2>1. n \in Refs /\ via[n] # None /\ taskPc[n] \in InStore
    BY DEF InsideNested
  <2>2. owner \in Refs
    BY <2>1, InsideStore
  <2> QED BY <2>2, CallsAssumption
<1>2. InsideNested = {}
  BY <1>1
<1>3. \A o \in Refs : None # o
  BY CallsAssumption
<1>4. StackOf(None, {}) = <<>>
  <2>1. <<>> \o <<>> = <<>>
    BY ConcatEmptySeq
  <2> QED BY <2>1, OneOrder DEF StackOf
<1> QED BY <1>2, <1>4 DEF stack

\* A call that is parked while its callback runs is alone in the store.
LEMMA Waits ==
  ASSUME IInv, NEW t \in Refs, taskPc[t] \in Parked, via[t] = None,
         \A n \in Refs : via[n] # None => taskPc[n] \notin InStore
  PROVE  InsideNested = {} /\ owner = t /\ stack = <<t>>
<1>1. owner = t
  BY InsideStore DEF InStore
<1>2. InsideNested = {}
  BY DEF InsideNested
<1> QED BY <1>1, <1>2, StackForms DEF stack

-----------------------------------------------------------------------------
(* The steps of the abstract store.                                         *)

\* The phases of the places of a task.
LEMMA PhaseOf ==
  /\ SerialPhase("new") = "fresh"
  /\ SerialPhase("queued") = "asked" /\ SerialPhase("locking") = "asked"
  /\ SerialPhase("wasm") = "open" /\ SerialPhase("checking") = "open" /\ SerialPhase("asleep") = "open"
  /\ SerialPhase("replying") = "closed"
  /\ SerialPhase("done") = "delivered"
  /\ SerialPhase("panicked") = "lost"
BY DEF SerialPhase, InStore, Parked

\* A task that moves changes the phase of its call only.
LEMMA Moves ==
  ASSUME TypeOK, NEW t \in Refs, NEW pc, Goto(t, pc)
  PROVE  /\ Enters(t, SerialPhase(pc)) /\ phase[t] = SerialPhase(taskPc[t])
         /\ SerialPhase(pc) = SerialPhase(taskPc[t]) => phase' = phase
         /\ taskPc'[t] = pc /\ \A r \in Refs : r # t => taskPc'[r] = taskPc[r]
<1>1. taskPc'[t] = pc /\ \A r \in Refs : r # t => taskPc'[r] = taskPc[r]
  BY DEF TypeOK, Goto
<1>2. /\ phase = [r \in Refs |-> phase[r]] /\ phase' = [r \in Refs |-> phase'[r]]
      /\ \A r \in Refs : r # t => phase'[r] = phase[r]
      /\ phase'[t] = SerialPhase(pc) /\ phase[t] = SerialPhase(taskPc[t])
  BY <1>1 DEF phase
<1>3. Enters(t, SerialPhase(pc)) /\ DOMAIN phase = Refs
  BY <1>2 DEF Enters
<1>4. SerialPhase(pc) = SerialPhase(taskPc[t]) => phase' = phase
  BY <1>2
<1> QED BY <1>1, <1>2, <1>3, <1>4

\* A step that changes no task, no nesting and no owner is invisible.
LEMMA Invisible ==
  ASSUME UNCHANGED <<taskPc, via, owner>>
  PROVE  UNCHANGED <<via, phase, stack>>
BY DEF phase, stack, InsideNested

SerialStep == Serial!Next \/ UNCHANGED <<via, phase, stack>>

\* A call is asked for: from the outside, or by a callback of the top of the stack.
LEMMA AskStep ==
  ASSUME NEW r \in Refs, phase[r] = "fresh", Enters(r, "asked"), stack' = stack,
         \/ via' = via
         \/ \E p \in Refs : stack = <<p>> /\ via' = [via EXCEPT ![r] = p]
  PROVE  SerialStep
<1>1. Serial!Move(r, "fresh", "asked")
  BY DEF Serial!Move, Enters, phase
<1>2. ASSUME NEW p \in Refs, stack = <<p>> PROVE Serial!IsTop(p)
  <2>1. stack # <<>> /\ stack[Len(stack)] = p
    BY <1>2, Pairs
  <2> QED BY <2>1 DEF Serial!IsTop, stack, StackOf
<1>3. Serial!Ask(r)
  BY <1>1, <1>2 DEF Serial!Ask, stack, StackOf
<1> QED BY <1>3 DEF Serial!Next, SerialStep

\* A call enters the store, on top of the call it is nested in.
LEMMA OpenStep ==
  ASSUME NEW r \in Refs, phase[r] = "asked", Enters(r, "open"), via' = via,
         \/ via[r] = None /\ stack = <<>> /\ stack' = <<r>>
         \/ via[r] # None /\ stack = <<via[r]>> /\ stack' = <<via[r], r>>
  PROVE  SerialStep
<1>1. Serial!Move(r, "asked", "open")
  BY DEF Serial!Move, Enters, phase
<1>2. ASSUME stack = <<via[r]>> PROVE Serial!IsTop(via[r])
  <2>1. stack # <<>> /\ stack[Len(stack)] = via[r]
    BY <1>2, Pairs
  <2> QED BY <2>1 DEF Serial!IsTop, stack, StackOf
<1>3. stack' = Append(stack, r)
  BY Pairs
<1>4. Serial!Open(r)
  BY <1>1, <1>2, <1>3 DEF Serial!Open, stack, StackOf
<1> QED BY <1>4 DEF Serial!Next, SerialStep

\* The top of the stack leaves it, with a result or without.
LEMMA LeaveStep ==
  ASSUME NEW r \in Refs, phase[r] = "open", Enters(r, "closed") \/ Enters(r, "lost"), via' = via,
         \/ stack = <<r>> /\ stack' = <<>>
         \/ \E p \in Refs : stack = <<p, r>> /\ stack' = <<p>>
  PROVE  SerialStep
<1>1. Serial!Move(r, "open", "closed") \/ Serial!Move(r, "open", "lost")
  BY DEF Serial!Move, Enters, phase
<1>2. stack # <<>> /\ stack[Len(stack)] = r /\ stack' = SubSeq(stack, 1, Len(stack) - 1)
  <2>1. CASE stack = <<r>> /\ stack' = <<>>
    BY <2>1
  <2>2. ASSUME NEW p \in Refs, stack = <<p, r>>, stack' = <<p>>
        PROVE  stack # <<>> /\ stack[Len(stack)] = r /\ stack' = SubSeq(stack, 1, Len(stack) - 1)
    BY <2>2
  <2> QED BY <2>1, <2>2
<1>3. Serial!IsTop(r) /\ stack' = Serial!Pop
  BY <1>2 DEF Serial!IsTop, Serial!Pop, stack, StackOf
<1>4. Serial!Close(r) \/ Serial!Lose(r)
  BY <1>1, <1>3 DEF Serial!Close, Serial!Lose, stack, StackOf
<1> QED BY <1>4 DEF Serial!Next, SerialStep

\* A call is delivered, or refused or lost before it entered the store.
LEMMA OutsideStep ==
  ASSUME NEW r \in Refs, via' = via, stack' = stack,
         \/ phase[r] = "closed" /\ Enters(r, "delivered")
         \/ phase[r] = "asked" /\ Enters(r, "lost")
         \/ phase[r] = "asked" /\ Enters(r, "closed")
  PROVE  SerialStep
<1>1. \/ Serial!Move(r, "closed", "delivered") \/ Serial!Move(r, "asked", "lost")
      \/ Serial!Move(r, "asked", "closed")
  BY DEF Serial!Move, Enters, phase
<1>2. Serial!Deliver(r) \/ Serial!Lose(r) \/ Serial!Refuse(r)
  BY <1>1 DEF Serial!Deliver, Serial!Lose, Serial!Refuse, stack, StackOf
<1> QED BY <1>2 DEF Serial!Next, SerialStep

-----------------------------------------------------------------------------
(* Every step of the calls is one of them.                                  *)

\* A task that moves within its phase, in or out of the store, is invisible.
LEMMA MoveStep ==
  ASSUME IInv, NEW t \in Refs, NEW pc, Goto(t, pc), UNCHANGED <<via, owner>>,
         SerialPhase(pc) = SerialPhase(taskPc[t]), pc \in InStore <=> taskPc[t] \in InStore
  PROVE  SerialStep
<1>1. phase' = phase /\ \A r \in Refs : taskPc'[r] \in InStore <=> taskPc[r] \in InStore
  BY Moves DEF IInv, BaseInv
<1>2. InsideNested' = InsideNested
  BY <1>1 DEF InsideNested
<1> QED BY <1>1, <1>2 DEF stack, SerialStep

\* The top of the stack goes on: outside, with its guards dropped.
LEMMA ReleaseStep ==
  ASSUME IInv, NEW t \in Refs, NEW pc \in {"replying", "panicked"}, Goto(t, pc), Release(t), UNCHANGED via,
         taskPc[t] = "wasm" \/ (taskPc[t] = "checking" /\ token[t] # "none")
  PROVE  SerialStep
<1>1. /\ Enters(t, SerialPhase(pc)) /\ phase[t] = SerialPhase(taskPc[t])
      /\ taskPc'[t] = pc /\ \A r \in Refs : r # t => taskPc'[r] = taskPc[r]
  BY Moves DEF IInv, BaseInv
<1>2. phase[t] = "open" /\ (Enters(t, "closed") \/ Enters(t, "lost"))
  BY <1>1, PhaseOf
<1>3. InsideNested' = InsideNested \ {t}
  <2>1. pc \notin InStore
    BY DEF InStore, Parked
  <2> QED BY <1>1, <2>1 DEF InsideNested
<1>4. CASE via[t] = None
  <2>1. InsideNested = {} /\ owner = t /\ stack = <<t>>
    BY <1>4, Top
  <2>2. InsideNested' = {} /\ owner' = None
    BY <1>3, <2>1 DEF Release
  <2>3. stack' = <<>>
    BY <2>2, StackForms DEF stack
  <2> QED BY <1>2, <2>1, <2>3, LeaveStep
<1>5. CASE via[t] # None
  <2>1. InsideNested = {t} /\ via[t] \in Refs /\ owner = via[t] /\ owner # t /\ stack = <<via[t], t>>
    BY <1>5, Top
  <2>2. InsideNested' = {} /\ owner' = via[t]
    BY <1>3, <2>1 DEF Release
  <2>3. stack' = <<via[t]>>
    BY <2>1, <2>2, StackForms DEF stack
  <2> QED BY <1>2, <2>1, <2>3, LeaveStep
<1> QED BY <1>4, <1>5

\* An outer call enters the empty store, or is lost to a poisoned mutex.
LEMMA LockStoreStep ==
  ASSUME IInv, NEW t \in Refs, LockStore(t)
  PROVE  SerialStep
<1>1. taskPc[t] = "locking" /\ via[t] = None /\ owner = None /\ via' = via
  BY DEF LockStore
<1>2. InsideNested = {} /\ stack = <<>>
  BY <1>1, EmptyStore
<1>3. CASE poisoned
  <2>1. Goto(t, "panicked") /\ owner' = owner
    BY <1>3 DEF LockStore
  <2>2. Enters(t, "lost") /\ phase[t] = "asked" /\ taskPc'[t] = "panicked"
        /\ \A r \in Refs : r # t => taskPc'[r] = taskPc[r]
    BY <1>1, <2>1, Moves, PhaseOf DEF IInv, BaseInv
  <2>3. InsideNested' = InsideNested
    BY <1>1, <2>2 DEF InsideNested
  <2> QED BY <1>1, <2>1, <2>2, <2>3, OutsideStep DEF stack
<1>4. CASE ~poisoned
  <2>1. Goto(t, "wasm") /\ owner' = t
    BY <1>4 DEF LockStore
  <2>2. Enters(t, "open") /\ phase[t] = "asked" /\ \A r \in Refs : r # t => taskPc'[r] = taskPc[r]
    BY <1>1, <2>1, Moves, PhaseOf DEF IInv, BaseInv
  <2>3. InsideNested' = {}
    BY <1>1, <1>2, <2>2 DEF InsideNested
  <2>4. stack' = <<t>>
    BY <2>1, <2>3, StackForms DEF stack
  <2> QED BY <1>1, <1>2, <2>2, <2>4, OpenStep
<1> QED BY <1>3, <1>4

\* A nested call enters the store on top of the call that waits for it, or is
\* lost with its caller.
LEMMA LockCallerStep ==
  ASSUME IInv, NEW t \in Refs, LockCaller(t)
  PROVE  SerialStep
<1> USE DEF IInv, BaseInv
<1>1. taskPc[t] = "locking" /\ via[t] # None /\ via' = via /\ owner' = owner
  BY DEF LockCaller, storeVars
<1>2. Active(t)
  BY <1>1 DEF Active, OnWorker
<1>3. via[t] \in Refs /\ taskPc[via[t]] \in Parked /\ via[via[t]] = None
  BY <1>1, <1>2 DEF NestedInv, TypeOK
<1>4. \A n \in Refs : via[n] # None => taskPc[n] \notin InStore
  <2>1. \A n \in Refs : via[n] # None /\ taskPc[n] \in InStore => Active(n)
    BY DEF Active, InStore, Parked, OnWorker
  <2>2. taskPc[t] \notin InStore
    BY <1>1 DEF InStore, Parked
  <2> QED BY <1>2, <2>1, <2>2 DEF NestedInv
<1>5. InsideNested = {} /\ owner = via[t] /\ stack = <<via[t]>>
  BY <1>3, <1>4, Waits
<1>6. CASE via[t] \in callers
  <2>1. Goto(t, "wasm")
    BY <1>6 DEF LockCaller
  <2>2. /\ Enters(t, "open") /\ phase[t] = "asked" /\ taskPc'[t] = "wasm"
        /\ \A r \in Refs : r # t => taskPc'[r] = taskPc[r]
    BY <1>1, <2>1, Moves, PhaseOf
  <2>3. InsideNested' = {t}
    <3>1. taskPc'[t] \in InStore
      BY <2>2 DEF InStore
    <3> QED BY <1>1, <1>4, <2>2, <3>1 DEF InsideNested
  <2>4. stack' = <<via[t], t>>
    BY <1>1, <1>3, <1>5, <2>3, StackForms DEF stack
  <2> QED BY <1>1, <1>5, <2>2, <2>4, OpenStep
<1>7. CASE via[t] \notin callers
  <2>1. Goto(t, "panicked")
    BY <1>7 DEF LockCaller
  <2>2. /\ Enters(t, "lost") /\ phase[t] = "asked" /\ taskPc'[t] = "panicked"
        /\ \A r \in Refs : r # t => taskPc'[r] = taskPc[r]
    BY <1>1, <2>1, Moves, PhaseOf
  <2>3. InsideNested' = {}
    <3>1. taskPc'[t] \notin InStore
      BY <2>2 DEF InStore, Parked
    <3> QED BY <1>1, <1>4, <2>2, <3>1 DEF InsideNested
  <2>4. stack' = stack
    BY <1>1, <1>5, <2>3 DEF stack
  <2> QED BY <1>1, <2>2, <2>4, OutsideStep
<1> QED BY <1>6, <1>7

\* The steps of a task.
LEMMA TaskStep ==
  ASSUME IInv, NEW t \in Refs, TaskNext(t)
  PROVE  SerialStep
<1>1. CASE Start(t)
  <2>1. Goto(t, "locking") /\ taskPc[t] = "queued" /\ UNCHANGED <<via, owner>>
    BY <1>1 DEF Start, storeVars
  <2> QED BY <2>1, MoveStep, PhaseOf DEF InStore, Parked
<1>2. CASE Wait(t)
  <2>1. Goto(t, "asleep") /\ taskPc[t] = "checking" /\ UNCHANGED <<via, owner>>
    BY <1>2 DEF Wait, storeVars
  <2> QED BY <2>1, MoveStep, PhaseOf DEF InStore, Parked
<1>3. CASE ResumeWasm(t)
  <2>1. Goto(t, "wasm") /\ taskPc[t] = "checking" /\ UNCHANGED <<via, owner>>
    BY <1>3 DEF ResumeWasm, storeVars
  <2> QED BY <2>1, MoveStep, PhaseOf DEF InStore, Parked
<1>4. CASE CallImport(t)
  <2>1. taskPc[t] = "wasm" /\ UNCHANGED via
    BY <1>4 DEF CallImport
  <2>2. CASE serverPc = "dead"
    <3>1. Goto(t, "panicked") /\ Release(t)
      BY <1>4, <2>2 DEF CallImport
    <3> QED BY <2>1, <3>1, ReleaseStep
  <2>3. CASE serverPc # "dead"
    <3>1. Goto(t, "checking") /\ UNCHANGED owner
      BY <1>4, <2>3 DEF CallImport, storeVars
    <3> QED BY <2>1, <3>1, MoveStep, PhaseOf DEF InStore, Parked
  <2> QED BY <2>2, <2>3
<1>5. CASE TrapInImport(t)
  BY <1>5, ReleaseStep DEF TrapInImport, Leave
<1>6. ASSUME NEW res \in {"ok", "error"}, FinishCall(t, res) PROVE SerialStep
  BY <1>6, ReleaseStep DEF FinishCall, Leave
<1>7. CASE SendReply(t)
  <2>1. Goto(t, "done") /\ taskPc[t] = "replying" /\ UNCHANGED <<via, owner>>
    BY <1>7 DEF SendReply, storeVars
  <2>2. /\ Enters(t, "delivered") /\ phase[t] = "closed" /\ taskPc'[t] = "done"
        /\ \A r \in Refs : r # t => taskPc'[r] = taskPc[r]
    BY <2>1, Moves, PhaseOf DEF IInv, BaseInv
  <2>3. InsideNested' = InsideNested
    <3>1. taskPc'[t] \notin InStore /\ taskPc[t] \notin InStore
      BY <2>1, <2>2 DEF InStore, Parked
    <3> QED BY <2>1, <2>2, <3>1 DEF InsideNested
  <2> QED BY <2>1, <2>2, <2>3, OutsideStep DEF stack
<1>8. CASE RefuseParams(t)
  <2>1. Goto(t, "replying") /\ taskPc[t] = "queued" /\ UNCHANGED <<via, owner>>
    BY <1>8 DEF RefuseParams, storeVars
  <2>2. /\ Enters(t, "closed") /\ phase[t] = "asked" /\ taskPc'[t] = "replying"
        /\ \A r \in Refs : r # t => taskPc'[r] = taskPc[r]
    BY <2>1, Moves, PhaseOf DEF IInv, BaseInv
  <2>3. InsideNested' = InsideNested
    <3>1. taskPc'[t] \notin InStore /\ taskPc[t] \notin InStore
      BY <2>1, <2>2 DEF InStore, Parked
    <3> QED BY <2>1, <2>2, <3>1 DEF InsideNested
  <2> QED BY <2>1, <2>2, <2>3, OutsideStep DEF stack
<1> QED BY <1>1, <1>2, <1>3, <1>4, <1>5, <1>6, <1>7, <1>8, LockStoreStep, LockCallerStep DEF TaskNext

\* A task is spawned: the call is asked for, nothing is said of the store.
LEMMA SpawnStep ==
  ASSUME IInv, NEW r \in Refs, taskPc[r] = "new", Goto(r, "queued"), UNCHANGED owner,
         \/ via' = via
         \/ \E p \in Refs : stack = <<p>> /\ via' = [via EXCEPT ![r] = p]
  PROVE  SerialStep
<1>1. /\ Enters(r, "asked") /\ phase[r] = "fresh" /\ taskPc'[r] = "queued"
      /\ \A x \in Refs : x # r => taskPc'[x] = taskPc[x]
  BY Moves, PhaseOf DEF IInv, BaseInv
<1>2. taskPc'[r] \notin InStore /\ taskPc[r] \notin InStore
  BY <1>1 DEF InStore, Parked
<1>3. \A x \in Refs : x # r => via'[x] = via[x]
  BY DEF IInv, BaseInv, TypeOK
<1>4. InsideNested' = InsideNested
  BY <1>1, <1>2, <1>3 DEF InsideNested
<1> QED BY <1>1, <1>4, AskStep DEF stack

\* The steps of the server.
LEMMA ServerStep ==
  ASSUME IInv, ServerNext \/ Stop \/ PanicInNif
  PROVE  SerialStep
<1> USE DEF IInv, BaseInv
<1>1. CASE HandleCallFunction
  <2> DEFINE m == Head(mailbox)
  <2>1. m = mailbox[1] /\ 1 \in DOMAIN mailbox
    BY <1>1, TailOfMailbox DEF HandleCallFunction, Serve, HeadIs, TypeOK
  <2>2. MessageInv(m) /\ m.ref \in Refs /\ m.kind = "call_function"
    BY <1>1, <2>1, MailboxRefs DEF MailboxInv, HandleCallFunction, Serve, HeadIs
  <2>3. taskPc[m.ref] = "new"
    BY <2>2 DEF MessageInv, RequestKinds
  <2>4. Goto(m.ref, "queued") /\ via' = via /\ owner' = owner
    BY <1>1 DEF HandleCallFunction, Goto, storeVars
  <2> HIDE DEF m
  <2> QED BY <2>2, <2>3, <2>4, SpawnStep
<1>2. ASSUME NEW r \in Refs, CallExportedFunction(r) PROVE SerialStep
  <2>1. /\ serverPc = "callback" /\ Fresh(r) /\ via' = [via EXCEPT ![r] = serving]
        /\ Goto(r, "queued") /\ owner' = owner
    BY <1>2 DEF CallExportedFunction, Goto, storeVars
  <2>2. taskPc[r] = "new" /\ serving \in Refs /\ taskPc[serving] \in Parked
    BY <2>1 DEF FreshInv, ServingInv, TypeOK
  <2>3. \A n \in Refs : ~Active(n)
    BY <2>1 DEF NestedInv
  <2>4. \A n \in Refs : via[n] # None => taskPc[n] \notin InStore
    BY <2>3 DEF Active, InStore, Parked, OnWorker
  <2>5. via[serving] = None
    BY <2>2, <2>4 DEF InStore
  <2>6. stack = <<serving>>
    BY <2>2, <2>4, <2>5, Waits
  <2> QED BY <2>1, <2>2, <2>6, SpawnStep
<1>3. ASSUME NEW success, ReceiveCallbackResult(success), serverPc \in {"callback", "nested"}
      PROVE  SerialStep
  <2> DEFINE pc == IF taskPc[serving] = "asleep" THEN "checking" ELSE taskPc[serving]
  <2>1. serving \in Refs /\ taskPc[serving] \in Parked
    BY <1>3 DEF ServingInv, TypeOK
  <2>2. Goto(serving, pc) /\ UNCHANGED <<via, owner>>
    BY <1>3 DEF ReceiveCallbackResult, Goto, storeVars
  <2>3. SerialPhase(pc) = SerialPhase(taskPc[serving]) /\ pc \in InStore /\ taskPc[serving] \in InStore
    BY <2>1, PhaseOf DEF Parked, InStore
  <2> HIDE DEF pc, IInv, BaseInv
  <2> QED BY <2>1, <2>2, <2>3, MoveStep
<1>4. CASE CallbackReturn \/ CallbackRaise
  BY <1>3, <1>4 DEF CallbackReturn, CallbackRaise
<1>5. CASE \/ HandleGet \/ HandleMemory \/ MemoryFromInstance \/ HandleInvokeCallback \/ HandleStray
           \/ CallbackCrash \/ Stop \/ PanicInNif
  <2>1. UNCHANGED <<taskPc, via, owner>>
    BY <1>5 DEF HandleGet, HandleMemory, MemoryFromInstance, HandleInvokeCallback, HandleStray,
       CallbackCrash, Stop, PanicInNif, taskVars, storeVars
  <2> QED BY <2>1, Invisible DEF SerialStep
<1>6. ASSUME NEW i \in DOMAIN mailbox, ReceiveNested(i) PROVE SerialStep
  BY <1>6, Invisible DEF ReceiveNested, taskVars, storeVars, SerialStep
<1> QED BY <1>1, <1>2, <1>4, <1>5, <1>6 DEF ServerNext

\* Every step of the system is a step of the abstract store, or invisible to it.
LEMMA StepsAreSerial == IInv /\ [Next]_vars => SerialStep
<1> SUFFICES ASSUME IInv, [Next]_vars PROVE SerialStep
  OBVIOUS
<1>1. ASSUME NEW c \in Clients, ClientNext(c) PROVE SerialStep
  <2>1. UNCHANGED <<taskPc, via, owner>>
    BY <1>1 DEF ClientNext, Request, ReceiveReply, TimeOut, Down, EndCall, taskVars, storeVars
  <2> QED BY <2>1, Invisible DEF SerialStep
<1>2. CASE UNCHANGED vars
  BY <1>2, Invisible DEF vars, SerialStep
<1> QED BY <1>1, <1>2, ServerStep, TaskStep DEF Next

\* Seen from the store, the calls of any number of clients and of the callbacks
\* are one stack of calls: outer calls enter an empty store, a nested call enters
\* on top of the call whose callback made it, and only the top leaves
\* (instance.rs:271, wasmex.ex:84-88).
THEOREM StoreIsSerial ==
  ASSUME "give_up" \notin Callbacks
  PROVE  Spec => ImplementsSerialStore
<1>1. Init => Serial!Init
  <2> SUFFICES ASSUME Init PROVE Serial!Init
    OBVIOUS
  <2>1. phase = [r \in Refs |-> "fresh"] /\ via = [r \in Refs |-> None]
    BY PhaseOf DEF Init, phase
  <2>2. stack = <<>>
    BY InitInv, EmptyStore DEF Init, IInv
  <2> QED BY <2>1, <2>2 DEF Serial!Init, phase, stack, StackOf
<1>2. IInv /\ [Next]_vars => [Serial!Next]_Serial!serialVars
  BY StepsAreSerial DEF SerialStep, Serial!serialVars, phase, stack, StackOf
<1> QED BY <1>1, <1>2, InductiveInvariant, PTL DEF Spec, ImplementsSerialStore, Serial!Spec
=============================================================================
