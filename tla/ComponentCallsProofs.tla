------------------------ MODULE ComponentCallsProofs ------------------------
(***************************************************************************)
(* Theorems about ComponentCalls, for any number of clients, servers,      *)
(* stores, calls and workers, and whichever servers call one another.      *)
(***************************************************************************)
EXTENDS ComponentCalls, SequenceTheorems, FiniteSetTheorems, TLAPS

Has(q, m)   == \E i \in 1..Len(q) : q[i] = m
Distinct(q) == \A i, j \in 1..Len(q) : q[i] = q[j] => i = j

\* A server has the call r, or the callback of r, in its message queue.
Called(s, r) == Has(mailbox[s], Msg("call", r))
Told(s, r)   == Has(mailbox[s], Msg("invoke_callback", r))

\* A call is made before it runs, of a server that has started.
Asked(r) ==
  /\ from[r] = None <=> to[r] = None
  /\ from[r] = None => taskPc[r] = "new"
  /\ from[r] # None => serverPc[to[r]] # "starting"

\* What a server has queued is not done yet, nor begun, and there is one of it.
Queued(s) ==
  /\ Distinct(mailbox[s])
  /\ \A r \in Refs :
       /\ Called(s, r) \/ Told(s, r) => to[r] = s /\ serverPc[s] \notin {"starting", "dead"}
       /\ Called(s, r) => taskPc[r] = "new"
       /\ Told(s, r) => Pending(r) /\ serving[s] # r

\* A server runs the callback of a call of its own that waits for it.
Serves(s) ==
  /\ serverPc[s] \in {"callback", "calling"} =>
       serving[s] \in Refs /\ to[serving[s]] = s /\ Pending(serving[s])
  /\ serverPc[s] \in {"starting", "idle"} => serving[s] = None
  /\ serverPc[s] = "calling" => waits[s] # None

\* The callback of a call that waits for it is with its server.
Delivered(r) == Pending(r) /\ Alive(to[r]) => Told(to[r], r) \/ serving[to[r]] = r

\* The owner of a store is the call that runs in it.
Owns(r) ==
  /\ \A st \in Stores : owner[st] = r => taskPc[r] \in InStore /\ MyStore(r) = st
  /\ taskPc[r] \in InStore => owner[MyStore(r)] = r

\* A call is answered after its task is done.
Answered(r) ==
  /\ outcome[r] \in {"ok", "error"} => reply[r] # "none"
  /\ reply[r] # "none" => taskPc[r] = "done"

Steady == \A r \in Refs : Asked(r) /\ Delivered(r) /\ Owns(r) /\ Answered(r)
Posted == \A s \in Servers : Queued(s) /\ Serves(s)

IInv == TypeOK /\ Steady /\ Posted

-----------------------------------------------------------------------------
(* Message queues.                                                          *)

\* A message names its kind and its call.
LEMMA MsgType ==
  ASSUME NEW kind \in {"call", "invoke_callback"}, NEW r \in Refs
  PROVE  /\ Msg(kind, r) \in Messages /\ Msg(kind, r).ref = r /\ Msg(kind, r).kind = kind
         /\ \A k \in {"call", "invoke_callback"}, x \in Refs :
              Msg(k, x) = Msg(kind, r) <=> k = kind /\ x = r
BY DEF Msg, Messages

\* Every message is one of the two kinds.
LEMMA MsgForm ==
  ASSUME NEW m \in Messages
  PROVE  m.kind \in {"call", "invoke_callback"} /\ m.ref \in Refs /\ m = Msg(m.kind, m.ref)
BY DEF Msg, Messages

\* An empty queue has no message.
LEMMA EmptyQueue ==
  <<>> \in Seq(Messages) /\ Distinct(<<>>) /\ \A m : ~Has(<<>>, m)
BY DEF Has, Distinct

\* A message that is new to the queue is put at its end.
LEMMA AppendQueue ==
  ASSUME NEW q \in Seq(Messages), NEW m \in Messages, Distinct(q), ~Has(q, m)
  PROVE  /\ Append(q, m) \in Seq(Messages) /\ Distinct(Append(q, m))
         /\ \A n : Has(Append(q, m), n) <=> Has(q, n) \/ n = m
<1> DEFINE a == Append(q, m)
<1>1. /\ a \in Seq(Messages) /\ Len(a) = Len(q) + 1 /\ Len(q) \in Nat
      /\ \A i \in 1..Len(q) : a[i] = q[i]
      /\ a[Len(q) + 1] = m
  BY AppendProperties, LenProperties
<1>2. \A i \in 1..Len(a) : i \in 1..Len(q) \/ i = Len(q) + 1
  BY <1>1
<1> HIDE DEF a
<1>3. Distinct(a)
  <2> SUFFICES ASSUME NEW i \in 1..Len(a), NEW j \in 1..Len(a), a[i] = a[j] PROVE i = j
    BY DEF Distinct
  <2>1. CASE i \in 1..Len(q) /\ j \in 1..Len(q)
    BY <1>1, <2>1 DEF Distinct
  <2>2. CASE i \in 1..Len(q) /\ j = Len(q) + 1
    BY <1>1, <2>2 DEF Has
  <2>3. CASE j \in 1..Len(q) /\ i = Len(q) + 1
    BY <1>1, <2>3 DEF Has
  <2>4. CASE i = Len(q) + 1 /\ j = Len(q) + 1
    BY <2>4
  <2> QED BY <1>2, <2>1, <2>2, <2>3, <2>4
<1>4. \A n : Has(a, n) <=> Has(q, n) \/ n = m
  <2> SUFFICES ASSUME NEW n PROVE Has(a, n) <=> Has(q, n) \/ n = m
    OBVIOUS
  <2>1. Has(a, n) => Has(q, n) \/ n = m
    BY <1>1, <1>2 DEF Has
  <2>2. Has(q, n) => Has(a, n)
    BY <1>1 DEF Has
  <2>3. n = m => Has(a, n)
    <3>1. Len(q) + 1 \in 1..Len(a)
      BY <1>1
    <3> QED BY <1>1, <3>1 DEF Has
  <2> QED BY <2>1, <2>2, <2>3
<1> QED
  BY <1>1, <1>3, <1>4 DEF a

\* The message at the head of a queue is taken from it.
LEMMA TailQueue ==
  ASSUME NEW q \in Seq(Messages), Distinct(q), q # <<>>
  PROVE  /\ Head(q) \in Messages /\ Has(q, Head(q))
         /\ Tail(q) \in Seq(Messages) /\ Distinct(Tail(q))
         /\ \A n : Has(Tail(q), n) <=> Has(q, n) /\ n # Head(q)
<1> DEFINE t == Tail(q)  h == Head(q)
<1>1. /\ h \in Messages /\ t \in Seq(Messages) /\ Len(t) = Len(q) - 1
      /\ \A i \in 1..Len(t) : t[i] = q[i + 1]
      /\ Len(q) \in Nat
  BY HeadTailProperties, LenProperties
<1>2. h = q[1] /\ Len(q) # 0
  BY EmptySeq
<1>3. /\ 1 \in 1..Len(q)
      /\ \A i \in 1..Len(t) : i + 1 \in 1..Len(q) /\ i + 1 # 1
      /\ \A i \in 1..Len(q) : i = 1 \/ (i - 1 \in 1..Len(t) /\ t[i - 1] = q[i])
  BY <1>1, <1>2
<1> HIDE DEF t, h
<1>4. Has(q, h)
  BY <1>2, <1>3 DEF Has
<1>5. Distinct(t)
  <2> SUFFICES ASSUME NEW i \in 1..Len(t), NEW j \in 1..Len(t), t[i] = t[j] PROVE i = j
    BY DEF Distinct
  <2>1. q[i + 1] = q[j + 1] /\ i + 1 \in 1..Len(q) /\ j + 1 \in 1..Len(q)
    BY <1>1, <1>3
  <2>2. i + 1 = j + 1
    BY <2>1 DEF Distinct
  <2> QED BY <1>1, <2>2
<1>6. \A n : Has(t, n) <=> Has(q, n) /\ n # h
  <2> SUFFICES ASSUME NEW n PROVE Has(t, n) <=> Has(q, n) /\ n # h
    OBVIOUS
  <2>1. ASSUME NEW i \in 1..Len(t), t[i] = n PROVE Has(q, n) /\ n # h
    <3>1. q[i + 1] = n /\ i + 1 \in 1..Len(q) /\ i + 1 # 1
      BY <1>1, <1>3, <2>1
    <3> QED BY <1>2, <1>3, <3>1 DEF Has, Distinct
  <2>2. ASSUME NEW i \in 1..Len(q), q[i] = n, n # h PROVE Has(t, n)
    BY <1>2, <1>3, <2>2 DEF Has
  <2> QED BY <2>1, <2>2 DEF Has
<1> QED
  BY <1>1, <1>4, <1>5, <1>6 DEF t, h

\* A message is sent to a server.
LEMMA Send ==
  ASSUME TypeOK, NEW s \in Servers, NEW kind \in {"call", "invoke_callback"}, NEW r \in Refs,
         Distinct(mailbox[s]), ~Has(mailbox[s], Msg(kind, r)),
         mailbox' = [mailbox EXCEPT ![s] = Append(@, Msg(kind, r))]
  PROVE  /\ mailbox' \in [Servers -> Seq(Messages)]
         /\ \A u \in Servers : Distinct(mailbox[u]) => Distinct(mailbox'[u])
         /\ \A u \in Servers, x \in Refs :
              /\ Called(u, x)' <=> Called(u, x) \/ (u = s /\ kind = "call" /\ x = r)
              /\ Told(u, x)' <=> Told(u, x) \/ (u = s /\ kind = "invoke_callback" /\ x = r)
<1> DEFINE q == mailbox[s]  m == Msg(kind, r)
<1>1. mailbox \in [Servers -> Seq(Messages)] /\ q \in Seq(Messages) /\ m \in Messages
  BY MsgType DEF TypeOK
<1>2. /\ Append(q, m) \in Seq(Messages) /\ Distinct(Append(q, m))
      /\ \A n : Has(Append(q, m), n) <=> Has(q, n) \/ n = m
  BY <1>1, AppendQueue
<1>3. mailbox'[s] = Append(q, m) /\ \A u \in Servers : u # s => mailbox'[u] = mailbox[u]
  BY <1>1
<1>4. \A k \in {"call", "invoke_callback"}, x \in Refs : Msg(k, x) = m <=> k = kind /\ x = r
  BY MsgType
<1>5. mailbox' \in [Servers -> Seq(Messages)]
  BY <1>1, <1>2
<1>6. \A u \in Servers : Distinct(mailbox[u]) => Distinct(mailbox'[u])
  BY <1>2, <1>3
<1>7. \A u \in Servers, x \in Refs :
        /\ Called(u, x)' <=> Called(u, x) \/ (u = s /\ kind = "call" /\ x = r)
        /\ Told(u, x)' <=> Told(u, x) \/ (u = s /\ kind = "invoke_callback" /\ x = r)
  <2> HIDE DEF m
  <2> QED BY <1>2, <1>3, <1>4 DEF Called, Told
<1> QED
  BY <1>5, <1>6, <1>7

\* A server takes the message at the head of its queue.
LEMMA Take ==
  ASSUME TypeOK, NEW s \in Servers, NEW kind \in {"call", "invoke_callback"}, NEW pc,
         Distinct(mailbox[s]), Serve(s, kind, pc)
  PROVE  LET r == Head(mailbox[s]).ref IN
         /\ mailbox' \in [Servers -> Seq(Messages)]
         /\ \A u \in Servers : Distinct(mailbox[u]) => Distinct(mailbox'[u])
         /\ r \in Refs
         /\ IF kind = "call" THEN Called(s, r) ELSE Told(s, r)
         /\ \A u \in Servers, x \in Refs :
              /\ Called(u, x)' <=> Called(u, x) /\ ~(u = s /\ kind = "call" /\ x = r)
              /\ Told(u, x)' <=> Told(u, x) /\ ~(u = s /\ kind = "invoke_callback" /\ x = r)
<1> DEFINE q == mailbox[s]  m == Head(q)  r == m.ref
<1>1. mailbox \in [Servers -> Seq(Messages)] /\ q \in Seq(Messages) /\ q # <<>> /\ m.kind = kind
  BY DEF TypeOK, Serve
<1>2. /\ m \in Messages /\ Has(q, m) /\ Tail(q) \in Seq(Messages) /\ Distinct(Tail(q))
      /\ \A n : Has(Tail(q), n) <=> Has(q, n) /\ n # m
  BY <1>1, TailQueue
<1>3. r \in Refs /\ m = Msg(kind, r)
  BY <1>1, <1>2, MsgForm
<1>4. mailbox'[s] = Tail(q) /\ \A u \in Servers : u # s => mailbox'[u] = mailbox[u]
  BY <1>1 DEF Serve
<1>5. \A k \in {"call", "invoke_callback"}, x \in Refs : Msg(k, x) = m <=> k = kind /\ x = r
  BY <1>3, MsgType
<1>6. mailbox' \in [Servers -> Seq(Messages)]
  BY <1>1, <1>2 DEF Serve
<1>7. \A u \in Servers : Distinct(mailbox[u]) => Distinct(mailbox'[u])
  BY <1>2, <1>4
<1>8. IF kind = "call" THEN Called(s, r) ELSE Told(s, r)
  BY <1>2, <1>3 DEF Called, Told
<1>9. \A u \in Servers, x \in Refs :
        /\ Called(u, x)' <=> Called(u, x) /\ ~(u = s /\ kind = "call" /\ x = r)
        /\ Told(u, x)' <=> Told(u, x) /\ ~(u = s /\ kind = "invoke_callback" /\ x = r)
  <2> HIDE DEF m, r
  <2> QED BY <1>2, <1>4, <1>5 DEF Called, Told
<1> QED
  BY <1>3, <1>6, <1>7, <1>8, <1>9

\* The queue of a server that died is gone.
LEMMA Drop ==
  ASSUME TypeOK, NEW s \in Servers, mailbox' = [mailbox EXCEPT ![s] = <<>>]
  PROVE  /\ mailbox' \in [Servers -> Seq(Messages)]
         /\ \A u \in Servers : Distinct(mailbox[u]) => Distinct(mailbox'[u])
         /\ \A u \in Servers, x \in Refs :
              /\ Called(u, x)' <=> Called(u, x) /\ u # s
              /\ Told(u, x)' <=> Told(u, x) /\ u # s
<1>1. /\ mailbox \in [Servers -> Seq(Messages)] /\ mailbox'[s] = <<>>
      /\ \A u \in Servers : u # s => mailbox'[u] = mailbox[u]
  BY DEF TypeOK
<1> QED
  BY <1>1, EmptyQueue DEF Called, Told

\* A call whose task was started was made, of a server.
LEMMA Made ==
  ASSUME IInv, NEW r \in Refs, taskPc[r] # "new"
  PROVE  from[r] # None /\ to[r] \in Servers /\ serverPc[to[r]] # "starting" /\ MyStore(r) \in Stores
<1>1. from[r] # None /\ to[r] # None /\ serverPc[to[r]] # "starting"
  BY DEF IInv, Steady, Asked
<1>2. to[r] \in Servers
  BY <1>1 DEF IInv, TypeOK
<1> QED
  BY <1>1, <1>2, ComponentAssumption DEF MyStore

\* A server that runs no callback serves no call.
LEMMA Serving ==
  ASSUME IInv, NEW s \in Servers, NEW r \in Refs, Alive(s), serving[s] = r
  PROVE  to[r] = s /\ Pending(r) /\ serverPc[s] \in {"callback", "calling"} /\ ~Told(s, r)
<1>1. serverPc[s] \in {"starting", "idle", "callback", "calling"}
  BY DEF IInv, TypeOK, Alive
<1>2. Serves(s) /\ Queued(s) /\ r # None
  BY ComponentAssumption DEF IInv, Posted
<1> QED
  BY <1>1, <1>2 DEF Serves, Queued

-----------------------------------------------------------------------------
(* The steps of a task.                                                     *)

\* A step of a task that leaves the servers, their queues and the tokens alone,
\* and that starts no call and wakes no call that waits for its callback.
LEMMA KeepPosted ==
  ASSUME IInv, UNCHANGED token, UNCHANGED callVars, UNCHANGED serverVars, UNCHANGED waits,
         \A r \in Refs : /\ taskPc[r] = "new" => taskPc'[r] = "new"
                         /\ Pending(r) <=> Pending(r)'
  PROVE  Posted' /\ \A r \in Refs : Asked(r)' /\ Delivered(r)'
BY DEF IInv, Posted, Steady, Asked, Queued, Serves, Delivered, Called, Told, Alive,
       callVars, serverVars

\* A task that moves without taking or releasing its store.
LEMMA KeepOwners ==
  ASSUME IInv, UNCHANGED owner, UNCHANGED to,
         \A r \in Refs : taskPc[r] \in InStore <=> taskPc'[r] \in InStore
  PROVE  \A r \in Refs : Owns(r)'
BY DEF IInv, Steady, Owns, MyStore

\* A task is where it was, or at pc.
LEMMA TaskType ==
  ASSUME TypeOK, NEW r \in Refs, NEW pc \in OnWorker \cup {"new", "queued", "done"}, Goto(r, pc)
  PROVE  /\ taskPc' \in [Refs -> OnWorker \cup {"new", "queued", "done"}]
         /\ taskPc'[r] = pc
         /\ \A x \in Refs : x # r => taskPc'[x] = taskPc[x]
BY DEF TypeOK, Goto

\* The steps of a task that only move it keep the invariant.
LEMMA MoveStep ==
  ASSUME IInv, NEW r \in Refs, Start(r) \/ Wait(r) \/ ResumeWasm(r)
  PROVE  IInv'
<1> USE DEF IInv
<1>1. PICK pc \in {"locking", "asleep", "wasm"} :
        /\ Goto(r, pc)
        /\ \/ taskPc[r] = "queued" /\ pc = "locking"
           \/ taskPc[r] = "checking" /\ token[r] = "none" /\ pc = "asleep"
           \/ taskPc[r] = "checking" /\ token[r] = "ok" /\ pc = "wasm"
        /\ UNCHANGED <<reply, result, imports, token, owner>>
        /\ UNCHANGED callVars /\ UNCHANGED clientVars /\ UNCHANGED serverVars
  BY DEF Start, Wait, ResumeWasm
<1>2. /\ taskPc' \in [Refs -> OnWorker \cup {"new", "queued", "done"}]
      /\ taskPc'[r] = pc /\ \A x \in Refs : x # r => taskPc'[x] = taskPc[x]
  BY <1>1, TaskType DEF OnWorker
<1>3. TypeOK'
  BY <1>1, <1>2 DEF TypeOK, callVars, clientVars, serverVars
<1>4. Posted' /\ \A x \in Refs : Asked(x)' /\ Delivered(x)'
  <2>1. \A x \in Refs : (taskPc[x] = "new" => taskPc'[x] = "new") /\ (Pending(x) <=> Pending(x)')
    BY <1>1, <1>2 DEF Pending, Parked
  <2> QED BY <1>1, <2>1, KeepPosted DEF clientVars
<1>5. \A x \in Refs : Owns(x)'
  <2>1. \A x \in Refs : taskPc[x] \in InStore <=> taskPc'[x] \in InStore
    BY <1>1, <1>2 DEF InStore, Parked
  <2> QED BY <1>1, <2>1, KeepOwners DEF callVars
<1>6. \A x \in Refs : Answered(x)'
  BY <1>1, <1>2 DEF Steady, Answered, clientVars
<1> QED BY <1>3, <1>4, <1>5, <1>6 DEF Steady

\* A task that takes its store, releases it or sends its result keeps the invariant.
LEMMA StoreStep ==
  ASSUME IInv, NEW r \in Refs,
         LockStore(r) \/ (\E res \in {"ok", "error"} : FinishCall(r, res)) \/ SendReply(r)
  PROVE  IInv'
<1> USE DEF IInv
<1>1. PICK pc \in {"wasm", "replying", "done"} :
        /\ Goto(r, pc) /\ taskPc[r] \in {"locking", "wasm", "replying"}
        /\ IF pc = "done"
             THEN taskPc[r] = "replying" /\ reply' = [reply EXCEPT ![r] = result[r]]
             ELSE UNCHANGED reply
        /\ \/ UNCHANGED result
           \/ \E res \in {"ok", "error"} : result' = [result EXCEPT ![r] = res]
        /\ UNCHANGED <<imports, token>>
        /\ UNCHANGED callVars /\ UNCHANGED clientVars /\ UNCHANGED serverVars
  BY DEF LockStore, FinishCall, SendReply
<1>2. /\ taskPc' \in [Refs -> OnWorker \cup {"new", "queued", "done"}]
      /\ taskPc'[r] = pc /\ \A x \in Refs : x # r => taskPc'[x] = taskPc[x]
  BY <1>1, TaskType DEF OnWorker
<1>3. to[r] \in Servers /\ MyStore(r) \in Stores
  BY <1>1, ComponentAssumption DEF Steady, Asked, TypeOK, MyStore
<1>4. TypeOK'
  <2>1. result' \in [Refs -> {"none", "ok", "error"}]
    BY <1>1 DEF TypeOK
  <2>3. reply' \in [Refs -> {"none", "ok", "error"}]
    <3>1. result[r] \in {"none", "ok", "error"}
      BY DEF TypeOK
    <3> QED BY <1>1, <3>1 DEF TypeOK
  <2>2. owner' \in [Stores -> Refs \cup {None}]
    BY <1>3 DEF TypeOK, LockStore, FinishCall, SendReply
  <2> QED BY <1>1, <1>2, <2>1, <2>2, <2>3 DEF TypeOK, callVars, clientVars, serverVars
<1>5. Posted' /\ \A x \in Refs : Asked(x)' /\ Delivered(x)'
  <2>1. \A x \in Refs : (taskPc[x] = "new" => taskPc'[x] = "new") /\ (Pending(x) <=> Pending(x)')
    BY <1>1, <1>2 DEF Pending, Parked
  <2> QED BY <1>1, <2>1, KeepPosted DEF clientVars
<1>6. \A x \in Refs : Owns(x)'
  <2>1. CASE LockStore(r)
    BY <1>1, <1>2, <1>3, <2>1, ComponentAssumption
       DEF LockStore, Goto, Steady, Owns, MyStore, TypeOK, InStore, Parked, callVars
  <2>2. ASSUME NEW res \in {"ok", "error"}, FinishCall(r, res) PROVE \A x \in Refs : Owns(x)'
    BY <1>1, <1>2, <1>3, <2>2, ComponentAssumption
       DEF FinishCall, Goto, Steady, Owns, MyStore, TypeOK, InStore, Parked, callVars
  <2>3. CASE SendReply(r)
    <3>1. \A x \in Refs : taskPc[x] \in InStore <=> taskPc'[x] \in InStore
      BY <1>2, <2>3 DEF InStore, Parked, SendReply, Goto, TypeOK
    <3> QED BY <1>1, <2>3, <3>1, KeepOwners DEF callVars, SendReply
  <2> QED BY <2>1, <2>2, <2>3
<1>7. \A x \in Refs : Answered(x)'
  BY <1>1, <1>2 DEF Steady, Answered, clientVars, TypeOK
<1> QED BY <1>4, <1>5, <1>6, <1>7 DEF Steady

\* An import that is invoked keeps the invariant: the message is new to the queue
\* because the call was running, and not waiting for a callback.
LEMMA ImportStep ==
  ASSUME IInv, NEW r \in Refs, CallImport(r)
  PROVE  IInv'
<1> USE DEF IInv
<1> DEFINE s == to[r]
<1>1. /\ taskPc[r] = "wasm" /\ Goto(r, "checking") /\ token' = [token EXCEPT ![r] = "none"]
      /\ UNCHANGED <<reply, result, owner, serverPc, serving>>
      /\ UNCHANGED callVars /\ UNCHANGED clientVars
      /\ imports' \in [Refs -> 0..MaxImports]
  <2>1. imports[r] \in 0..MaxImports /\ imports[r] < MaxImports /\ MaxImports \in Nat
    BY ComponentAssumption DEF TypeOK, CallImport
  <2>2. imports[r] + 1 \in 0..MaxImports
    BY <2>1
  <2> QED BY <2>2 DEF CallImport, TypeOK
<1>2. /\ taskPc' \in [Refs -> OnWorker \cup {"new", "queued", "done"}]
      /\ taskPc'[r] = "checking" /\ \A x \in Refs : x # r => taskPc'[x] = taskPc[x]
  BY <1>1, TaskType DEF OnWorker
<1>3. s \in Servers /\ serverPc[s] # "starting" /\ Queued(s) /\ ~Told(s, r) /\ ~Pending(r)
  <2>1. ~Pending(r) /\ taskPc[r] # "new"
    BY <1>1 DEF Pending, Parked
  <2>2. s \in Servers /\ serverPc[s] # "starting" /\ Queued(s)
    BY <2>1, Made DEF Posted
  <2> QED BY <2>1, <2>2 DEF Queued
<1>4. /\ mailbox' \in [Servers -> Seq(Messages)]
      /\ \A u \in Servers : Distinct(mailbox[u]) => Distinct(mailbox'[u])
      /\ \A u \in Servers, x \in Refs :
           /\ Called(u, x)' <=> Called(u, x)
           /\ Told(u, x)' <=> Told(u, x) \/ (u = s /\ Alive(s) /\ x = r)
  <2>1. CASE Alive(s)
    <3>1. mailbox' = [mailbox EXCEPT ![s] = Append(@, Msg("invoke_callback", r))]
      BY <2>1 DEF CallImport
    <3> QED BY <1>3, <2>1, <3>1, Send DEF Queued, Told
  <2>2. CASE ~Alive(s)
    BY <2>2 DEF CallImport, TypeOK, Called, Told
  <2> QED BY <2>1, <2>2
<1>5. TypeOK'
  BY <1>1, <1>2, <1>4 DEF TypeOK, callVars, clientVars
<1>6. \A x \in Refs : Pending(x)' <=> Pending(x) \/ x = r
  BY <1>1, <1>2 DEF Pending, Parked, TypeOK
<1>7. \A u \in Servers : Queued(u)' /\ Serves(u)'
  <2>1. \A u \in Servers : Serves(u)'
    BY <1>1, <1>6 DEF Posted, Serves, callVars, clientVars
  <2>2. serving[s] # r \/ ~Alive(s)
    BY <1>3, Serving
  <2>3. \A u \in Servers : Queued(u)'
    BY <1>1, <1>2, <1>3, <1>4, <1>6, <2>2 DEF Posted, Queued, Alive, callVars
  <2> QED BY <2>1, <2>3
<1>8. \A x \in Refs : Asked(x)' /\ Delivered(x)' /\ Owns(x)' /\ Answered(x)'
  <2>1. \A x \in Refs : Asked(x)' /\ Answered(x)'
    BY <1>1, <1>2 DEF Steady, Asked, Answered, callVars, clientVars
  <2>2. \A x \in Refs : Delivered(x)'
    <3> SUFFICES ASSUME NEW x \in Refs, Pending(x)', Alive(to[x])'
                 PROVE  (Told(to[x], x) \/ serving[to[x]] = x)'
      BY DEF Delivered
    <3>1. to' = to /\ Alive(to[x]) /\ (Pending(x) \/ x = r)
      BY <1>1, <1>6 DEF Alive, callVars
    <3>2. to[x] \in Servers
      BY <1>3, <3>1, Made DEF Pending, Parked
    <3>3. CASE x = r
      BY <1>4, <3>1, <3>2, <3>3
    <3>4. CASE Pending(x)
      BY <1>1, <1>4, <3>1, <3>2, <3>4 DEF Steady, Delivered
    <3> QED BY <3>1, <3>3, <3>4
  <2>3. \A x \in Refs : Owns(x)'
    <3>1. \A x \in Refs : taskPc[x] \in InStore <=> taskPc'[x] \in InStore
      BY <1>1, <1>2 DEF InStore, Parked
    <3> QED BY <1>1, <3>1, KeepOwners DEF callVars
  <2> QED BY <2>1, <2>2, <2>3
<1> QED BY <1>5, <1>7, <1>8 DEF Steady, Posted

-----------------------------------------------------------------------------
(* GenServer.call.                                                          *)

\* A call that is made keeps the invariant: nothing is queued for it yet.
LEMMA CallStep ==
  ASSUME IInv, NEW p \in Processes, NEW s \in Servers, NEW r \in Refs, Call(p, s, r),
         UNCHANGED <<outcome, reply, serving, token, owner>>, UNCHANGED taskVars,
         \/ UNCHANGED serverPc
         \/ /\ p \in Servers /\ p # s /\ serverPc[p] = "callback"
            /\ serverPc' = [serverPc EXCEPT ![p] = "calling"]
  PROVE  IInv'
<1> USE DEF IInv
<1>1. /\ from[r] = None /\ to[r] = None /\ taskPc[r] = "new" /\ serverPc[s] # "starting"
      /\ from' = [from EXCEPT ![r] = p] /\ to' = [to EXCEPT ![r] = s]
      /\ waits' = [waits EXCEPT ![p] = r]
  BY DEF Call, Steady, Asked
<1>2. /\ from'[r] = p /\ to'[r] = s /\ p # None /\ s # None /\ waits'[p] = r /\ r # None
      /\ \A x \in Refs : x # r => from'[x] = from[x] /\ to'[x] = to[x]
      /\ \A u \in Servers : u # p => waits'[u] = waits[u]
  BY <1>1, ComponentAssumption DEF TypeOK, Processes
<1>3. Queued(s) /\ ~Called(s, r) /\ ~Told(s, r)
  BY <1>1, <1>2 DEF Posted, Queued
<1>4. /\ mailbox' \in [Servers -> Seq(Messages)]
      /\ \A u \in Servers : Distinct(mailbox[u]) => Distinct(mailbox'[u])
      /\ \A u \in Servers, x \in Refs :
           /\ Called(u, x)' <=> Called(u, x) \/ (u = s /\ Alive(s) /\ x = r)
           /\ Told(u, x)' <=> Told(u, x)
  <2>1. CASE Alive(s)
    <3>1. mailbox' = [mailbox EXCEPT ![s] = Append(@, Msg("call", r))]
      BY <2>1 DEF Call
    <3> QED BY <1>3, <2>1, <3>1, Send DEF Queued, Called
  <2>2. CASE ~Alive(s)
    BY <2>2 DEF Call, TypeOK, Called, Told
  <2> QED BY <2>1, <2>2
<1>5. /\ serverPc' \in [Servers -> {"starting", "idle", "callback", "calling", "dead"}]
      /\ \A u \in Servers : \/ serverPc'[u] = serverPc[u]
                            \/ u = p /\ u # s /\ serverPc[u] = "callback" /\ serverPc'[u] = "calling"
  BY DEF TypeOK
<1>6. TypeOK'
  <2>1. from' \in [Refs -> Processes \cup {None}] /\ to' \in [Refs -> Servers \cup {None}]
        /\ waits' \in [Processes -> Refs \cup {None}]
    BY <1>1 DEF TypeOK
  <2> QED BY <1>4, <1>5, <2>1 DEF TypeOK, taskVars
<1>7. \A x \in Refs : (Pending(x)' <=> Pending(x)) /\ (x = r => ~Pending(x))
  BY <1>1 DEF Pending, Parked, taskVars
<1>8. \A u \in Servers : Queued(u)' /\ Serves(u)'
  <2>1. ASSUME NEW u \in Servers PROVE Queued(u)'
    <3>1. ASSUME NEW x \in Refs, x # r, Called(u, x)' \/ Told(u, x)'
          PROVE  /\ to'[x] = u /\ serverPc'[u] \notin {"starting", "dead"}
                 /\ Called(u, x)' => taskPc'[x] = "new"
                 /\ Told(u, x)' => Pending(x)' /\ serving'[u] # x
      BY <1>2, <1>4, <1>5, <1>7, <3>1 DEF Posted, Queued, taskVars
    <3>2. /\ ~Told(u, r)'
          /\ Called(u, r)' => to'[r] = u /\ serverPc'[u] \notin {"starting", "dead"} /\ taskPc'[r] = "new"
      <4>1. ~Called(u, r) /\ ~Told(u, r)
        BY <1>1, ComponentAssumption DEF Posted, Queued, Processes
      <4>2. Called(u, r)' => u = s /\ Alive(s)
        BY <1>4, <4>1
      <4>3. serverPc'[s] \in {"starting", "dead"} => serverPc'[s] = serverPc[s]
        BY <1>5
      <4> QED BY <1>1, <1>2, <1>4, <4>1, <4>2, <4>3 DEF Alive, taskVars
    <3> QED BY <1>4, <3>1, <3>2 DEF Posted, Queued
  <2>2. ASSUME NEW u \in Servers PROVE Serves(u)'
    <3>1. serverPc'[u] = "calling" => waits'[u] # None
      BY <1>2, <1>5 DEF Posted, Serves
    <3>2. serverPc'[u] \in {"callback", "calling"} =>
            serving[u] \in Refs /\ to'[serving[u]] = u /\ Pending(serving[u])'
      BY <1>2, <1>5, <1>7 DEF Posted, Serves
    <3> QED BY <1>5, <3>1, <3>2 DEF Posted, Serves
  <2> QED BY <2>1, <2>2
<1>9. \A x \in Refs : Asked(x)' /\ Delivered(x)' /\ Owns(x)' /\ Answered(x)'
  <2>1. ASSUME NEW x \in Refs PROVE Asked(x)'
    <3>1. CASE x = r
      BY <1>1, <1>2, <1>5, <3>1 DEF Asked, taskVars
    <3>2. CASE x # r
      BY <1>2, <1>5, <3>2 DEF Steady, Asked, TypeOK, taskVars
    <3> QED BY <3>1, <3>2
  <2>2. ASSUME NEW x \in Refs, Pending(x)', Alive(to[x])' PROVE (Told(to[x], x) \/ serving[to[x]] = x)'
    <3>1. Pending(x) /\ x # r /\ to'[x] = to[x]
      BY <1>2, <1>7, <2>2
    <3>2. to[x] \in Servers
      BY <3>1, Made DEF Pending, Parked
    <3> QED BY <1>4, <1>5, <2>2, <3>1, <3>2 DEF Steady, Delivered, Alive
  <2>3. ASSUME NEW x \in Refs PROVE Owns(x)'
    <3>1. CASE x = r
      BY <1>1, <3>1 DEF Steady, Owns, InStore, Parked, taskVars
    <3>2. CASE x # r
      BY <1>2, <3>2 DEF Steady, Owns, MyStore, taskVars
    <3> QED BY <3>1, <3>2
  <2>4. \A x \in Refs : Answered(x)'
    BY DEF Steady, Answered, taskVars
  <2> QED BY <2>1, <2>2, <2>3, <2>4 DEF Delivered
<1> QED BY <1>6, <1>8, <1>9 DEF Steady, Posted

\* A GenServer.call that ends, "ok" or "error" only when there is a reply.
LEMMA EndStep ==
  ASSUME IInv, NEW p \in Processes, NEW how, EndCall(p, how), waits[p] # None,
         \/ how \in {"timeout", "down"}
         \/ how \in {"ok", "error"} /\ reply[waits[p]] # "none"
  PROVE  /\ waits' \in [Processes -> Refs \cup {None}]
         /\ outcome' \in [Refs -> {"none", "ok", "error", "timeout", "down"}]
         /\ \A q \in Processes : q # p => waits'[q] = waits[q]
         /\ \A r \in Refs : Answered(r)' /\ Owns(r)'
<1>1. /\ waits[p] \in Refs /\ how \in {"none", "ok", "error", "timeout", "down"}
      /\ waits' = [waits EXCEPT ![p] = None] /\ outcome' = [outcome EXCEPT ![waits[p]] = how]
  BY DEF IInv, TypeOK, EndCall
<1>2. /\ waits' \in [Processes -> Refs \cup {None}]
      /\ outcome' \in [Refs -> {"none", "ok", "error", "timeout", "down"}]
      /\ \A q \in Processes : q # p => waits'[q] = waits[q]
  BY <1>1 DEF IInv, TypeOK
<1>3. \A r \in Refs : Answered(r)'
  BY <1>1 DEF IInv, TypeOK, Steady, Answered, EndCall, taskVars
<1>4. \A r \in Refs : Owns(r)'
  BY KeepOwners DEF EndCall, callVars, taskVars
<1> QED
  BY <1>2, <1>3, <1>4

\* The end of a client's call keeps the invariant.
LEMMA ClientEnds ==
  ASSUME IInv, NEW c \in Clients, ReceiveReply(c) \/ GiveUp(c)
  PROVE  IInv'
<1> USE DEF IInv
<1>1. PICK how : /\ EndCall(c, how) /\ waits[c] # None /\ UNCHANGED serverVars
                 /\ \/ how \in {"timeout", "down"}
                    \/ how \in {"ok", "error"} /\ reply[waits[c]] # "none"
  <2>1. waits[c] \in Refs \cup {None}
    BY DEF TypeOK, Processes
  <2>2. waits[c] # None => reply[waits[c]] \in {"none", "ok", "error"}
    BY <2>1 DEF TypeOK
  <2> QED BY <2>2 DEF ReceiveReply, GiveUp, Unanswerable
<1>2. c \in Processes /\ c \notin Servers
  BY ComponentAssumption DEF Processes
<1>3. /\ waits' \in [Processes -> Refs \cup {None}]
      /\ outcome' \in [Refs -> {"none", "ok", "error", "timeout", "down"}]
      /\ \A q \in Processes : q # c => waits'[q] = waits[q]
      /\ \A r \in Refs : Answered(r)' /\ Owns(r)'
  BY <1>1, <1>2, EndStep
<1>4. TypeOK'
  BY <1>1, <1>3 DEF TypeOK, EndCall, callVars, taskVars, serverVars
<1>5. \A r \in Refs : Asked(r)' /\ Delivered(r)'
  BY <1>1 DEF Steady, Asked, Delivered, Pending, Alive, Told, EndCall, callVars, taskVars, serverVars
<1>6. \A s \in Servers : Queued(s)'
  BY <1>1 DEF Posted, Queued, Called, Told, Pending, EndCall, callVars, taskVars, serverVars
<1>7. \A s \in Servers : Serves(s)'
  BY <1>1, <1>2, <1>3 DEF Posted, Serves, Pending, Processes, EndCall, callVars, taskVars, serverVars
<1> QED BY <1>3, <1>4, <1>5, <1>6, <1>7 DEF Steady, Posted

-----------------------------------------------------------------------------
(* The steps of a server.                                                   *)

\* A server that starts, or fails to, has no messages yet.
LEMMA InstantiateStep ==
  ASSUME IInv, NEW s \in Servers, Instantiate(s)
  PROVE  IInv'
<1> USE DEF IInv
<1>1. /\ serverPc[s] = "starting" /\ serverPc'[s] \in {"idle", "dead"}
      /\ serverPc' \in [Servers -> {"starting", "idle", "callback", "calling", "dead"}]
      /\ \A u \in Servers : u # s => serverPc'[u] = serverPc[u]
      /\ UNCHANGED <<reply, mailbox, serving, token, owner>>
      /\ UNCHANGED callVars /\ UNCHANGED clientVars /\ UNCHANGED taskVars
  BY DEF Instantiate, TypeOK
<1>2. TypeOK'
  BY <1>1 DEF TypeOK, callVars, clientVars, taskVars
<1>3. \A r \in Refs : from[r] # None => to[r] \in Servers /\ to[r] # s
  BY <1>1 DEF Steady, Asked, TypeOK
<1>4. \A r \in Refs : Pending(r) => to[r] \in Servers /\ to[r] # s
  BY <1>3 DEF Steady, Asked, Pending, Parked
<1>5. \A u \in Servers : Queued(u)' /\ Serves(u)'
  <2>1. \A u \in Servers : Queued(u)'
    BY <1>1 DEF Posted, Queued, Called, Told, Pending, callVars, clientVars, taskVars
  <2>2. \A u \in Servers : Serves(u)'
    BY <1>1 DEF Posted, Serves, Pending, callVars, clientVars, taskVars
  <2> QED BY <2>1, <2>2
<1>6. \A r \in Refs : Asked(r)' /\ Delivered(r)' /\ Owns(r)' /\ Answered(r)'
  <2>1. \A r \in Refs : Asked(r)' /\ Answered(r)'
    BY <1>1, <1>3 DEF Steady, Asked, Answered, callVars, clientVars, taskVars
  <2>2. \A r \in Refs : Delivered(r)'
    BY <1>1, <1>4 DEF Steady, Delivered, Pending, Told, Alive, callVars, taskVars
  <2>3. \A r \in Refs : Owns(r)'
    BY <1>1, KeepOwners DEF callVars, taskVars
  <2> QED BY <2>1, <2>2, <2>3
<1> QED BY <1>2, <1>5, <1>6 DEF Steady, Posted

\* A call that is taken from the queue is started, once.
LEMMA HandleCallStep ==
  ASSUME IInv, NEW s \in Servers, HandleCallFunction(s)
  PROVE  IInv'
<1> USE DEF IInv
<1> DEFINE r == Head(mailbox[s]).ref
<1>1. /\ mailbox' \in [Servers -> Seq(Messages)]
      /\ \A u \in Servers : Distinct(mailbox'[u])
      /\ r \in Refs /\ Called(s, r)
      /\ \A u \in Servers, x \in Refs : /\ Called(u, x)' <=> Called(u, x) /\ ~(u = s /\ x = r)
                                        /\ Told(u, x)' <=> Told(u, x)
  BY Take DEF HandleCallFunction, Posted, Queued
<1>2. /\ serverPc[s] = "idle" /\ serverPc' = serverPc
      /\ taskPc' = [taskPc EXCEPT ![r] = "queued"]
      /\ UNCHANGED <<reply, serving, result, imports, token, owner>>
      /\ UNCHANGED callVars /\ UNCHANGED clientVars
  BY DEF HandleCallFunction, Serve, TypeOK
<1> HIDE DEF r
<1>3. to[r] = s /\ taskPc[r] = "new"
  BY <1>1 DEF Posted, Queued
<1>4. /\ taskPc' \in [Refs -> OnWorker \cup {"new", "queued", "done"}]
      /\ taskPc'[r] = "queued" /\ \A x \in Refs : x # r => taskPc'[x] = taskPc[x]
  BY <1>1, <1>2 DEF TypeOK
<1>5. TypeOK'
  BY <1>1, <1>2, <1>4 DEF TypeOK, callVars, clientVars
<1>6. \A x \in Refs : Pending(x)' <=> Pending(x)
  BY <1>2, <1>3, <1>4 DEF Pending, Parked
<1>7. \A u \in Servers : Queued(u)' /\ Serves(u)'
  <2>1. \A u \in Servers : Queued(u)'
    BY <1>1, <1>2, <1>3, <1>4, <1>6 DEF Posted, Queued, callVars
  <2>2. \A u \in Servers : Serves(u)'
    BY <1>2, <1>6 DEF Posted, Serves, callVars, clientVars
  <2> QED BY <2>1, <2>2
<1>8. \A x \in Refs : Asked(x)' /\ Delivered(x)' /\ Owns(x)' /\ Answered(x)'
  <2>1. \A x \in Refs : Asked(x)'
    <3>1. to[r] # None
      BY <1>3, ComponentAssumption DEF Processes
    <3> QED BY <1>2, <1>4, <3>1 DEF Steady, Asked, callVars
  <2>2. ASSUME NEW x \in Refs, Pending(x)', Alive(to[x])' PROVE (Told(to[x], x) \/ serving[to[x]] = x)'
    <3>1. to[x] \in Servers /\ Pending(x)
      BY <1>6, <2>2, Made DEF Pending, Parked
    <3> QED BY <1>1, <1>2, <2>2, <3>1 DEF Steady, Delivered, Alive, callVars
  <2>3. \A x \in Refs : Owns(x)'
    <3>1. \A x \in Refs : taskPc[x] \in InStore <=> taskPc'[x] \in InStore
      BY <1>3, <1>4 DEF InStore, Parked
    <3> QED BY <1>2, <3>1, KeepOwners DEF callVars
  <2>4. \A x \in Refs : Answered(x)'
    BY <1>2, <1>3, <1>4 DEF Steady, Answered, clientVars
  <2> QED BY <2>1, <2>2, <2>3, <2>4 DEF Delivered
<1> QED BY <1>5, <1>7, <1>8 DEF Steady, Posted

\* A callback that is taken from the queue is run, by its server, once.
LEMMA HandleInvokeStep ==
  ASSUME IInv, NEW s \in Servers, HandleInvokeCallback(s)
  PROVE  IInv'
<1> USE DEF IInv
<1> DEFINE r == Head(mailbox[s]).ref
<1>1. /\ mailbox' \in [Servers -> Seq(Messages)]
      /\ \A u \in Servers : Distinct(mailbox'[u])
      /\ r \in Refs /\ Told(s, r)
      /\ \A u \in Servers, x \in Refs : /\ Called(u, x)' <=> Called(u, x)
                                        /\ Told(u, x)' <=> Told(u, x) /\ ~(u = s /\ x = r)
  BY Take DEF HandleInvokeCallback, Posted, Queued
<1>2. /\ serverPc[s] = "idle" /\ serverPc' = [serverPc EXCEPT ![s] = "callback"]
      /\ serving' = [serving EXCEPT ![s] = r]
      /\ UNCHANGED <<reply, token, owner>>
      /\ UNCHANGED callVars /\ UNCHANGED clientVars /\ UNCHANGED taskVars
  BY DEF HandleInvokeCallback, Serve
<1> HIDE DEF r
<1>3. to[r] = s /\ Pending(r)
  BY <1>1 DEF Posted, Queued
<1>4. /\ serverPc'[s] = "callback" /\ serving'[s] = r
      /\ \A u \in Servers : u # s => serverPc'[u] = serverPc[u] /\ serving'[u] = serving[u]
  BY <1>2 DEF TypeOK
<1>5. TypeOK'
  <2>1. /\ serverPc' \in [Servers -> {"starting", "idle", "callback", "calling", "dead"}]
        /\ serving' \in [Servers -> Refs \cup {None}]
    BY <1>1, <1>2 DEF TypeOK
  <2> QED BY <1>1, <1>2, <2>1 DEF TypeOK, callVars, clientVars, taskVars
<1>6. \A x \in Refs : Pending(x)' <=> Pending(x)
  BY <1>2 DEF Pending, taskVars
<1>7. \A u \in Servers : Queued(u)' /\ Serves(u)'
  <2>1. \A u \in Servers : Queued(u)'
    BY <1>1, <1>2, <1>4, <1>6 DEF Posted, Queued, callVars, taskVars
  <2>2. \A u \in Servers : Serves(u)'
    BY <1>1, <1>2, <1>3, <1>4, <1>6 DEF Posted, Serves, callVars, clientVars
  <2> QED BY <2>1, <2>2
<1>8. \A x \in Refs : Asked(x)' /\ Delivered(x)' /\ Owns(x)' /\ Answered(x)'
  <2>1. \A x \in Refs : Asked(x)' /\ Answered(x)'
    BY <1>2, <1>4 DEF Steady, Asked, Answered, TypeOK, callVars, clientVars, taskVars
  <2>2. ASSUME NEW x \in Refs, Pending(x)', Alive(to[x])' PROVE (Told(to[x], x) \/ serving[to[x]] = x)'
    <3>1. to[x] \in Servers /\ Pending(x) /\ to' = to
      BY <1>2, <1>6, <2>2, Made DEF Pending, Parked, callVars
    <3>2. Alive(to[x])
      BY <1>2, <1>4, <2>2, <3>1 DEF Alive
    <3>3. CASE to[x] = s
      <4>1. serving[s] = None /\ None # x
        BY <1>2, ComponentAssumption DEF Posted, Serves
      <4> QED BY <1>1, <1>4, <3>1, <3>2, <3>3, <4>1 DEF Steady, Delivered
    <3>4. CASE to[x] # s
      BY <1>1, <1>4, <3>1, <3>2, <3>4 DEF Steady, Delivered
    <3> QED BY <3>3, <3>4
  <2>3. \A x \in Refs : Owns(x)'
    BY <1>2, KeepOwners DEF callVars, taskVars
  <2> QED BY <2>1, <2>2, <2>3 DEF Delivered
<1> QED BY <1>5, <1>7, <1>8 DEF Steady, Posted

\* The result of a callback reaches the call that waits for it, and no other.
LEMMA ReturnStep ==
  ASSUME IInv, NEW s \in Servers, CallbackReturn(s)
  PROVE  IInv'
<1> USE DEF IInv
<1> DEFINE r == serving[s]
<1>1. /\ serverPc[s] = "callback" /\ serverPc' = [serverPc EXCEPT ![s] = "idle"]
      /\ serving' = [serving EXCEPT ![s] = None] /\ token' = [token EXCEPT ![r] = "ok"]
      /\ taskPc' = [taskPc EXCEPT ![r] = IF @ = "asleep" THEN "checking" ELSE @]
      /\ UNCHANGED <<reply, mailbox, result, imports, owner>>
      /\ UNCHANGED callVars /\ UNCHANGED clientVars
  BY DEF CallbackReturn, ReceiveCallbackResult
<1>2. r \in Refs /\ to[r] = s /\ Pending(r) /\ ~Told(s, r)
  BY <1>1 DEF Posted, Serves, Queued
<1> HIDE DEF r
<1>3. /\ serverPc'[s] = "idle" /\ serving'[s] = None /\ serverPc[s] = "callback"
      /\ \A u \in Servers : u # s => serverPc'[u] = serverPc[u] /\ serving'[u] = serving[u]
  BY <1>1 DEF TypeOK
<1>4. /\ taskPc[r] \in Parked /\ taskPc'[r] \in Parked /\ token'[r] = "ok"
      /\ \A x \in Refs : x # r => taskPc'[x] = taskPc[x] /\ token'[x] = token[x]
  BY <1>1, <1>2 DEF TypeOK, Pending, Parked
<1>5. TypeOK'
  <2>1. /\ serverPc' \in [Servers -> {"starting", "idle", "callback", "calling", "dead"}]
        /\ serving' \in [Servers -> Refs \cup {None}] /\ token' \in [Refs -> {"none", "ok"}]
    BY <1>1 DEF TypeOK
  <2>2. taskPc' \in [Refs -> OnWorker \cup {"new", "queued", "done"}]
    BY <1>1 DEF TypeOK, OnWorker
  <2> QED BY <1>1, <2>1, <2>2 DEF TypeOK, callVars, clientVars
<1>6. \A x \in Refs : Pending(x)' <=> Pending(x) /\ x # r
  BY <1>4 DEF Pending
<1>7. \A u \in Servers, x \in Refs : (Called(u, x)' <=> Called(u, x)) /\ (Told(u, x)' <=> Told(u, x))
  BY <1>1 DEF Called, Told
<1>8. \A u \in Servers : Queued(u)' /\ Serves(u)'
  <2>1. ASSUME NEW u \in Servers PROVE Queued(u)'
    <3>1. ASSUME NEW x \in Refs, Told(u, x) PROVE Pending(x)' /\ serving'[u] # x
      <4>1. to[x] = u /\ Pending(x) /\ serving[u] # x
        BY <3>1 DEF Posted, Queued
      <4>2. x # r /\ x # None
        BY <1>2, <3>1, <4>1, ComponentAssumption
      <4> QED BY <1>3, <1>6, <4>1, <4>2
    <3>2. ASSUME NEW x \in Refs, Called(u, x) PROVE taskPc'[x] = "new"
      <4>1. taskPc[x] = "new"
        BY <3>2 DEF Posted, Queued
      <4> QED BY <1>4, <4>1 DEF Parked
    <3>3. \A x \in Refs : Called(u, x) \/ Told(u, x) =>
            to'[x] = u /\ serverPc'[u] \notin {"starting", "dead"}
      BY <1>1, <1>3 DEF Posted, Queued, callVars
    <3> QED BY <1>1, <1>7, <3>1, <3>2, <3>3 DEF Posted, Queued
  <2>2. ASSUME NEW u \in Servers PROVE Serves(u)'
    <3>1. CASE u = s
      BY <1>3, <3>1 DEF Serves
    <3>2. CASE u # s
      <4>1. serverPc[u] \in {"callback", "calling"} => serving[u] # r
        BY <1>2, <3>2 DEF Posted, Serves
      <4> QED BY <1>1, <1>3, <1>6, <3>2, <4>1 DEF Posted, Serves, callVars, clientVars
    <3> QED BY <3>1, <3>2
  <2> QED BY <2>1, <2>2
<1>9. \A x \in Refs : Asked(x)' /\ Delivered(x)' /\ Owns(x)' /\ Answered(x)'
  <2>1. ASSUME NEW x \in Refs PROVE Asked(x)' /\ Answered(x)'
    <3>1. taskPc[x] \in {"new", "done"} => taskPc'[x] = taskPc[x]
      BY <1>4 DEF Parked
    <3>2. from[x] # None => serverPc'[to[x]] # "starting"
      BY <1>3 DEF Steady, Asked, TypeOK
    <3> QED BY <1>1, <3>1, <3>2 DEF Steady, Asked, Answered, callVars, clientVars
  <2>2. ASSUME NEW x \in Refs, Pending(x)', Alive(to[x])' PROVE (Told(to[x], x) \/ serving[to[x]] = x)'
    <3>1. to[x] \in Servers /\ Pending(x) /\ x # r /\ to' = to
      BY <1>1, <1>6, <2>2, Made DEF Pending, Parked, callVars
    <3>2. Alive(to[x]) /\ (serving[to[x]] = x => to[x] # s)
      BY <1>3, <2>2, <3>1 DEF Alive, r
    <3> QED BY <1>3, <1>7, <3>1, <3>2 DEF Steady, Delivered
  <2>3. \A x \in Refs : Owns(x)'
    <3>1. \A x \in Refs : taskPc[x] \in InStore <=> taskPc'[x] \in InStore
      BY <1>4 DEF InStore
    <3> QED BY <1>1, <3>1, KeepOwners DEF callVars
  <2> QED BY <2>1, <2>2, <2>3 DEF Delivered
<1> QED BY <1>5, <1>8, <1>9 DEF Steady, Posted

\* A server that dies takes its queue with it; its callbacks are lost, and
\* nothing else changes for the calls.
LEMMA DieStep ==
  ASSUME IInv, NEW s \in Servers, Die(s), serverPc[s] # "starting",
         UNCHANGED <<reply, token, owner>>, UNCHANGED callVars, UNCHANGED taskVars,
         waits' \in [Processes -> Refs \cup {None}],
         outcome' \in [Refs -> {"none", "ok", "error", "timeout", "down"}],
         \A q \in Processes : q # s => waits'[q] = waits[q],
         \A r \in Refs : Answered(r)'
  PROVE  IInv'
<1> USE DEF IInv
<1>1. /\ mailbox' \in [Servers -> Seq(Messages)]
      /\ \A u \in Servers : Distinct(mailbox[u]) => Distinct(mailbox'[u])
      /\ \A u \in Servers, x \in Refs : /\ Called(u, x)' <=> Called(u, x) /\ u # s
                                        /\ Told(u, x)' <=> Told(u, x) /\ u # s
  BY Drop DEF Die
<1>2. /\ serverPc' \in [Servers -> {"starting", "idle", "callback", "calling", "dead"}]
      /\ serverPc'[s] = "dead" /\ serving' = serving
      /\ \A u \in Servers : u # s => serverPc'[u] = serverPc[u]
  BY DEF Die, TypeOK
<1>3. TypeOK'
  BY <1>1, <1>2 DEF TypeOK, callVars, taskVars
<1>4. \A x \in Refs : Pending(x)' <=> Pending(x)
  BY DEF Pending, taskVars
<1>5. \A u \in Servers : Queued(u)' /\ Serves(u)'
  <2>1. \A u \in Servers : Queued(u)'
    BY <1>1, <1>2, <1>4 DEF Posted, Queued, callVars, taskVars
  <2>2. \A u \in Servers : Serves(u)'
    BY <1>2, <1>4 DEF Posted, Serves, callVars, Processes
  <2> QED BY <2>1, <2>2
<1>6. \A x \in Refs : Asked(x)' /\ Delivered(x)' /\ Owns(x)'
  <2>1. \A x \in Refs : Asked(x)'
    BY <1>2 DEF Steady, Asked, TypeOK, callVars, taskVars
  <2>2. ASSUME NEW x \in Refs, Pending(x)', Alive(to[x])' PROVE (Told(to[x], x) \/ serving[to[x]] = x)'
    <3>1. to[x] \in Servers /\ Pending(x) /\ to' = to
      BY <1>4, <2>2, Made DEF Pending, Parked, callVars
    <3> QED BY <1>1, <1>2, <2>2, <3>1 DEF Steady, Delivered, Alive
  <2>3. \A x \in Refs : Owns(x)'
    BY KeepOwners DEF callVars, taskVars
  <2> QED BY <2>1, <2>2, <2>3 DEF Delivered
<1> QED BY <1>3, <1>5, <1>6 DEF Steady, Posted

\* A server dies of an exception in a callback, of a call in a callback that
\* exits, or of a signal.
LEMMA DeathStep ==
  ASSUME IInv, NEW s \in Servers, CallbackCrash(s) \/ CallbackExit(s) \/ Stop(s)
  PROVE  IInv'
<1> USE DEF IInv
<1>1. s \in Processes /\ \A r \in Refs : Answered(r)
  BY DEF Processes, Steady
<1>2. CASE CallbackCrash(s)
  <2>1. \A r \in Refs : Answered(r)'
    BY <1>1, <1>2 DEF CallbackCrash, Answered, clientVars, taskVars
  <2> QED BY <1>2, <2>1, DieStep DEF CallbackCrash, TypeOK, clientVars
<1>3. CASE CallbackExit(s)
  <2>1. PICK how \in {"timeout", "down"} : EndCall(s, how)
    BY <1>3 DEF CallbackExit
  <2>2. serverPc[s] = "calling" /\ waits[s] # None /\ Die(s)
    BY <1>3 DEF CallbackExit, Posted, Serves
  <2>3. /\ waits' \in [Processes -> Refs \cup {None}]
        /\ outcome' \in [Refs -> {"none", "ok", "error", "timeout", "down"}]
        /\ \A q \in Processes : q # s => waits'[q] = waits[q]
        /\ \A r \in Refs : Answered(r)'
    BY <1>1, <2>1, <2>2, EndStep
  <2> QED BY <2>1, <2>2, <2>3, DieStep DEF EndCall
<1>4. CASE Stop(s)
  <2>1. /\ waits' \in [Processes -> Refs \cup {None}]
        /\ \A q \in Processes : q # s => waits'[q] = waits[q]
        /\ outcome' = outcome /\ serverPc[s] # "starting"
    BY <1>1, <1>4 DEF Stop, TypeOK
  <2>2. \A r \in Refs : Answered(r)'
    BY <1>1, <1>4 DEF Stop, Answered, taskVars
  <2> QED BY <1>4, <2>1, <2>2, DieStep DEF Stop, TypeOK
<1> QED BY <1>2, <1>3, <1>4

\* The reply to the call that a callback made keeps the invariant.
LEMMA ReplyStep ==
  ASSUME IInv, NEW s \in Servers, ReceiveServerReply(s)
  PROVE  IInv'
<1> USE DEF IInv
<1>1. s \in Processes /\ serverPc[s] = "calling" /\ waits[s] # None /\ waits[s] \in Refs
  BY DEF Processes, ReceiveServerReply, Posted, Serves, TypeOK
<1>2. /\ EndCall(s, reply[waits[s]]) /\ reply[waits[s]] \in {"ok", "error"}
      /\ reply[waits[s]] # "none"
      /\ serverPc' = [serverPc EXCEPT ![s] = "callback"] /\ UNCHANGED <<mailbox, serving>>
  BY <1>1 DEF ReceiveServerReply, TypeOK
<1>3. /\ waits' \in [Processes -> Refs \cup {None}]
      /\ outcome' \in [Refs -> {"none", "ok", "error", "timeout", "down"}]
      /\ \A q \in Processes : q # s => waits'[q] = waits[q]
      /\ \A r \in Refs : Answered(r)' /\ Owns(r)'
  BY <1>1, <1>2, EndStep
<1>4. /\ serverPc' \in [Servers -> {"starting", "idle", "callback", "calling", "dead"}]
      /\ serverPc'[s] = "callback" /\ \A u \in Servers : u # s => serverPc'[u] = serverPc[u]
  BY <1>2 DEF TypeOK
<1>5. TypeOK'
  BY <1>2, <1>3, <1>4 DEF TypeOK, EndCall, callVars, taskVars
<1>6. \A r \in Refs : (Pending(r)' <=> Pending(r)) /\ to'[r] = to[r] /\ from'[r] = from[r] /\ taskPc'[r] = taskPc[r]
  BY <1>2 DEF Pending, EndCall, callVars, taskVars
<1>7. \A u \in Servers, r \in Refs : (Called(u, r)' <=> Called(u, r)) /\ (Told(u, r)' <=> Told(u, r))
  BY <1>2 DEF Called, Told
<1>8. \A u \in Servers : Queued(u)'
  BY <1>1, <1>2, <1>4, <1>6, <1>7 DEF Posted, Queued
<1>9. \A u \in Servers : Serves(u)'
  BY <1>1, <1>2, <1>3, <1>4, <1>6 DEF Posted, Serves, Processes
<1>10. \A r \in Refs : Asked(r)' /\ Delivered(r)'
  <2>1. \A r \in Refs : Asked(r)'
    BY <1>4, <1>6 DEF Steady, Asked, TypeOK
  <2>2. ASSUME NEW r \in Refs, Pending(r)', Alive(to[r])' PROVE (Told(to[r], r) \/ serving[to[r]] = r)'
    <3>1. to[r] \in Servers /\ Pending(r) /\ to' = to
      BY <1>2, <1>6, <2>2, Made DEF Pending, Parked, EndCall, callVars
    <3> QED BY <1>1, <1>2, <1>4, <1>7, <2>2, <3>1 DEF Steady, Delivered, Alive
  <2> QED BY <2>1, <2>2 DEF Delivered
<1> QED BY <1>3, <1>5, <1>8, <1>9, <1>10 DEF Steady, Posted

-----------------------------------------------------------------------------
(* The theorems.                                                            *)

\* The initial state satisfies the invariant.
LEMMA InitInv == Init => IInv
<1> SUFFICES ASSUME Init PROVE IInv
  OBVIOUS
<1>1. TypeOK
  BY EmptyQueue, ComponentAssumption DEF Init, TypeOK
<1>2. Steady
  BY ComponentAssumption DEF Init, Steady, Asked, Delivered, Owns, Answered, Pending, Parked, InStore
<1>3. Posted
  BY EmptyQueue DEF Init, Posted, Queued, Serves, Called, Told
<1> QED BY <1>1, <1>2, <1>3 DEF IInv

\* Every step keeps the invariant.
LEMMA NextInv == IInv /\ [Next]_vars => IInv'
<1> SUFFICES ASSUME IInv, [Next]_vars PROVE IInv'
  OBVIOUS
<1>1. CASE UNCHANGED vars
  BY <1>1 DEF vars, IInv, TypeOK, Steady, Posted, Asked, Delivered, Owns, Answered, Queued, Serves,
     Called, Told, Pending, Alive, MyStore
<1>2. ASSUME NEW c \in Clients, ClientNext(c) PROVE IInv'
  <2>1. ASSUME NEW s \in Servers, NEW r \in Refs, Request(c, s, r) PROVE IInv'
    <3>1. c \in Processes
      BY DEF Processes
    <3> QED BY <2>1, <3>1, CallStep DEF Request
  <2> QED BY <1>2, <2>1, ClientEnds DEF ClientNext
<1>3. ASSUME NEW s \in Servers, ServerNext(s) PROVE IInv'
  <2>1. ASSUME NEW u \in Servers, NEW r \in Refs, CallServer(s, u, r) PROVE IInv'
    <3>1. s \in Processes
      BY DEF Processes
    <3> QED BY <2>1, <3>1, CallStep DEF CallServer
  <2> QED BY <1>3, <2>1, InstantiateStep, HandleCallStep, HandleInvokeStep, ReplyStep, ReturnStep, DeathStep
          DEF ServerNext
<1>4. ASSUME NEW s \in Servers, Stop(s) PROVE IInv'
  BY <1>4, DeathStep
<1>5. ASSUME NEW r \in Refs, TaskNext(r) PROVE IInv'
  BY <1>5, MoveStep, StoreStep, ImportStep DEF TaskNext
<1> QED BY <1>1, <1>2, <1>3, <1>4, <1>5 DEF Next

\* The invariant of every behaviour.
LEMMA Invariance == Spec => []IInv
BY InitInv, NextInv, PTL DEF Spec

\* The variables have their types.
THEOREM ComponentTypes == Spec => []TypeOK
<1>1. IInv => TypeOK
  BY DEF IInv
<1> QED BY <1>1, Invariance, PTL

\* The callback of a parked call is with its live server exactly once: queued
\* once and not running, or running and not queued (component_instance.rs:136-150,
\* components.ex:278-294).
THEOREM CallbacksArriveOnce == Spec => []CallbackDeliveredOnce
<1>1. ASSUME IInv, NEW r \in Refs, Pending(r), Alive(to[r]) PROVE Cardinality(Deliveries(r)) = 1
  <2> DEFINE s == to[r]  q == mailbox[s]  m == Msg("invoke_callback", r)
             running == {u \in Servers : Alive(u) /\ serving[u] = r}
  <2>1. s \in Servers
    BY <1>1, Made DEF Pending, Parked
  <2>2. q \in Seq(Messages) /\ Distinct(q) /\ DOMAIN q = 1..Len(q) /\ Len(q) \in Nat
    BY <1>1, <2>1, LenProperties DEF IInv, TypeOK, Posted, Queued
  <2>3. Told(s, r) \/ serving[s] = r
    BY <1>1 DEF IInv, Steady, Delivered
  <2>4. \A u \in running : u = s
    BY <1>1, Serving
  <2>5. Deliveries(r) = {i \in DOMAIN q : q[i] = m} \cup {0 : u \in running}
    BY DEF Deliveries
  <2> HIDE DEF q, m, running
  <2>6. CASE Told(s, r)
    <3>1. PICK i \in 1..Len(q) : q[i] = m
      BY <2>6 DEF Told, Has, q, m
    <3>2. {j \in DOMAIN q : q[j] = m} = {i}
      BY <2>2, <3>1 DEF Distinct
    <3>3. running = {}
      BY <1>1, <2>1, <2>4, <2>6, Serving DEF running
    <3>4. Deliveries(r) = {i}
      BY <2>5, <3>2, <3>3
    <3> QED BY <3>4, FS_Singleton
  <2>7. CASE ~Told(s, r)
    <3>1. {j \in DOMAIN q : q[j] = m} = {}
      BY <2>2, <2>7 DEF Told, Has, q, m
    <3>2. s \in running
      BY <1>1, <2>1, <2>3, <2>7 DEF running
    <3>3. Deliveries(r) = {0}
      BY <2>5, <3>1, <3>2
    <3> QED BY <3>3, FS_Singleton
  <2> QED BY <2>6, <2>7
<1>2. IInv => CallbackDeliveredOnce
  BY <1>1 DEF CallbackDeliveredOnce
<1> QED BY <1>2, Invariance, PTL

\* A call that was answered left no callback behind, queued or running, and does
\* not hold its store (component_instance.rs:147-160, 239-241, 223-225).
THEOREM AnsweredCallsAreGone == Spec => []AnsweredCallIsGone
<1>1. ASSUME IInv, NEW r \in Refs, outcome[r] \in {"ok", "error"}
      PROVE  Deliveries(r) = {} /\ owner[MyStore(r)] # r
  <2>1. taskPc[r] = "done"
    BY <1>1 DEF IInv, Steady, Answered
  <2>2. to[r] \in Servers /\ MyStore(r) \in Stores
    BY <1>1, <2>1, Made
  <2>3. ~Pending(r) /\ taskPc[r] \notin InStore
    BY <2>1 DEF Pending, Parked, InStore
  <2>4. ~Told(to[r], r) /\ \A u \in Servers : Alive(u) => serving[u] # r
    BY <1>1, <2>2, <2>3, Serving DEF IInv, Posted, Queued
  <2>5. DOMAIN mailbox[to[r]] = 1..Len(mailbox[to[r]])
    BY <1>1, <2>2, LenProperties DEF IInv, TypeOK
  <2>6. Deliveries(r) = {}
    BY <2>4, <2>5 DEF Deliveries, Told, Has
  <2>7. owner[MyStore(r)] # r
    BY <1>1, <2>2, <2>3 DEF IInv, Steady, Owns
  <2> QED BY <2>6, <2>7
<1>2. IInv => AnsweredCallIsGone
  BY <1>1 DEF AnsweredCallIsGone
<1> QED BY <1>2, Invariance, PTL

-----------------------------------------------------------------------------
(* The store, as SerialStore describes it.  Of AnyStore only that it is a   *)
(* store is used.                                                           *)

Mine(r) == to[r] # None /\ MyStore(r) = AnyStore

phase == [r \in Refs |-> IF Mine(r) THEN SerialPhase(taskPc[r]) ELSE "fresh"]
stack == IF owner[AnyStore] = None THEN <<>> ELSE <<owner[AnyStore]>>

Enters(r, ph) == phase' = [phase EXCEPT ![r] = ph]

\* The store that is looked at is one of the stores.
LEMMA StoreExists == AnyStore \in Stores
BY ComponentAssumption DEF AnyStore

\* A step that neither moves a task nor changes an owner is invisible.
LEMMA Invisible ==
  ASSUME UNCHANGED <<to, taskPc, owner>>
  PROVE  UNCHANGED <<phase, stack>>
BY DEF phase, stack, Mine, MyStore

\* A task that moves changes the phase of its call only.
LEMMA Moves ==
  ASSUME IInv, NEW r \in Refs, NEW pc, UNCHANGED to, Goto(r, pc)
  PROVE  /\ Mine(r) => Enters(r, SerialPhase(pc))
         /\ ~Mine(r) \/ SerialPhase(pc) = SerialPhase(taskPc[r]) => phase' = phase
         /\ Mine(r) => phase[r] = SerialPhase(taskPc[r])
         /\ Mine(r)' <=> Mine(r)
<1>1. taskPc'[r] = pc /\ \A x \in Refs : x # r => taskPc'[x] = taskPc[x]
  BY DEF IInv, TypeOK, Goto
<1>2. \A x \in Refs : Mine(x)' <=> Mine(x)
  BY DEF Mine, MyStore
<1>3. phase' = [x \in Refs |-> IF Mine(x) THEN SerialPhase(taskPc'[x]) ELSE "fresh"]
  BY <1>2 DEF phase
<1>4. /\ phase' \in [Refs -> {phase'[x] : x \in Refs}]
      /\ \A x \in Refs : x # r => phase'[x] = phase[x]
      /\ Mine(r) => phase'[r] = SerialPhase(pc) /\ phase[r] = SerialPhase(taskPc[r])
      /\ ~Mine(r) => phase'[r] = "fresh" /\ phase[r] = "fresh"
  BY <1>1, <1>3 DEF phase
<1>5. DOMAIN phase = Refs /\ phase = [x \in Refs |-> phase[x]] /\ phase' = [x \in Refs |-> phase'[x]]
  BY <1>3 DEF phase
<1>6. Mine(r) => Enters(r, SerialPhase(pc))
  BY <1>4, <1>5 DEF Enters
<1>7. ~Mine(r) \/ SerialPhase(pc) = SerialPhase(taskPc[r]) => phase' = phase
  BY <1>4, <1>5
<1> QED BY <1>2, <1>4, <1>6, <1>7

\* The phases of the places of a task.
LEMMA PhaseOf ==
  /\ SerialPhase("new") = "fresh"
  /\ SerialPhase("queued") = "asked" /\ SerialPhase("locking") = "asked"
  /\ SerialPhase("wasm") = "open" /\ SerialPhase("checking") = "open" /\ SerialPhase("asleep") = "open"
  /\ SerialPhase("replying") = "closed"
  /\ SerialPhase("done") = "delivered"
BY DEF SerialPhase, InStore, Parked

\* What the steps of the abstract store are, with the mapping put in.
LEMMA SerialSteps ==
  ASSUME NEW r \in Refs
  PROVE  /\ phase[r] = "fresh" /\ Enters(r, "asked") /\ stack' = stack => Serial!Ask(r)
         /\ phase[r] = "asked" /\ Enters(r, "open") /\ stack = <<>> /\ stack' = <<r>>
              => Serial!Open(r)
         /\ phase[r] = "open" /\ Enters(r, "closed") /\ stack = <<r>> /\ stack' = <<>>
              => Serial!Close(r)
         /\ phase[r] = "closed" /\ Enters(r, "delivered") /\ stack' = stack
              => Serial!Deliver(r)
<1>1. ASSUME phase[r] = "fresh", Enters(r, "asked"), stack' = stack PROVE Serial!Ask(r)
  BY <1>1 DEF Enters, Serial!Ask, Serial!Move, phase, stack, Mine
<1>2. ASSUME phase[r] = "asked", Enters(r, "open"), stack = <<>>, stack' = <<r>>
      PROVE  Serial!Open(r)
  <2>1. Append(<<>>, r) = <<r>>
    OBVIOUS
  <2>2. stack' = Append(stack, r)
    BY <1>2, <2>1
  <2> QED BY <1>2, <2>2 DEF Enters, Serial!Open, Serial!Move, phase, stack, Mine
<1>3. ASSUME phase[r] = "open", Enters(r, "closed"), stack = <<r>>, stack' = <<>>
      PROVE  Serial!Close(r)
  BY <1>3 DEF Enters, Serial!Close, Serial!Move, Serial!IsTop, Serial!Pop, phase, stack, Mine
<1>4. ASSUME phase[r] = "closed", Enters(r, "delivered"), stack' = stack
      PROVE  Serial!Deliver(r)
  BY <1>4 DEF Enters, Serial!Deliver, Serial!Move, phase, stack, Mine
<1> QED BY <1>1, <1>2, <1>3, <1>4

\* Every step of the component servers is a step of the abstract store or none.
LEMMA StepsAreSerial ==
  IInv /\ [Next]_vars => Serial!Next \/ UNCHANGED <<phase, stack>>
<1> SUFFICES ASSUME IInv, [Next]_vars PROVE Serial!Next \/ UNCHANGED <<phase, stack>>
  OBVIOUS
<1> USE DEF IInv
<1>1. CASE UNCHANGED vars
  BY <1>1, Invisible DEF vars
<1>2. ASSUME NEW p \in Processes, NEW s \in Servers, NEW r \in Refs, Call(p, s, r),
             UNCHANGED owner, UNCHANGED taskVars
      PROVE  UNCHANGED <<phase, stack>>
  <2>1. to[r] = None /\ taskPc[r] = "new" /\ \A x \in Refs : x # r => to'[x] = to[x]
    BY <1>2 DEF Call, Steady, Asked, TypeOK
  <2>2. \A x \in Refs : x # r => (Mine(x)' <=> Mine(x))
    BY <2>1 DEF Mine, MyStore
  <2>3. phase[r] = "fresh" /\ phase'[r] = "fresh"
    BY <1>2, <2>1, PhaseOf DEF phase, Mine, taskVars
  <2>4. \A x \in Refs : x # r => phase'[x] = phase[x]
    BY <1>2, <2>2 DEF phase, taskVars
  <2>5. phase = [x \in Refs |-> phase[x]] /\ phase' = [x \in Refs |-> phase'[x]]
    BY DEF phase
  <2>6. phase' = phase
    BY <2>3, <2>4, <2>5
  <2>7. stack' = stack
    BY <1>2 DEF stack
  <2> QED BY <2>6, <2>7
<1>3. ASSUME NEW c \in Clients, ClientNext(c) PROVE UNCHANGED <<phase, stack>>
  <2>1. ASSUME NEW s \in Servers, NEW r \in Refs, Request(c, s, r) PROVE UNCHANGED <<phase, stack>>
    BY <1>2, <2>1 DEF Request, Processes
  <2>2. CASE ReceiveReply(c) \/ GiveUp(c)
    BY <2>2, Invisible DEF ReceiveReply, GiveUp, EndCall, callVars, taskVars
  <2> QED BY <1>3, <2>1, <2>2 DEF ClientNext
<1>4. ASSUME NEW s \in Servers, HandleCallFunction(s) PROVE Serial!Next \/ UNCHANGED <<phase, stack>>
  <2>1. PICK r \in Refs : Called(s, r) /\ Goto(r, "queued")
    BY <1>4, Take DEF HandleCallFunction, Goto, Posted, Queued
  <2>2. taskPc[r] = "new"
    BY <2>1 DEF Posted, Queued
  <2>3. to' = to /\ stack' = stack
    BY <1>4 DEF HandleCallFunction, callVars, stack
  <2>4. CASE Mine(r)
    <3>1. phase[r] = "fresh" /\ Enters(r, "asked")
      BY <2>1, <2>2, <2>3, <2>4, Moves, PhaseOf
    <3>2. Serial!Ask(r)
      BY <2>3, <3>1, SerialSteps
    <3> QED BY <3>2 DEF Serial!Next
  <2>5. CASE ~Mine(r)
    BY <2>1, <2>3, <2>5, Moves
  <2> QED BY <2>4, <2>5
<1>5. ASSUME NEW s \in Servers, CallbackReturn(s) PROVE UNCHANGED <<phase, stack>>
  <2> DEFINE r == serving[s]  pc == IF taskPc[r] = "asleep" THEN "checking" ELSE taskPc[r]
  <2>1. r \in Refs /\ taskPc[r] \in Parked
    BY <1>5 DEF CallbackReturn, Posted, Serves, Pending
  <2>2. Goto(r, pc) /\ to' = to /\ stack' = stack
    BY <1>5 DEF CallbackReturn, ReceiveCallbackResult, Goto, callVars, stack
  <2>3. SerialPhase(pc) = SerialPhase(taskPc[r])
    BY <2>1, PhaseOf DEF Parked
  <2> HIDE DEF r, pc
  <2> QED BY <2>1, <2>2, <2>3, Moves
<1>6. ASSUME NEW s \in Servers, ServerNext(s) PROVE Serial!Next \/ UNCHANGED <<phase, stack>>
  <2>1. ASSUME NEW u \in Servers, NEW r \in Refs, CallServer(s, u, r) PROVE UNCHANGED <<phase, stack>>
    BY <1>2, <2>1 DEF CallServer, Processes
  <2>2. CASE Instantiate(s) \/ HandleInvokeCallback(s) \/ ReceiveServerReply(s) \/ CallbackCrash(s) \/ CallbackExit(s)
    BY <2>2, Invisible DEF Instantiate, HandleInvokeCallback, ReceiveServerReply, CallbackCrash,
       CallbackExit, EndCall, callVars, taskVars
  <2> QED BY <1>4, <1>5, <1>6, <2>1, <2>2 DEF ServerNext
<1>7. ASSUME NEW s \in Servers, Stop(s) PROVE UNCHANGED <<phase, stack>>
  BY <1>7, Invisible DEF Stop, callVars, taskVars
<1>8. ASSUME NEW r \in Refs, NEW pc, Goto(r, pc), UNCHANGED <<to, owner>>,
             SerialPhase(pc) = SerialPhase(taskPc[r])
      PROVE  UNCHANGED <<phase, stack>>
  <2>1. stack' = stack
    BY <1>8 DEF stack
  <2> QED BY <1>8, <2>1, Moves
<1>9. ASSUME NEW r \in Refs, LockStore(r) PROVE Serial!Next \/ UNCHANGED <<phase, stack>>
  <2>1. /\ taskPc[r] = "locking" /\ owner[MyStore(r)] = None /\ to' = to
        /\ Goto(r, "wasm") /\ owner' = [owner EXCEPT ![MyStore(r)] = r]
    BY <1>9 DEF LockStore, callVars
  <2>2. MyStore(r) \in Stores /\ (Mine(r) <=> MyStore(r) = AnyStore)
    BY <2>1, Made, ComponentAssumption DEF Mine, Processes
  <2>3. CASE Mine(r)
    <3>1. stack = <<>> /\ stack' = <<r>>
      BY <2>1, <2>2, <2>3, ComponentAssumption DEF stack, TypeOK
    <3>2. phase[r] = "asked" /\ Enters(r, "open")
      BY <2>1, <2>3, Moves, PhaseOf
    <3>3. Serial!Open(r)
      BY <3>1, <3>2, SerialSteps
    <3> QED BY <3>3 DEF Serial!Next
  <2>4. CASE ~Mine(r)
    <3>1. stack' = stack
      BY <2>1, <2>2, <2>4, StoreExists DEF stack, TypeOK
    <3> QED BY <2>1, <2>4, <3>1, Moves
  <2> QED BY <2>3, <2>4
<1>10. ASSUME NEW r \in Refs, NEW res, FinishCall(r, res) PROVE Serial!Next \/ UNCHANGED <<phase, stack>>
  <2>1. /\ taskPc[r] = "wasm" /\ to' = to /\ owner[MyStore(r)] = r
        /\ Goto(r, "replying") /\ owner' = [owner EXCEPT ![MyStore(r)] = None]
    BY <1>10 DEF FinishCall, callVars, Steady, Owns, InStore
  <2>2. MyStore(r) \in Stores /\ (Mine(r) <=> MyStore(r) = AnyStore)
    BY <2>1, Made, ComponentAssumption DEF Mine, Processes
  <2>3. CASE Mine(r)
    <3>1. stack = <<r>> /\ stack' = <<>>
      BY <2>1, <2>2, <2>3, ComponentAssumption DEF stack, TypeOK
    <3>2. phase[r] = "open" /\ Enters(r, "closed")
      BY <2>1, <2>3, Moves, PhaseOf
    <3>3. Serial!Close(r)
      BY <3>1, <3>2, SerialSteps
    <3> QED BY <3>3 DEF Serial!Next
  <2>4. CASE ~Mine(r)
    <3>1. stack' = stack
      BY <2>1, <2>2, <2>4, StoreExists DEF stack, TypeOK
    <3> QED BY <2>1, <2>4, <3>1, Moves
  <2> QED BY <2>3, <2>4
<1>11. ASSUME NEW r \in Refs, SendReply(r) PROVE Serial!Next \/ UNCHANGED <<phase, stack>>
  <2>1. /\ taskPc[r] = "replying" /\ to' = to /\ Goto(r, "done") /\ stack' = stack
    BY <1>11 DEF SendReply, callVars, stack
  <2>2. CASE Mine(r)
    <3>1. phase[r] = "closed" /\ Enters(r, "delivered")
      BY <2>1, <2>2, Moves, PhaseOf
    <3>2. Serial!Deliver(r)
      BY <2>1, <3>1, SerialSteps
    <3> QED BY <3>2 DEF Serial!Next
  <2>3. CASE ~Mine(r)
    BY <2>1, <2>3, Moves
  <2> QED BY <2>2, <2>3
<1>12. ASSUME NEW r \in Refs, TaskNext(r) PROVE Serial!Next \/ UNCHANGED <<phase, stack>>
  <2>1. CASE Start(r) \/ Wait(r) \/ ResumeWasm(r) \/ CallImport(r)
    BY <1>8, <2>1, PhaseOf DEF Start, Wait, ResumeWasm, CallImport, callVars
  <2> QED BY <1>9, <1>10, <1>11, <1>12, <2>1 DEF TaskNext
<1> QED BY <1>1, <1>3, <1>6, <1>7, <1>12 DEF Next

\* A store runs the calls of all its servers one after the other, and every
\* call is delivered at most once (component_instance.rs:239-241).
THEOREM StoresAreSerial == Spec => ImplementsSerialStore
<1>1. Init => Serial!Init
  <2> SUFFICES ASSUME Init PROVE Serial!Init
    OBVIOUS
  <2>1. \A r \in Refs : ~Mine(r)
    BY DEF Init, Mine
  <2>2. phase = [r \in Refs |-> "fresh"] /\ stack = <<>>
    BY <2>1, StoreExists DEF Init, phase, stack
  <2> QED BY <2>2 DEF Serial!Init, phase, stack, Mine
<1>2. IInv /\ [Next]_vars => [Serial!Next]_Serial!serialVars
  BY StepsAreSerial DEF Serial!serialVars, phase, stack, Mine
<1> QED BY <1>1, <1>2, Invariance, PTL DEF Spec, ImplementsSerialStore, Serial!Spec
=============================================================================
