-------------------------- MODULE WasmexCallsProofs --------------------------
(***************************************************************************)
(* Proofs about WasmexCalls, for any number of clients, calls, workers and *)
(* imports.  BaseInv is inductive whatever the callbacks do, and gives     *)
(* TypeOK, NoLostWakeup, CallbackServesParked and CallersParked.  With      *)
(* NestedInv, which needs callbacks that wait for the nested call they     *)
(* made, it gives SingleRunner and AnsweredCallIsGone.                     *)
(***************************************************************************)
EXTENDS WasmexCalls, SequenceTheorems, FiniteSetTheorems, TLAPS

-----------------------------------------------------------------------------
(* The inductive invariant.                                                 *)

\* A nested task between its spawn and its reply.
Active(t) == via[t] # None /\ taskPc[t] \in OnWorker \cup {"queued"}

\* A reference nobody has used yet has no task.
FreshInv ==
  \A r \in Refs : Fresh(r) => taskPc[r] = "new" /\ via[r] = None /\ reply[r] = "none"

\* What a message of the server's mailbox says about the call it names.
MessageInv(m) ==
  /\ ~Fresh(m.ref)
  /\ m.kind \in RequestKinds =>
       taskPc[m.ref] = "new" /\ via[m.ref] = None /\ reply[m.ref] = "none"
  /\ m.kind = "invoke_callback" =>
       taskPc[m.ref] \in Parked /\ token[m.ref] = "none"
  /\ m.kind = "reply" => taskPc[m.ref] = "done"

\* One message per call, and none of the callback or the request in progress.
MailboxInv ==
  /\ \A i \in DOMAIN mailbox : MessageInv(mailbox[i])
  /\ \A i, j \in DOMAIN mailbox : mailbox[i].ref = mailbox[j].ref => i = j
  /\ serverPc \in {"locking", "callback", "nested"} =>
       \A i \in DOMAIN mailbox : mailbox[i].ref # serving

\* What the server is doing fits the task it does it for.
ServingInv ==
  /\ serverPc \in {"callback", "nested"} =>
       serving # None /\ taskPc[serving] \in Parked /\ token[serving] = "none"
  /\ serverPc = "nested" => awaiting # None
  /\ serverPc = "locking" =>
       serving # None /\ taskPc[serving] = "new" /\ via[serving] = None
       /\ ~Fresh(serving)

\* The callback that made a nested call still waits for it, or died with the
\* server, and then the outer call is parked for ever; there is only one.
NestedInv ==
  /\ \A t \in Refs : Active(t) =>
       /\ taskPc[via[t]] \in Parked /\ token[via[t]] = "none" /\ via[via[t]] = None
       /\ \/ serverPc = "nested" /\ awaiting = t /\ serving = via[t]
          \/ serverPc = "dead"
  /\ \A s, t \in Refs : Active(s) /\ Active(t) => s = t
  /\ \A t \in Refs : via[t] # None => taskPc[t] # "new"

\* Only the owner of the mutex is an outer call inside the store.
OwnerInv ==
  /\ \A t \in Refs : taskPc[t] \in InStore /\ via[t] = None => owner = t
  /\ owner # None => taskPc[owner] \in InStore

\* CALLER_MAP has the parked calls.
CallerInv == CallersParked /\ \A t \in Refs : taskPc[t] \in Parked => t \in callers

\* A reply is the last step of a task, or the answer to a request without one.
ReplyInv ==
  /\ \A r \in Refs : reply[r] # "none" => taskPc[r] \in {"new", "done"}
  /\ \A r \in Refs : outcome[r] \in {"ok", "error"} => reply[r] # "none"

\* What holds whatever the callbacks do.
BaseInv ==
  /\ TypeOK
  /\ FreshInv /\ MailboxInv /\ ServingInv /\ OwnerInv
  /\ CallerInv /\ ReplyInv /\ NoLostWakeup

\* What holds when callbacks wait for their nested calls.
IInv == BaseInv /\ NestedInv

-----------------------------------------------------------------------------
(* Mailboxes: what is left after a message is taken.                        *)

\* Taking the head (Serve) shifts the rest by one.
LEMMA TailOfMailbox ==
  ASSUME NEW S, NEW s \in Seq(S), s # <<>>
  PROVE  /\ Head(s) \in S /\ Head(s) = s[1] /\ 1 \in DOMAIN s
         /\ Tail(s) \in Seq(S)
         /\ \A i \in DOMAIN Tail(s) : i + 1 \in DOMAIN s /\ Tail(s)[i] = s[i + 1]
         /\ DOMAIN Tail(s) \subseteq Nat
  OBVIOUS

\* A sender adds to the end.
LEMMA AppendToMailbox ==
  ASSUME NEW S, NEW s \in Seq(S), NEW m \in S
  PROVE  /\ Append(s, m) \in Seq(S)
         /\ \A i \in DOMAIN Append(s, m) :
              \/ i \in DOMAIN s /\ Append(s, m)[i] = s[i]
              \/ i = Len(s) + 1 /\ Append(s, m)[i] = m
  OBVIOUS

\* The selective receive of a nested reply takes one message from the middle.
LEMMA RemoveFromMailbox ==
  ASSUME NEW S, NEW s \in Seq(S), NEW k \in DOMAIN s
  PROVE  /\ RemoveAt(s, k) \in Seq(S)
         /\ \A i \in DOMAIN RemoveAt(s, k) :
              \E j \in DOMAIN s : /\ j # k /\ RemoveAt(s, k)[i] = s[j]
                                 /\ j = IF i < k THEN i ELSE i + 1
         /\ DOMAIN RemoveAt(s, k) \subseteq Nat
<1> DEFINE A == SubSeq(s, 1, k - 1)
           B == SubSeq(s, k + 1, Len(s))
<1>1. k \in 1..Len(s) /\ Len(s) \in Nat
  OBVIOUS
<1>2. A \in Seq(S) /\ Len(A) = k - 1 /\ \A i \in 1..(k - 1) : A[i] = s[i]
  BY <1>1
<1>3. B \in Seq(S) /\ Len(B) = Len(s) - k /\ \A i \in 1..(Len(s) - k) : B[i] = s[k + i]
  BY <1>1
<1>4. RemoveAt(s, k) = A \o B
  BY DEF RemoveAt
<1> HIDE DEF A, B
<1>5. /\ RemoveAt(s, k) \in Seq(S)
      /\ Len(RemoveAt(s, k)) = Len(A) + Len(B)
      /\ \A i \in 1..(Len(A) + Len(B)) :
           RemoveAt(s, k)[i] = IF i <= Len(A) THEN A[i] ELSE B[i - Len(A)]
  BY <1>2, <1>3, <1>4, ConcatProperties
<1>6. DOMAIN RemoveAt(s, k) = 1..(Len(s) - 1)
  BY <1>1, <1>2, <1>3, <1>5
<1>7. ASSUME NEW i \in 1..(Len(s) - 1)
      PROVE  RemoveAt(s, k)[i] = s[IF i < k THEN i ELSE i + 1]
  <2>1. CASE i < k
    BY <1>1, <1>2, <1>3, <1>5, <2>1
  <2>2. CASE ~(i < k)
    <3>1. i - (k - 1) \in 1..(Len(s) - k) /\ k + (i - (k - 1)) = i + 1
      BY <1>1, <2>2
    <3>2. i \in 1..(Len(A) + Len(B)) /\ ~(i <= Len(A)) /\ Len(A) = k - 1
      BY <1>1, <1>2, <1>3, <2>2
    <3>3. RemoveAt(s, k)[i] = B[i - Len(A)]
      BY <1>5, <3>2
    <3>4. QED
      BY <1>3, <2>2, <3>1, <3>2, <3>3
  <2>3. QED
    BY <2>1, <2>2
<1>8. \A i \in 1..(Len(s) - 1) :
        /\ (IF i < k THEN i ELSE i + 1) \in DOMAIN s
        /\ (IF i < k THEN i ELSE i + 1) # k
  BY <1>1
<1>9. ASSUME NEW i \in DOMAIN RemoveAt(s, k)
      PROVE  \E j \in DOMAIN s : /\ j # k /\ RemoveAt(s, k)[i] = s[j]
                                /\ j = IF i < k THEN i ELSE i + 1
  <2>1. i \in 1..(Len(s) - 1)
    BY <1>6
  <2> DEFINE j == IF i < k THEN i ELSE i + 1
  <2>2. j \in DOMAIN s /\ j # k /\ RemoveAt(s, k)[i] = s[j]
    BY <1>7, <1>8, <2>1
  <2>3. QED
    BY <2>2
<1>10. DOMAIN RemoveAt(s, k) \subseteq Nat
  BY <1>1, <1>6
<1>11. QED
  BY <1>5, <1>9, <1>10

-----------------------------------------------------------------------------
(* Type correctness.                                                        *)

USE CallsAssumption DEF Server, Kinds, RequestKinds, TaskPcs, OnWorker, Parked, Results

\* A message of a known kind about a known call is a message.
LEMMA MsgType ==
  ASSUME NEW k \in Kinds, NEW r \in Refs
  PROVE  /\ Msg(k, r) \in Messages
         /\ Msg(k, r).kind = k /\ Msg(k, r).ref = r
  BY DEF Msg, Messages

\* The initial state is well typed.
LEMMA InitType == Init => TypeOK
<1> SUFFICES ASSUME Init PROVE TypeOK
  OBVIOUS
<1>1. mailbox \in Seq(Messages)
  BY DEF Init
<1>2. imports \in [Refs -> 0..MaxImports]
  BY DEF Init
<1>3. /\ client \in [Clients -> Refs \cup {None}]
      /\ from \in [Refs -> Clients \cup {Server, None}]
      /\ via \in [Refs -> Refs \cup {None}]
  BY DEF Init
<1>4. /\ reply \in [Refs -> Results] /\ token \in [Refs -> Results]
      /\ result \in [Refs -> Results] /\ taskPc \in [Refs -> TaskPcs]
      /\ outcome \in [Refs -> Results \cup {"timeout", "down"}]
  BY DEF Init
<1>5. /\ serverPc = "idle" /\ serving = None /\ awaiting = None /\ owner = None
      /\ callers \subseteq Refs /\ poisoned \in BOOLEAN
  BY DEF Init
<1>6. QED
  BY <1>1, <1>2, <1>3, <1>4, <1>5 DEF TypeOK

\* The steps of the client processes keep the types.
LEMMA ClientType ==
  ASSUME TypeOK, NEW c \in Clients, ClientNext(c)
  PROVE  TypeOK'
<1> USE DEF clientVars, serverVars, taskVars, storeVars
<1>1. ASSUME NEW r \in Refs, NEW k \in Requests, Request(c, r, k)
      PROVE  TypeOK'
  <2>1. Append(mailbox, Msg(k, r)) \in Seq(Messages)
    BY MsgType, AppendToMailbox DEF TypeOK
  <2>2. QED
    BY <1>1, <2>1 DEF Request, TypeOK
<1>2. ASSUME NEW how \in Results \cup {"timeout", "down"}, client[c] # None, EndCall(c, how)
      PROVE  TypeOK'
  BY <1>2 DEF EndCall, TypeOK
<1>3. QED
  <2>1. CASE ReceiveReply(c)
    <3>1. client[c] # None /\ reply[client[c]] \in Results
      BY <2>1 DEF ReceiveReply, TypeOK
    <3>2. EndCall(c, reply[client[c]])
      BY <2>1 DEF ReceiveReply
    <3>3. QED
      BY <1>2, <3>1, <3>2
  <2>2. CASE TimeOut(c)
    BY <1>2, <2>2 DEF TimeOut
  <2>3. CASE Down(c)
    BY <1>2, <2>3 DEF Down
  <2>4. QED
    BY <1>1, <2>1, <2>2, <2>3 DEF ClientNext

\* The steps of the server process keep the types.
LEMMA ServerType ==
  ASSUME TypeOK, ServerNext \/ Stop
  PROVE  TypeOK'
<1> USE DEF clientVars, serverVars, taskVars, storeVars
<1>1. ASSUME NEW k, NEW pc, Serve(k, pc)
      PROVE  mailbox' \in Seq(Messages) /\ Head(mailbox).ref \in Refs
  <2>1. Head(mailbox) \in Messages /\ Tail(mailbox) \in Seq(Messages)
    BY <1>1, TailOfMailbox DEF Serve, HeadIs, TypeOK
  <2>2. QED
    BY <1>1, <2>1 DEF Serve, Messages
<1>2. CASE HandleCallFunction
  BY <1>1, <1>2 DEF HandleCallFunction, Serve, TypeOK
<1>3. CASE HandleGet
  BY <1>1, <1>3 DEF HandleGet, Serve, TypeOK
<1>4. CASE HandleMemory
  BY <1>1, <1>4 DEF HandleMemory, Serve, TypeOK
<1>5. CASE MemoryFromInstance
  <2>1. PICK res \in {"ok", "error"} : reply' = [reply EXCEPT ![serving] = res]
    BY <1>5 DEF MemoryFromInstance
  <2>2. reply' \in [Refs -> Results]
    BY <2>1 DEF TypeOK
  <2>3. QED
    BY <1>5, <2>2 DEF MemoryFromInstance, TypeOK
<1>6. CASE HandleInvokeCallback
  BY <1>1, <1>6 DEF HandleInvokeCallback, Serve, TypeOK
<1>7. CASE HandleStray \/ CallbackCrash \/ Stop
  <2>1. <<>> \in Seq(Messages)
    OBVIOUS
  <2>2. QED
    BY <1>7, <2>1 DEF HandleStray, CallbackCrash, Stop, Die, TypeOK
<1>8. ASSUME NEW r \in Refs, CallExportedFunction(r)
      PROVE  TypeOK'
  BY <1>8 DEF CallExportedFunction, TypeOK
<1>9. ASSUME NEW i \in DOMAIN mailbox, ReceiveNested(i)
      PROVE  TypeOK'
  <2>1. mailbox' \in Seq(Messages)
    BY <1>9, RemoveFromMailbox DEF ReceiveNested, TypeOK
  <2>2. QED
    BY <1>9, <2>1 DEF ReceiveNested, TypeOK
<1>10. CASE CallbackReturn \/ CallbackRaise
  <2>1. ASSUME NEW success \in Results, ReceiveCallbackResult(success)
        PROVE  TypeOK'
    <3>1. taskPc' \in [Refs -> TaskPcs]
      BY <2>1 DEF ReceiveCallbackResult, TypeOK
    <3>2. token' \in [Refs -> Results]
      BY <2>1 DEF ReceiveCallbackResult, TypeOK
    <3>3. QED
      BY <2>1, <3>1, <3>2 DEF ReceiveCallbackResult, TypeOK
  <2>2. QED
    BY <1>10, <2>1 DEF CallbackReturn, CallbackRaise
<1>11. QED
  BY <1>2, <1>3, <1>4, <1>5, <1>6, <1>7, <1>8, <1>9, <1>10 DEF ServerNext

\* The steps of a task keep the types.
LEMMA TaskType ==
  ASSUME TypeOK, NEW t \in Refs, TaskNext(t)
  PROVE  TypeOK'
<1> USE DEF clientVars, serverVars, taskVars, storeVars, Goto
<1>1. CASE Start(t)
  BY <1>1 DEF Start, TypeOK
<1>2. CASE LockStore(t)
  BY <1>2 DEF LockStore, TypeOK
<1>3. CASE LockCaller(t)
  BY <1>3 DEF LockCaller, TypeOK
<1>4. CASE CallImport(t)
  <2>1. mailbox' \in Seq(Messages)
    <3>1. Append(mailbox, Msg("invoke_callback", t)) \in Seq(Messages)
      BY MsgType, AppendToMailbox DEF TypeOK
    <3>2. QED
      BY <1>4, <3>1 DEF CallImport, TypeOK
  <2>2. imports' \in [Refs -> 0..MaxImports]
    BY <1>4 DEF CallImport, TypeOK
  <2>3. QED
    BY <1>4, <2>1, <2>2 DEF CallImport, Release, TypeOK
<1>5. CASE Wait(t)
  BY <1>5 DEF Wait, TypeOK
<1>6. CASE ResumeWasm(t)
  BY <1>6 DEF ResumeWasm, TypeOK
<1>7. CASE TrapInImport(t)
  BY <1>7 DEF TrapInImport, Leave, Release, TypeOK
<1>8. ASSUME NEW res \in {"ok", "error"}, FinishCall(t, res)
      PROVE  TypeOK'
  BY <1>8 DEF FinishCall, Leave, Release, TypeOK
<1>9. CASE SendReply(t)
  <2>1. mailbox' \in Seq(Messages)
    <3>1. Append(mailbox, Msg("reply", t)) \in Seq(Messages)
      BY MsgType, AppendToMailbox DEF TypeOK
    <3>2. QED
      BY <1>9, <3>1 DEF SendReply, TypeOK
  <2>2. QED
    BY <1>9, <2>1 DEF SendReply, TypeOK
<1>10. CASE RefuseParams(t)
  BY <1>10 DEF RefuseParams, TypeOK
<1>11. QED
  BY <1>1, <1>2, <1>3, <1>4, <1>5, <1>6, <1>7, <1>8, <1>9, <1>10 DEF TaskNext

\* A panic in a NIF keeps the types.
LEMMA PanicType == TypeOK /\ PanicInNif => TypeOK'
  BY DEF PanicInNif, TypeOK, clientVars, serverVars, taskVars

\* Every state the specification reaches is well typed, for any number of
\* clients, references, workers and imports, whatever callbacks do.
THEOREM TypeCorrect == Spec => []TypeOK
<1>1. TypeOK /\ [Next]_vars => TypeOK'
  <2> SUFFICES ASSUME TypeOK, [Next]_vars PROVE TypeOK'
    OBVIOUS
  <2>1. CASE UNCHANGED vars
    BY <2>1 DEF vars, TypeOK
  <2>2. QED
    BY <2>1, ClientType, ServerType, TaskType, PanicType DEF Next
<1>2. QED
  BY <1>1, InitType, PTL DEF Spec

-----------------------------------------------------------------------------
(* Every step keeps the inductive invariant.                                *)

USE DEF InStore, Goto

\* The messages of a mailbox are about references.
LEMMA MailboxRefs ==
  ASSUME TypeOK, NEW i \in DOMAIN mailbox
  PROVE  mailbox[i] \in Messages /\ mailbox[i].ref \in Refs /\ mailbox[i].kind \in Kinds
<1>1. mailbox[i] \in Messages
  BY DEF TypeOK
<1>2. QED
  BY <1>1 DEF Messages

\* A message about a call no other message and no work in progress is about
\* may be added, if it is true.
LEMMA AppendKeepsMailboxInv ==
  ASSUME TypeOK, MailboxInv, NEW m \in Messages, mailbox' = Append(mailbox, m),
         \A x \in Messages, i \in DOMAIN mailbox : x = mailbox[i] =>
           MessageInv(x)' /\ x.ref # m.ref,
         MessageInv(m)',
         serverPc' = serverPc, serving' = serving,
         serverPc \in {"locking", "callback", "nested"} => m.ref # serving
  PROVE  MailboxInv'
<1>1. \A i \in DOMAIN mailbox' :
        \/ i \in DOMAIN mailbox /\ mailbox'[i] = mailbox[i]
        \/ i = Len(mailbox) + 1 /\ mailbox'[i] = m
  BY AppendToMailbox DEF TypeOK
<1>2. \A i \in DOMAIN mailbox : mailbox[i] \in Messages
  BY MailboxRefs
<1>3. (\A i \in DOMAIN mailbox : MessageInv(mailbox[i]))'
  BY <1>1, <1>2 DEF MessageInv
<1>4. \A i, j \in DOMAIN mailbox' : mailbox'[i].ref = mailbox'[j].ref => i = j
  BY <1>1, <1>2 DEF MailboxInv
<1>5. serverPc' \in {"locking", "callback", "nested"} =>
        \A i \in DOMAIN mailbox' : mailbox'[i].ref # serving'
  BY <1>1 DEF MailboxInv
<1>6. QED
  BY <1>3, <1>4, <1>5 DEF MailboxInv

\* The server takes the first message: what it then does must not disturb what
\* the others say, and the work it takes on is about the message it took.
LEMMA TailKeepsMailboxInv ==
  ASSUME TypeOK, MailboxInv, mailbox # <<>>, mailbox' = Tail(mailbox),
         \A x \in Messages, i \in DOMAIN mailbox :
           x = mailbox[i] /\ x.ref # Head(mailbox).ref => MessageInv(x)',
         serverPc' = "idle" \/ serving' = Head(mailbox).ref
  PROVE  MailboxInv'
<1>1. /\ Head(mailbox) = mailbox[1] /\ 1 \in DOMAIN mailbox /\ DOMAIN mailbox' \subseteq Nat
      /\ \A i \in DOMAIN mailbox' : i + 1 \in DOMAIN mailbox /\ mailbox'[i] = mailbox[i + 1]
      /\ \A i \in DOMAIN mailbox' : 0 \notin DOMAIN mailbox'
  BY TailOfMailbox DEF TypeOK
<1>2. \A i \in DOMAIN mailbox : mailbox[i] \in Messages
  BY MailboxRefs
<1>3. \A i \in DOMAIN mailbox' : mailbox'[i].ref # Head(mailbox).ref
  BY <1>1 DEF MailboxInv
<1>4. (\A i \in DOMAIN mailbox : MessageInv(mailbox[i]))'
  BY <1>1, <1>2, <1>3 DEF MessageInv
<1>5. \A i, j \in DOMAIN mailbox' : mailbox'[i].ref = mailbox'[j].ref => i = j
  BY <1>1 DEF MailboxInv
<1>6. QED
  BY <1>3, <1>4, <1>5 DEF MailboxInv

\* What is left of a mailbox keeps its part of the invariant.
LEMMA RemoveKeepsMailboxInv ==
  ASSUME TypeOK, MailboxInv, NEW k \in DOMAIN mailbox, mailbox' = RemoveAt(mailbox, k),
         \A x \in Messages, i \in DOMAIN mailbox : x = mailbox[i] => MessageInv(x)',
         serverPc \in {"locking", "callback", "nested"}, serving' = serving
  PROVE  MailboxInv'
<1>1. \A i \in DOMAIN mailbox' :
        \E j \in DOMAIN mailbox : /\ j # k /\ mailbox'[i] = mailbox[j]
                                  /\ j = IF i < k THEN i ELSE i + 1
  BY RemoveFromMailbox DEF TypeOK
<1>n. DOMAIN mailbox' \subseteq Nat /\ k \in Nat
  <2>1. mailbox \in Seq(Messages) /\ mailbox' = RemoveAt(mailbox, k)
    BY DEF TypeOK
  <2>2. DOMAIN mailbox' \subseteq Nat
    BY <2>1, RemoveFromMailbox
  <2>3. DOMAIN mailbox = 1..Len(mailbox)
    BY <2>1
  <2>4. QED
    BY <2>2, <2>3
<1>2. \A i \in DOMAIN mailbox : mailbox[i] \in Messages
  BY MailboxRefs
<1>3. (\A i \in DOMAIN mailbox : MessageInv(mailbox[i]))'
  BY <1>1, <1>2 DEF MessageInv
<1>4. ASSUME NEW i \in DOMAIN mailbox', NEW j \in DOMAIN mailbox',
             mailbox'[i].ref = mailbox'[j].ref
      PROVE  i = j
  <2>1. PICK a \in DOMAIN mailbox : /\ a # k /\ mailbox'[i] = mailbox[a]
                                    /\ a = IF i < k THEN i ELSE i + 1
    BY <1>1
  <2>2. PICK b \in DOMAIN mailbox : /\ b # k /\ mailbox'[j] = mailbox[b]
                                    /\ b = IF j < k THEN j ELSE j + 1
    BY <1>1
  <2>3. a = b
    BY <1>4, <2>1, <2>2 DEF MailboxInv
  <2>4. i \in Nat /\ j \in Nat /\ k \in Nat
    BY <1>n
  <2>5. QED
    BY <2>1, <2>2, <2>3, <2>4
<1>5. \A i \in DOMAIN mailbox' : mailbox'[i].ref # serving'
  BY <1>1 DEF MailboxInv
<1>6. QED
  BY <1>3, <1>4, <1>5 DEF MailboxInv

\* A client asks with a fresh reference.
LEMMA RequestKeeps ==
  ASSUME BaseInv, NEW c \in Clients, NEW r \in Refs, NEW k \in Requests, Request(c, r, k)
  PROVE  BaseInv' /\ (NestedInv => NestedInv')
<1> USE DEF BaseInv, TypeOK, Fresh, clientVars, serverVars, taskVars, storeVars, Request
<1>1. TypeOK'
  BY ClientType DEF ClientNext
<1>2. FreshInv' /\ ReplyInv'
  BY DEF FreshInv, ReplyInv
<1>3. MailboxInv'
  <2>1. Msg(k, r) \in Messages /\ Msg(k, r).kind = k /\ Msg(k, r).ref = r
    BY MsgType
  <2>2. MessageInv(Msg(k, r))'
    BY <2>1 DEF MessageInv, FreshInv
  <2>3. \A x \in Messages, i \in DOMAIN mailbox : x = mailbox[i] =>
          MessageInv(x)' /\ x.ref # r
    BY MailboxRefs DEF MailboxInv, MessageInv
  <2>4. serverPc \in {"locking", "callback", "nested"} => r # serving
    BY DEF ServingInv, FreshInv
  <2>5. QED
    BY <2>1, <2>2, <2>3, <2>4, AppendKeepsMailboxInv
<1>4. ServingInv' /\ (NestedInv => NestedInv')
  BY DEF ServingInv, NestedInv, Active
<1>5. OwnerInv' /\ CallerInv'
  BY DEF OwnerInv, CallerInv, CallersParked
<1>6. NoLostWakeup'
  BY DEF NoLostWakeup
<1>7. QED
  BY <1>1, <1>2, <1>3, <1>4, <1>5, <1>6

\* GenServer.call returns or exits in the client.
LEMMA EndCallKeeps ==
  ASSUME BaseInv, NEW c \in Clients,
         ReceiveReply(c) \/ TimeOut(c) \/ Down(c)
  PROVE  BaseInv' /\ (NestedInv => NestedInv')
<1> USE DEF BaseInv, TypeOK, Fresh, clientVars, serverVars, taskVars, storeVars, ReceiveReply, TimeOut, Down, EndCall
<1>1. TypeOK'
  BY ClientType DEF ClientNext
<1>2. FreshInv' /\ ReplyInv'
  BY DEF FreshInv, ReplyInv
<1>3. MailboxInv'
  BY MailboxRefs DEF MailboxInv, MessageInv
<1>4. ServingInv' /\ (NestedInv => NestedInv')
  BY DEF ServingInv, NestedInv, Active
<1>5. OwnerInv' /\ CallerInv'
  BY DEF OwnerInv, CallerInv, CallersParked
<1>6. NoLostWakeup'
  BY DEF NoLostWakeup
<1>7. QED
  BY <1>1, <1>2, <1>3, <1>4, <1>5, <1>6

\* The server spawns a task for a call that has none.
LEMMA HandleCallFunctionKeeps ==
  ASSUME BaseInv, HandleCallFunction
  PROVE  BaseInv' /\ (NestedInv => NestedInv')
<1> USE DEF BaseInv, TypeOK, Fresh, clientVars, serverVars, taskVars, storeVars, HandleCallFunction, Serve, HeadIs
<1>1. TypeOK'
  BY ServerType DEF ServerNext
<1>2. FreshInv'
  BY MailboxRefs DEF FreshInv, MailboxInv, MessageInv
<1>3. ReplyInv'
  BY MailboxRefs DEF ReplyInv, MailboxInv, MessageInv
<1>4. MailboxInv'
  <2>1. Head(mailbox) \in Messages /\ Head(mailbox).ref \in Refs
    <3>1. Head(mailbox) = mailbox[1] /\ 1 \in DOMAIN mailbox
      BY TailOfMailbox
    <3>2. QED
      BY <3>1, MailboxRefs
  <2>2. \A x \in Messages, i \in DOMAIN mailbox :
          x = mailbox[i] /\ x.ref # Head(mailbox).ref => MessageInv(x)'
    BY <2>1, MailboxRefs DEF MailboxInv, MessageInv
  <2>3. QED
    BY <2>2, TailKeepsMailboxInv
<1>5. ServingInv'
  BY MailboxRefs DEF ServingInv, MailboxInv, MessageInv
<1>6. NestedInv => NestedInv'
  BY MailboxRefs DEF NestedInv, Active, MailboxInv, MessageInv
<1>7. OwnerInv'
  BY MailboxRefs DEF OwnerInv, MailboxInv, MessageInv
<1>8. CallerInv'
  BY MailboxRefs DEF CallerInv, CallersParked, MailboxInv, MessageInv
<1>9. NoLostWakeup'
  BY MailboxRefs DEF NoLostWakeup, MailboxInv, MessageInv
<1>10. QED
  BY <1>1, <1>2, <1>3, <1>4, <1>5, <1>6, <1>7, <1>8, <1>9

\* The server answers from its state.
LEMMA HandleGetKeeps ==
  ASSUME BaseInv, HandleGet
  PROVE  BaseInv' /\ (NestedInv => NestedInv')
<1> USE DEF BaseInv, TypeOK, Fresh, clientVars, serverVars, taskVars, storeVars, HandleGet, Serve, HeadIs
<1>1. TypeOK'
  BY ServerType DEF ServerNext
<1>2. FreshInv'
  BY MailboxRefs DEF FreshInv, MailboxInv, MessageInv
<1>3. ReplyInv'
  BY MailboxRefs DEF ReplyInv, MailboxInv, MessageInv
<1>4. MailboxInv'
  <2>1. Head(mailbox) \in Messages /\ Head(mailbox).ref \in Refs
    <3>1. Head(mailbox) = mailbox[1] /\ 1 \in DOMAIN mailbox
      BY TailOfMailbox
    <3>2. QED
      BY <3>1, MailboxRefs
  <2>2. \A x \in Messages, i \in DOMAIN mailbox :
          x = mailbox[i] /\ x.ref # Head(mailbox).ref => MessageInv(x)'
    BY <2>1, MailboxRefs DEF MailboxInv, MessageInv
  <2>3. QED
    BY <2>2, TailKeepsMailboxInv
<1>5. ServingInv' /\ (NestedInv => NestedInv')
  BY DEF ServingInv, NestedInv, Active
<1>6. OwnerInv' /\ CallerInv'
  BY DEF OwnerInv, CallerInv, CallersParked
<1>7. NoLostWakeup'
  BY DEF NoLostWakeup
<1>8. QED
  BY <1>1, <1>2, <1>3, <1>4, <1>5, <1>6, <1>7

\* The server enters a NIF that locks the store.
LEMMA HandleMemoryKeeps ==
  ASSUME BaseInv, HandleMemory
  PROVE  BaseInv' /\ (NestedInv => NestedInv')
<1> USE DEF BaseInv, TypeOK, Fresh, clientVars, serverVars, taskVars, storeVars, HandleMemory, Serve, HeadIs
<1>1. TypeOK'
  BY ServerType DEF ServerNext
<1>2. FreshInv' /\ ReplyInv'
  BY DEF FreshInv, ReplyInv
<1>3. MailboxInv'
  <2>1. Head(mailbox) \in Messages /\ Head(mailbox).ref \in Refs
    <3>1. Head(mailbox) = mailbox[1] /\ 1 \in DOMAIN mailbox
      BY TailOfMailbox
    <3>2. QED
      BY <3>1, MailboxRefs
  <2>2. \A x \in Messages, i \in DOMAIN mailbox :
          x = mailbox[i] /\ x.ref # Head(mailbox).ref => MessageInv(x)'
    BY <2>1, MailboxRefs DEF MailboxInv, MessageInv
  <2>3. QED
    BY <2>2, TailKeepsMailboxInv
<1>4. NestedInv => NestedInv'
  BY DEF NestedInv, Active
<1>5. ServingInv'
  BY MailboxRefs DEF ServingInv, MailboxInv, MessageInv
<1>6. OwnerInv' /\ CallerInv'
  BY DEF OwnerInv, CallerInv, CallersParked
<1>7. NoLostWakeup'
  BY DEF NoLostWakeup
<1>8. QED
  BY <1>1, <1>2, <1>3, <1>4, <1>5, <1>6, <1>7

\* The NIF gets the mutex and the server answers.
LEMMA MemoryFromInstanceKeeps ==
  ASSUME BaseInv, MemoryFromInstance
  PROVE  BaseInv' /\ (NestedInv => NestedInv')
<1> USE DEF BaseInv, TypeOK, Fresh, clientVars, serverVars, taskVars, storeVars, MemoryFromInstance
<1>1. TypeOK'
  BY ServerType DEF ServerNext
<1>2. FreshInv'
  BY MailboxRefs DEF FreshInv, ServingInv
<1>3. ReplyInv'
  BY MailboxRefs DEF ReplyInv, ServingInv
<1>4. MailboxInv'
  BY MailboxRefs DEF MailboxInv, MessageInv, ServingInv
<1>5. ServingInv' /\ (NestedInv => NestedInv')
  BY DEF ServingInv, NestedInv, Active
<1>6. OwnerInv' /\ CallerInv'
  BY DEF OwnerInv, CallerInv, CallersParked
<1>7. NoLostWakeup'
  BY DEF NoLostWakeup
<1>8. QED
  BY <1>1, <1>2, <1>3, <1>4, <1>5, <1>6, <1>7

\* The server starts the callback of a parked call.
LEMMA HandleInvokeCallbackKeeps ==
  ASSUME BaseInv, HandleInvokeCallback
  PROVE  BaseInv' /\ (NestedInv => NestedInv')
<1> USE DEF BaseInv, TypeOK, Fresh, clientVars, serverVars, taskVars, storeVars, HandleInvokeCallback, Serve, HeadIs
<1>1. TypeOK'
  BY ServerType DEF ServerNext
<1>2. FreshInv' /\ ReplyInv'
  BY DEF FreshInv, ReplyInv
<1>3. MailboxInv'
  <2>1. Head(mailbox) \in Messages /\ Head(mailbox).ref \in Refs
    <3>1. Head(mailbox) = mailbox[1] /\ 1 \in DOMAIN mailbox
      BY TailOfMailbox
    <3>2. QED
      BY <3>1, MailboxRefs
  <2>2. \A x \in Messages, i \in DOMAIN mailbox :
          x = mailbox[i] /\ x.ref # Head(mailbox).ref => MessageInv(x)'
    BY <2>1, MailboxRefs DEF MailboxInv, MessageInv
  <2>3. QED
    BY <2>2, TailKeepsMailboxInv
<1>4. NestedInv => NestedInv'
  BY DEF NestedInv, Active
<1>5. ServingInv'
  BY MailboxRefs DEF ServingInv, MailboxInv, MessageInv
<1>6. OwnerInv' /\ CallerInv'
  BY DEF OwnerInv, CallerInv, CallersParked
<1>7. NoLostWakeup'
  BY DEF NoLostWakeup
<1>8. QED
  BY <1>1, <1>2, <1>3, <1>4, <1>5, <1>6, <1>7

\* A callback spawns a nested task: there is no other, and the outer call is parked.
LEMMA CallExportedFunctionKeeps ==
  ASSUME BaseInv, NEW r \in Refs, CallExportedFunction(r)
  PROVE  BaseInv' /\ (NestedInv => NestedInv')
<1> USE DEF BaseInv, TypeOK, Fresh, clientVars, serverVars, taskVars, storeVars, CallExportedFunction
<1>1. TypeOK'
  BY ServerType DEF ServerNext
<1>2. FreshInv'
  BY DEF FreshInv
<1>3. ReplyInv'
  BY MailboxRefs DEF ReplyInv, FreshInv
<1>4. MailboxInv'
  BY MailboxRefs DEF MailboxInv, MessageInv, FreshInv
<1>5. ServingInv'
  BY MailboxRefs DEF ServingInv, FreshInv
<1>6. NestedInv => NestedInv'
  BY MailboxRefs DEF NestedInv, Active, FreshInv, ServingInv
<1>7. OwnerInv'
  BY MailboxRefs DEF OwnerInv, FreshInv
<1>8. CallerInv'
  BY MailboxRefs DEF CallerInv, CallersParked, FreshInv
<1>9. NoLostWakeup'
  BY DEF NoLostWakeup
<1>10. QED
  BY <1>1, <1>2, <1>3, <1>4, <1>5, <1>6, <1>7, <1>8, <1>9

\* The callback receives the answer of a nested task that is done.
LEMMA ReceiveNestedKeeps ==
  ASSUME BaseInv, NEW k \in DOMAIN mailbox, ReceiveNested(k)
  PROVE  BaseInv' /\ (NestedInv => NestedInv')
<1> USE DEF BaseInv, TypeOK, Fresh, clientVars, serverVars, taskVars, storeVars, ReceiveNested, Msg
<1>1. TypeOK'
  BY ServerType DEF ServerNext
<1>2. FreshInv' /\ ReplyInv'
  BY DEF FreshInv, ReplyInv
<1>3. MailboxInv'
  <2>1. \A x \in Messages, i \in DOMAIN mailbox : x = mailbox[i] => MessageInv(x)'
    BY MailboxRefs DEF MailboxInv, MessageInv
  <2>2. QED
    BY <2>1, RemoveKeepsMailboxInv
<1>4. ServingInv'
  BY DEF ServingInv
<1>5. NestedInv => NestedInv'
  BY MailboxRefs DEF NestedInv, Active, MailboxInv, MessageInv
<1>6. OwnerInv' /\ CallerInv'
  BY DEF OwnerInv, CallerInv, CallersParked
<1>7. NoLostWakeup'
  BY DEF NoLostWakeup
<1>8. QED
  BY <1>1, <1>2, <1>3, <1>4, <1>5, <1>6, <1>7

\* A callback hands its result to the parked call, which nobody else waits for
\* when the callback waits for nothing.
LEMMA EndCallbackKeeps ==
  ASSUME BaseInv, NEW success \in {"ok", "error"}, serverPc \in {"callback", "nested"},
         ReceiveCallbackResult(success), TypeOK'
  PROVE  BaseInv' /\ (serverPc = "callback" /\ NestedInv => NestedInv')
<1> USE DEF BaseInv, TypeOK, Fresh, clientVars, serverVars, taskVars, storeVars, ReceiveCallbackResult
<1>1. TypeOK'
  OBVIOUS
<1>2. FreshInv' /\ ReplyInv'
  BY DEF FreshInv, ReplyInv
<1>3. MailboxInv'
  BY MailboxRefs DEF MailboxInv, MessageInv
<1>4. ServingInv' /\ (serverPc = "callback" /\ NestedInv => NestedInv')
  BY DEF ServingInv, NestedInv, Active
<1>5. OwnerInv' /\ CallerInv'
  BY DEF OwnerInv, CallerInv, CallersParked
<1>6. NoLostWakeup'
  BY DEF NoLostWakeup
<1>7. QED
  BY <1>1, <1>2, <1>3, <1>4, <1>5, <1>6

\* The server dies, and with it its mailbox.
LEMMA DieKeeps ==
  ASSUME BaseInv, HandleStray \/ CallbackCrash \/ Stop
  PROVE  BaseInv' /\ (NestedInv => NestedInv')
<1> USE DEF BaseInv, TypeOK, Fresh, clientVars, serverVars, taskVars, storeVars, HandleStray, CallbackCrash, Stop, Die
<1>1. TypeOK'
  BY ServerType DEF ServerNext
<1>2. FreshInv' /\ ReplyInv'
  BY DEF FreshInv, ReplyInv
<1>3. MailboxInv'
  BY MailboxRefs DEF MailboxInv, MessageInv
<1>4. ServingInv' /\ (NestedInv => NestedInv')
  BY DEF ServingInv, NestedInv, Active
<1>5. OwnerInv' /\ CallerInv'
  BY DEF OwnerInv, CallerInv, CallersParked
<1>6. NoLostWakeup'
  BY DEF NoLostWakeup
<1>7. QED
  BY <1>1, <1>2, <1>3, <1>4, <1>5, <1>6

\* A task gets a worker.
LEMMA StartKeeps ==
  ASSUME BaseInv, NEW t \in Refs, Start(t)
  PROVE  BaseInv' /\ (NestedInv => NestedInv')
<1> USE DEF BaseInv, TypeOK, Fresh, clientVars, serverVars, taskVars, storeVars, Start
<1>1. TypeOK'
  BY TaskType DEF TaskNext
<1>2. FreshInv' /\ ReplyInv'
  BY DEF FreshInv, ReplyInv
<1>3. MailboxInv'
  BY MailboxRefs DEF MailboxInv, MessageInv
<1>4. ServingInv' /\ (NestedInv => NestedInv')
  BY DEF ServingInv, NestedInv, Active
<1>5. OwnerInv' /\ CallerInv'
  BY DEF OwnerInv, CallerInv, CallersParked
<1>6. NoLostWakeup'
  BY DEF NoLostWakeup
<1>7. QED
  BY <1>1, <1>2, <1>3, <1>4, <1>5, <1>6

\* An outer call gets the mutex nobody holds, or panics on a poisoned one.
LEMMA LockStoreKeeps ==
  ASSUME BaseInv, NEW t \in Refs, LockStore(t)
  PROVE  BaseInv' /\ (NestedInv => NestedInv')
<1> USE DEF BaseInv, TypeOK, Fresh, clientVars, serverVars, taskVars, storeVars, LockStore
<1>1. TypeOK'
  BY TaskType DEF TaskNext
<1>2. FreshInv'
  BY DEF FreshInv
<1>3. ReplyInv'
  <2>1. \A r \in Refs : taskPc'[r] = taskPc[r] \/ (r = t /\ taskPc'[r] \in {"wasm", "panicked"})
    OBVIOUS
  <2>2. reply[t] = "none"
    BY DEF ReplyInv
  <2>3. \A r \in Refs : reply'[r] = reply[r] /\ outcome'[r] = outcome[r]
    OBVIOUS
  <2>4. result' = result
    OBVIOUS
  <2>5. QED
    BY <2>1, <2>2, <2>3, <2>4 DEF ReplyInv
<1>4. MailboxInv'
  BY MailboxRefs DEF MailboxInv, MessageInv
<1>5. ServingInv'
  BY DEF ServingInv
<1>6. NestedInv => NestedInv'
  <2> HAVE NestedInv
  <2>1. \A r \in Refs : taskPc'[r] = taskPc[r] \/ (r = t /\ taskPc[t] \notin Parked /\ taskPc'[r] \in {"wasm", "panicked"})
    OBVIOUS
  <2>2. via' = via /\ serverPc' = serverPc /\ awaiting' = awaiting /\ serving' = serving
    OBVIOUS
  <2>3. \A r \in Refs : r # t => token'[r] = token[r]
    OBVIOUS
  <2>4. taskPc[t] \in OnWorker /\ taskPc[t] \notin Parked
    OBVIOUS
  <2>5. \A s \in Refs : Active(s)' => Active(s)
    BY <2>1, <2>2, <2>4 DEF Active
  <2>6. \A s \in Refs : Active(s) =>
           via[s] \in Refs /\ via[s] # t /\ taskPc'[via[s]] = taskPc[via[s]]
    BY <2>1, <2>4 DEF NestedInv, Active
  <2>7. \A s \in Refs : Active(s)' =>
          /\ (taskPc[via[s]] \in Parked /\ token[via[s]] = "none" /\ via[via[s]] = None)'
          /\ \/ serverPc = "nested" /\ awaiting = s /\ serving = via[s]
             \/ serverPc = "dead"
    BY <2>2, <2>3, <2>5, <2>6 DEF NestedInv
  <2>8. \A a, b \in Refs : Active(a)' /\ Active(b)' => a = b
    BY <2>5 DEF NestedInv
  <2>9. \A r \in Refs : via'[r] # None => taskPc'[r] # "new"
    BY <2>1, <2>2 DEF NestedInv
  <2>10. QED
    BY <2>2, <2>7, <2>8, <2>9 DEF NestedInv
<1>7. OwnerInv' /\ CallerInv'
  BY DEF OwnerInv, CallerInv, CallersParked
<1>8. NoLostWakeup'
  BY DEF NoLostWakeup
<1>9. QED
  BY <1>1, <1>2, <1>3, <1>4, <1>5, <1>6, <1>7, <1>8

\* A nested call uses the caller of the call that waits for it.
LEMMA LockCallerKeeps ==
  ASSUME BaseInv, NEW t \in Refs, LockCaller(t)
  PROVE  BaseInv' /\ (NestedInv => NestedInv')
<1> USE DEF BaseInv, TypeOK, Fresh, clientVars, serverVars, taskVars, storeVars, LockCaller
<1>1. TypeOK'
  BY TaskType DEF TaskNext
<1>2. FreshInv' /\ ReplyInv'
  BY DEF FreshInv, ReplyInv
<1>3. MailboxInv'
  BY MailboxRefs DEF MailboxInv, MessageInv
<1>4. ServingInv' /\ (NestedInv => NestedInv')
  BY DEF ServingInv, NestedInv, Active
<1>5. OwnerInv' /\ CallerInv'
  BY DEF OwnerInv, CallerInv, CallersParked
<1>6. NoLostWakeup'
  BY DEF NoLostWakeup
<1>7. QED
  BY <1>1, <1>2, <1>3, <1>4, <1>5, <1>6

\* Wasm calls an import: the call parks, or panics when the server is gone.
LEMMA CallImportKeeps ==
  ASSUME BaseInv, NEW t \in Refs, CallImport(t)
  PROVE  BaseInv' /\ (NestedInv => NestedInv')
<1> USE DEF BaseInv, TypeOK, Fresh, clientVars, serverVars, taskVars, storeVars, CallImport, Release
<1>1. TypeOK'
  BY TaskType DEF TaskNext
<1>2. FreshInv'
  BY DEF FreshInv
<1>3. ReplyInv'
  <2>1. \A r \in Refs : taskPc'[r] = taskPc[r] \/ (r = t /\ taskPc'[r] \in {"checking", "panicked"})
    OBVIOUS
  <2>2. reply[t] = "none"
    BY DEF ReplyInv
  <2>3. \A r \in Refs : reply'[r] = reply[r] /\ outcome'[r] = outcome[r]
    OBVIOUS
  <2>4. result' = result
    OBVIOUS
  <2>5. QED
    BY <2>1, <2>2, <2>3, <2>4 DEF ReplyInv
<1>4. MailboxInv'
  <2>1. Msg("invoke_callback", t) \in Messages
    BY MsgType
  <2>2. Msg("invoke_callback", t).kind = "invoke_callback" /\ Msg("invoke_callback", t).ref = t
    BY MsgType
  <2>3. \A x \in Messages, i \in DOMAIN mailbox : x = mailbox[i] =>
          MessageInv(x)' /\ x.ref # t
    <3> SUFFICES ASSUME NEW x \in Messages, NEW i \in DOMAIN mailbox, x = mailbox[i]
                 PROVE  MessageInv(x)' /\ x.ref # t
      OBVIOUS
    <3>1. x.ref \in Refs /\ x.kind \in Kinds /\ MessageInv(x)
      BY MailboxRefs DEF MailboxInv
    <3>2. x.ref # t
      BY <3>1 DEF MessageInv
    <3>3. taskPc'[x.ref] = taskPc[x.ref] /\ token'[x.ref] = token[x.ref]
      BY <3>1, <3>2
    <3> QED BY <3>1, <3>2, <3>3 DEF MessageInv
  <2>4. CASE serverPc # "dead"
    <3>1. MessageInv(Msg("invoke_callback", t))'
      BY <2>2, <2>4 DEF MessageInv, FreshInv
    <3>2. serverPc \in {"locking", "callback", "nested"} => t # serving
      BY DEF ServingInv
    <3>3. QED
      BY <2>1, <2>2, <2>3, <2>4, <3>1, <3>2, AppendKeepsMailboxInv
  <2>5. CASE serverPc = "dead"
    <3>1. mailbox' = mailbox /\ serverPc' = "dead"
      BY <2>5
    <3>2. \A i \in DOMAIN mailbox : MessageInv(mailbox[i])'
      BY <2>3, <3>1, MailboxRefs
    <3>3. QED
      BY <3>1, <3>2 DEF MailboxInv
  <2>6. QED
    BY <2>4, <2>5
<1>5. ServingInv'
  BY DEF ServingInv
<1>6. NestedInv => NestedInv'
  <2> HAVE NestedInv
  <2>1. \A r \in Refs : taskPc'[r] = taskPc[r] \/ (r = t /\ taskPc[t] \notin Parked /\ taskPc'[r] \in {"checking", "panicked"})
    OBVIOUS
  <2>2. via' = via /\ serverPc' = serverPc /\ awaiting' = awaiting /\ serving' = serving
    OBVIOUS
  <2>3. \A r \in Refs : r # t => token'[r] = token[r]
    OBVIOUS
  <2>4. taskPc[t] \in OnWorker /\ taskPc[t] \notin Parked
    OBVIOUS
  <2>5. \A s \in Refs : Active(s)' => Active(s)
    BY <2>1, <2>2, <2>4 DEF Active
  <2>6. \A s \in Refs : Active(s) =>
           via[s] \in Refs /\ via[s] # t /\ taskPc'[via[s]] = taskPc[via[s]]
    BY <2>1, <2>4 DEF NestedInv, Active
  <2>7. \A s \in Refs : Active(s)' =>
          /\ (taskPc[via[s]] \in Parked /\ token[via[s]] = "none" /\ via[via[s]] = None)'
          /\ \/ serverPc = "nested" /\ awaiting = s /\ serving = via[s]
             \/ serverPc = "dead"
    BY <2>2, <2>3, <2>5, <2>6 DEF NestedInv
  <2>8. \A a, b \in Refs : Active(a)' /\ Active(b)' => a = b
    BY <2>5 DEF NestedInv
  <2>9. \A r \in Refs : via'[r] # None => taskPc'[r] # "new"
    BY <2>1, <2>2 DEF NestedInv
  <2>10. QED
    BY <2>2, <2>7, <2>8, <2>9 DEF NestedInv
<1>7. CallerInv'
  BY DEF CallerInv, CallersParked
<1>8. OwnerInv'
  <2>1. /\ taskPc[t] = "wasm" /\ via' = via
        /\ \A r \in Refs : r # t => taskPc'[r] = taskPc[r]
    OBVIOUS
  <2>2. CASE serverPc = "dead"
    <3>1. taskPc'[t] = "panicked" /\ owner' = IF owner = t THEN None ELSE owner
      BY <2>2
    <3> QED BY <2>1, <3>1 DEF OwnerInv
  <2>3. CASE serverPc # "dead"
    <3>1. taskPc'[t] = "checking" /\ owner' = owner
      BY <2>3
    <3> QED BY <2>1, <3>1 DEF OwnerInv
  <2> QED BY <2>2, <2>3
<1>9. NoLostWakeup'
  BY DEF NoLostWakeup
<1>10. QED
  BY <1>1, <1>2, <1>3, <1>4, <1>5, <1>6, <1>7, <1>8, <1>9

\* The wrapper goes to sleep with no result to pick up.
LEMMA WaitKeeps ==
  ASSUME BaseInv, NEW t \in Refs, Wait(t)
  PROVE  BaseInv' /\ (NestedInv => NestedInv')
<1> USE DEF BaseInv, TypeOK, Fresh, clientVars, serverVars, taskVars, storeVars, Wait
<1>1. TypeOK'
  BY TaskType DEF TaskNext
<1>2. FreshInv' /\ ReplyInv'
  BY DEF FreshInv, ReplyInv
<1>3. MailboxInv'
  BY MailboxRefs DEF MailboxInv, MessageInv
<1>4. ServingInv' /\ (NestedInv => NestedInv')
  BY DEF ServingInv, NestedInv, Active
<1>5. OwnerInv' /\ CallerInv'
  BY DEF OwnerInv, CallerInv, CallersParked
<1>6. NoLostWakeup'
  BY DEF NoLostWakeup
<1>7. QED
  BY <1>1, <1>2, <1>3, <1>4, <1>5, <1>6

\* The wrapper picks up a result: no nested call uses its caller any more.
LEMMA ResumeWasmKeeps ==
  ASSUME BaseInv, NEW t \in Refs, ResumeWasm(t)
  PROVE  BaseInv' /\ (NestedInv => NestedInv')
<1> USE DEF BaseInv, TypeOK, Fresh, clientVars, serverVars, taskVars, storeVars, ResumeWasm
<1>1. TypeOK'
  BY TaskType DEF TaskNext
<1>2. FreshInv' /\ ReplyInv'
  BY DEF FreshInv, ReplyInv
<1>3. MailboxInv'
  BY MailboxRefs DEF MailboxInv, MessageInv
<1>4. ServingInv' /\ (NestedInv => NestedInv')
  BY DEF ServingInv, NestedInv, Active
<1>5. OwnerInv' /\ CallerInv'
  BY DEF OwnerInv, CallerInv, CallersParked
<1>6. NoLostWakeup'
  BY DEF NoLostWakeup
<1>7. QED
  BY <1>1, <1>2, <1>3, <1>4, <1>5, <1>6

\* The wrapper picks up the failure of its callback.
LEMMA TrapInImportKeeps ==
  ASSUME BaseInv, NEW t \in Refs, TrapInImport(t)
  PROVE  BaseInv' /\ (NestedInv => NestedInv')
<1> USE DEF BaseInv, TypeOK, Fresh, clientVars, serverVars, taskVars, storeVars, TrapInImport, Leave, Release
<1>1. TypeOK'
  BY TaskType DEF TaskNext
<1>2. FreshInv' /\ ReplyInv'
  BY DEF FreshInv, ReplyInv
<1>3. MailboxInv'
  BY MailboxRefs DEF MailboxInv, MessageInv
<1>4. ServingInv' /\ (NestedInv => NestedInv')
  BY DEF ServingInv, NestedInv, Active
<1>5. OwnerInv' /\ CallerInv'
  BY DEF OwnerInv, CallerInv, CallersParked
<1>6. NoLostWakeup'
  BY DEF NoLostWakeup
<1>7. QED
  BY <1>1, <1>2, <1>3, <1>4, <1>5, <1>6

\* A Wasm function ends.
LEMMA FinishCallKeeps ==
  ASSUME BaseInv, NEW t \in Refs, NEW res \in {"ok", "error"}, FinishCall(t, res)
  PROVE  BaseInv' /\ (NestedInv => NestedInv')
<1> USE DEF BaseInv, TypeOK, Fresh, clientVars, serverVars, taskVars, storeVars, FinishCall, Leave, Release
<1>1. TypeOK'
  BY TaskType DEF TaskNext
<1>2. FreshInv' /\ ReplyInv'
  BY DEF FreshInv, ReplyInv
<1>3. MailboxInv'
  BY MailboxRefs DEF MailboxInv, MessageInv
<1>4. ServingInv' /\ (NestedInv => NestedInv')
  BY DEF ServingInv, NestedInv, Active
<1>5. OwnerInv' /\ CallerInv'
  BY DEF OwnerInv, CallerInv, CallersParked
<1>6. NoLostWakeup'
  BY DEF NoLostWakeup
<1>7. QED
  BY <1>1, <1>2, <1>3, <1>4, <1>5, <1>6

\* A refused call was never in the store.
LEMMA RefuseParamsKeeps ==
  ASSUME BaseInv, NEW t \in Refs, RefuseParams(t)
  PROVE  BaseInv' /\ (NestedInv => NestedInv')
<1> USE DEF BaseInv, TypeOK, Fresh, clientVars, serverVars, taskVars, storeVars, RefuseParams, Goto
<1>1. TypeOK'
  BY TaskType DEF TaskNext
<1>2. FreshInv' /\ ReplyInv'
  BY DEF FreshInv, ReplyInv
<1>3. MailboxInv'
  BY MailboxRefs DEF MailboxInv, MessageInv
<1>4. ServingInv' /\ (NestedInv => NestedInv')
  BY DEF ServingInv, NestedInv, Active
<1>5. OwnerInv' /\ CallerInv'
  BY DEF OwnerInv, CallerInv, CallersParked
<1>6. NoLostWakeup'
  BY DEF NoLostWakeup
<1>7. QED
  BY <1>1, <1>2, <1>3, <1>4, <1>5, <1>6

\* A poisoned mutex is not part of the invariant: it only decides how calls end.
LEMMA PanicKeeps == BaseInv /\ PanicInNif => BaseInv' /\ (NestedInv => NestedInv')
<1> SUFFICES ASSUME BaseInv, PanicInNif PROVE BaseInv' /\ (NestedInv => NestedInv')
  OBVIOUS
<1> USE DEF PanicInNif, clientVars, serverVars, taskVars
<1>1. TypeOK' /\ FreshInv' /\ ReplyInv'
  BY PanicType DEF BaseInv, FreshInv, Fresh, ReplyInv
<1>2. MailboxInv' /\ ServingInv'
  BY DEF BaseInv, MailboxInv, MessageInv, Fresh, ServingInv
<1>3. OwnerInv' /\ (NestedInv => NestedInv')
  BY DEF BaseInv, NestedInv, Active, OwnerInv
<1>4. CallerInv' /\ NoLostWakeup'
  BY DEF BaseInv, CallerInv, CallersParked, NoLostWakeup
<1>5. QED
  BY <1>1, <1>2, <1>3, <1>4 DEF BaseInv

\* A task answers and is done.
LEMMA SendReplyKeeps ==
  ASSUME BaseInv, NEW t \in Refs, SendReply(t)
  PROVE  BaseInv' /\ (NestedInv => NestedInv')
<1> USE DEF BaseInv, TypeOK, Fresh, clientVars, serverVars, taskVars, storeVars, SendReply
<1>1. TypeOK'
  BY TaskType DEF TaskNext
<1>2. FreshInv'
  BY DEF FreshInv
<1>3. ReplyInv'
  <2>1. \A r \in Refs : reply'[r] = IF r = t THEN result[t] ELSE reply[r]
    OBVIOUS
  <2>2. \A r \in Refs : taskPc'[r] = IF r = t THEN "done" ELSE taskPc[r]
    OBVIOUS
  <2>3. reply[t] = "none"
    BY DEF ReplyInv
  <2>4. \A r \in Refs : outcome'[r] \in {"ok", "error"} => r # t /\ reply[r] # "none"
    BY <2>3 DEF ReplyInv
  <2>5. QED
    BY <2>1, <2>2, <2>4 DEF ReplyInv
<1>4. MailboxInv'
  <2>1. Msg("reply", t) \in Messages /\ Msg("reply", t).kind = "reply" /\ Msg("reply", t).ref = t
    BY MsgType
  <2>2. MessageInv(Msg("reply", t))'
    BY <2>1 DEF MessageInv, FreshInv
  <2>3. \A x \in Messages, i \in DOMAIN mailbox : x = mailbox[i] =>
          MessageInv(x)' /\ x.ref # t
    BY MailboxRefs DEF MailboxInv, MessageInv
  <2>4. serverPc \in {"locking", "callback", "nested"} => t # serving
    BY DEF ServingInv
  <2>5. CASE mailbox' = mailbox
    <3>1. \A i \in DOMAIN mailbox : MessageInv(mailbox[i])'
      BY <2>3, <2>5, MailboxRefs
    <3>2. QED
      BY <2>5, <3>1 DEF MailboxInv
  <2>6. CASE mailbox' = Append(mailbox, Msg("reply", t))
    <3>1. serverPc' = serverPc /\ serving' = serving
      OBVIOUS
    <3> HIDE DEF SendReply, BaseInv
    <3>2. QED
      BY <2>1, <2>2, <2>3, <2>4, <2>6, <3>1, AppendKeepsMailboxInv DEF BaseInv
  <2>7. QED
    BY <2>5, <2>6
<1>5. ServingInv' /\ (NestedInv => NestedInv')
  BY DEF ServingInv, NestedInv, Active
<1>6. OwnerInv' /\ CallerInv'
  BY DEF OwnerInv, CallerInv, CallersParked
<1>7. NoLostWakeup'
  BY DEF NoLostWakeup
<1>8. QED
  BY <1>1, <1>2, <1>3, <1>4, <1>5, <1>6, <1>7

-----------------------------------------------------------------------------
(* Theorems.                                                                *)

\* The server starts with nothing to do and no call is under way.
LEMMA InitInv == Init => BaseInv /\ NestedInv
<1> SUFFICES ASSUME Init PROVE BaseInv /\ NestedInv
  OBVIOUS
<1> USE CallsAssumption DEF Init
<1>1. TypeOK
  BY InitType
<1>2. FreshInv /\ ReplyInv
  BY DEF FreshInv, Fresh, ReplyInv
<1>3. MailboxInv
  BY DEF MailboxInv
<1>4. ServingInv /\ NestedInv
  BY DEF ServingInv, NestedInv, Active, OnWorker, Parked
<1>5. OwnerInv /\ CallerInv
  BY DEF OwnerInv, CallerInv, CallersParked, Parked
<1>6. NoLostWakeup
  BY DEF NoLostWakeup
<1>7. QED
  BY <1>1, <1>2, <1>3, <1>4, <1>5, <1>6 DEF BaseInv

\* A step of the server keeps the invariant.  The only step that does not keep
\* NestedInv is that of a callback which raises while its nested call runs.
LEMMA ServerKeeps ==
  ASSUME BaseInv, ServerNext
  PROVE  BaseInv' /\ ("give_up" \notin Callbacks /\ NestedInv => NestedInv')
<1>1. TypeOK'
  BY ServerType DEF BaseInv
<1>2. CASE CallbackReturn \/ CallbackRaise
  <2>1. /\ serverPc \in {"callback", "nested"}
        /\ "give_up" \notin Callbacks => serverPc = "callback"
    BY <1>2 DEF CallbackReturn, CallbackRaise
  <2>2. PICK success \in {"ok", "error"} : ReceiveCallbackResult(success)
    BY <1>2 DEF CallbackReturn, CallbackRaise
  <2>3. QED
    BY <1>1, <2>1, <2>2, EndCallbackKeeps
<1>3. CASE CallbackCrash \/ HandleStray
  BY <1>3, DieKeeps
<1>4. CASE HandleCallFunction \/ HandleGet \/ HandleMemory
           \/ MemoryFromInstance \/ HandleInvokeCallback
  BY <1>4, HandleCallFunctionKeeps, HandleGetKeeps, HandleMemoryKeeps,
     MemoryFromInstanceKeeps, HandleInvokeCallbackKeeps
<1>5. CASE \E r \in Refs : CallExportedFunction(r)
  BY <1>5, CallExportedFunctionKeeps
<1>6. CASE \E i \in DOMAIN mailbox : ReceiveNested(i)
  BY <1>6, ReceiveNestedKeeps
<1>7. QED
  BY <1>2, <1>3, <1>4, <1>5, <1>6 DEF ServerNext

\* A step of a task keeps the invariant.
LEMMA TaskKeeps ==
  ASSUME BaseInv, NEW t \in Refs, TaskNext(t)
  PROVE  BaseInv' /\ (NestedInv => NestedInv')
<1>1. CASE Start(t) \/ RefuseParams(t) \/ LockStore(t) \/ LockCaller(t)
  BY <1>1, StartKeeps, RefuseParamsKeeps, LockStoreKeeps, LockCallerKeeps
<1>2. CASE CallImport(t) \/ Wait(t) \/ ResumeWasm(t) \/ TrapInImport(t)
  BY <1>2, CallImportKeeps, WaitKeeps, ResumeWasmKeeps, TrapInImportKeeps
<1>3. CASE \E res \in {"ok", "error"} : FinishCall(t, res)
  BY <1>3, FinishCallKeeps
<1>4. CASE SendReply(t)
  BY <1>4, SendReplyKeeps
<1>5. QED
  BY <1>1, <1>2, <1>3, <1>4 DEF TaskNext

\* The invariant mentions the variables only.
LEMMA StutterKeeps == BaseInv /\ UNCHANGED vars => BaseInv' /\ (NestedInv => NestedInv')
<1> SUFFICES ASSUME BaseInv, UNCHANGED vars PROVE BaseInv' /\ (NestedInv => NestedInv')
  OBVIOUS
<1> USE DEF vars
<1>1. TypeOK' /\ FreshInv' /\ ReplyInv'
  BY DEF BaseInv, TypeOK, FreshInv, Fresh, ReplyInv
<1>2. MailboxInv' /\ ServingInv'
  BY DEF BaseInv, MailboxInv, MessageInv, Fresh, ServingInv
<1>3. OwnerInv' /\ (NestedInv => NestedInv')
  BY DEF BaseInv, NestedInv, Active, OwnerInv
<1>4. CallerInv' /\ NoLostWakeup'
  BY DEF BaseInv, CallerInv, CallersParked, NoLostWakeup
<1>5. QED
  BY <1>1, <1>2, <1>3, <1>4 DEF BaseInv

\* Every step of the system keeps the invariant.
LEMMA NextKeeps ==
  ASSUME BaseInv, [Next]_vars
  PROVE  BaseInv' /\ ("give_up" \notin Callbacks /\ NestedInv => NestedInv')
<1>1. CASE \E c \in Clients : ClientNext(c)
  <2>1. PICK c \in Clients : ClientNext(c)
    BY <1>1
  <2>2. CASE \E r \in Refs, k \in Requests : Request(c, r, k)
    BY <2>2, RequestKeeps
  <2>3. CASE ReceiveReply(c) \/ TimeOut(c) \/ Down(c)
    BY <2>3, EndCallKeeps
  <2>4. QED
    BY <2>1, <2>2, <2>3 DEF ClientNext
<1>2. CASE ServerNext
  BY <1>2, ServerKeeps
<1>3. CASE Stop \/ PanicInNif
  BY <1>3, DieKeeps, PanicKeeps
<1>4. CASE \E t \in Refs : TaskNext(t)
  BY <1>4, TaskKeeps
<1>5. CASE UNCHANGED vars
  BY <1>5, StutterKeeps
<1>6. QED
  BY <1>1, <1>2, <1>3, <1>4, <1>5 DEF Next

\* What needs no hypothesis on the callbacks holds in every behaviour.
LEMMA BaseInvariant == Spec => []BaseInv
<1>1. Init => BaseInv
  BY InitInv
<1>2. BaseInv /\ [Next]_vars => BaseInv'
  BY NextKeeps
<1>3. QED
  BY <1>1, <1>2, PTL DEF Spec

\* The inductive invariant holds in every behaviour, whatever the number of
\* clients, calls, workers and imports, when callbacks wait for their nested
\* calls.
THEOREM InductiveInvariant ==
  ASSUME "give_up" \notin Callbacks
  PROVE  Spec => []IInv
<1>1. Init => IInv
  BY InitInv DEF IInv
<1>2. IInv /\ [Next]_vars => IInv'
  BY NextKeeps DEF IInv
<1>3. QED
  BY <1>1, <1>2, PTL DEF Spec

\* At most one task runs Wasm in the store, nested calls included: two outer
\* calls would both own the mutex, two nested ones would both be awaited by the
\* server, and the outer call of a nested one is parked.
THEOREM OneRunner ==
  ASSUME "give_up" \notin Callbacks
  PROVE  Spec => []SingleRunner
<1>1. ASSUME IInv, NEW s \in Refs, NEW t \in Refs,
             taskPc[s] = "wasm", taskPc[t] = "wasm"
      PROVE  s = t
  <2> USE DEF IInv, BaseInv, TypeOK, OnWorker, Parked
  <2>1. CASE via[s] = None /\ via[t] = None
    BY <1>1, <2>1 DEF OwnerInv
  <2>2. CASE via[s] # None /\ via[t] # None
    BY <1>1, <2>2 DEF NestedInv, Active
  <2>3. ASSUME NEW n \in {s, t}, NEW o \in {s, t}, via[n] # None, via[o] = None
        PROVE  FALSE
    <3>1. Active(n) /\ taskPc[o] = "wasm"
      BY <1>1, <2>3 DEF Active
    <3>2. via[n] \in Refs /\ taskPc[via[n]] \in Parked /\ via[via[n]] = None
      BY <1>1, <2>3, <3>1 DEF NestedInv
    <3>3. owner = via[n] /\ owner = o
      BY <1>1, <2>3, <3>1, <3>2 DEF OwnerInv
    <3>4. QED
      BY <3>1, <3>2, <3>3
  <2>4. QED
    BY <2>1, <2>2, <2>3
<1>2. IInv => SingleRunner
  BY <1>1 DEF SingleRunner
<1>3. QED
  BY <1>2, InductiveInvariant, PTL

\* While a callback runs, the call it runs for is parked and its caller valid.
THEOREM CallbacksServeParkedCalls == Spec => []CallbackServesParked
<1>1. BaseInv => CallbackServesParked
  BY DEF BaseInv, TypeOK, ServingInv, CallerInv, CallbackServesParked
<1>2. QED
  BY <1>1, BaseInvariant, PTL

\* An answered call holds neither the store nor an entry of CALLER_MAP, and no
\* nested call of it is alive.
THEOREM AnsweredCallsAreGone ==
  ASSUME "give_up" \notin Callbacks
  PROVE  Spec => []AnsweredCallIsGone
<1>1. ASSUME IInv, NEW r \in Refs, outcome[r] \in {"ok", "error"}
      PROVE  /\ owner # r /\ r \notin callers
             /\ \A n \in Refs : via[n] = r => taskPc[n] \in {"done", "panicked"}
  <2> USE DEF IInv, BaseInv, TypeOK, OnWorker, Parked
  <2>1. taskPc[r] \in {"new", "done"}
    BY <1>1 DEF ReplyInv
  <2>2. owner # r
    BY <1>1, <2>1 DEF OwnerInv
  <2>3. r \notin callers
    BY <1>1, <2>1 DEF CallerInv, CallersParked
  <2>4. ASSUME NEW n \in Refs, via[n] = r
        PROVE  taskPc[n] \in {"done", "panicked"}
    <3>1. r # None
      BY CallsAssumption
    <3>2. ~Active(n) /\ taskPc[n] # "new"
      BY <1>1, <2>1, <2>4, <3>1 DEF NestedInv
    <3>3. taskPc[n] \in TaskPcs
      BY <1>1
    <3>4. QED
      BY <2>4, <3>1, <3>2, <3>3 DEF Active, TaskPcs
  <2>5. QED
    BY <2>2, <2>3, <2>4
<1>2. IInv => AnsweredCallIsGone
  BY <1>1 DEF AnsweredCallIsGone
<1>3. QED
  BY <1>2, InductiveInvariant, PTL

\* No worker sleeps on a result that is there: the result is stored and the
\* condvar notified under the mutex the wrapper tests it with
\* (environment.rs:225-228, instance.rs:492-496).
THEOREM WakeUpsArrive == Spec => []NoLostWakeup
<1>1. BaseInv => NoLostWakeup
  BY DEF BaseInv, CallerInv
<1> QED
  BY <1>1, BaseInvariant, PTL

\* CALLER_MAP has the callers of parked calls and of no others, unless the
\* server died under one (environment.rs:222, caller.rs:41).
THEOREM CallersAreParked == Spec => []CallersParked
<1>1. BaseInv => CallersParked
  BY DEF BaseInv, CallerInv
<1> QED
  BY <1>1, BaseInvariant, PTL

-----------------------------------------------------------------------------
(* Hangs: the four there are, that they are for ever, and how to avoid them. *)

\* What keeps a wrapper waiting: only the end of its own callback answers it.
LEMMA UnansweredStays ==
  ASSUME BaseInv, [Next]_vars, "give_up" \notin Callbacks, serverPc # "callback",
         NEW t \in Refs, Unanswered(t)
  PROVE  Unanswered(t)'
<1> USE DEF BaseInv, TypeOK, Unanswered, Goto
<1>1. CASE \E c \in Clients : ClientNext(c)
  BY <1>1 DEF ClientNext, Request, ReceiveReply, TimeOut, Down, EndCall, taskVars
<1>2. CASE ServerNext \/ Stop \/ PanicInNif
  <2>1. CASE \E r \in Refs : CallExportedFunction(r)
    BY <2>1 DEF CallExportedFunction
  <2>2. CASE \E i \in DOMAIN mailbox : ReceiveNested(i)
    BY <2>2 DEF ReceiveNested, taskVars
  <2>3. CASE CallbackReturn \/ CallbackRaise \/ CallbackCrash
    BY <2>3 DEF CallbackReturn, CallbackRaise, CallbackCrash
  <2>4. CASE HandleStray \/ Stop \/ PanicInNif \/ HandleGet \/ HandleMemory
             \/ MemoryFromInstance \/ HandleInvokeCallback
    BY <2>4 DEF HandleStray, Stop, PanicInNif, HandleGet, HandleMemory,
                MemoryFromInstance, HandleInvokeCallback, taskVars
  <2>5. CASE HandleCallFunction
    <3>1. taskPc[Head(mailbox).ref] = "new"
      BY <2>5, TailOfMailbox DEF HandleCallFunction, Serve, HeadIs, MailboxInv, MessageInv
    <3>2. QED
      BY <2>5, <3>1 DEF HandleCallFunction
  <2>6. QED
    BY <1>2, <2>1, <2>2, <2>3, <2>4, <2>5 DEF ServerNext
<1>3. ASSUME NEW s \in Refs, TaskNext(s)
      PROVE  Unanswered(t)'
  BY <1>3 DEF TaskNext, Start, RefuseParams, LockStore, LockCaller, CallImport, Wait,
              ResumeWasm, TrapInImport, FinishCall, Leave, SendReply
<1>4. CASE UNCHANGED vars
  BY <1>4 DEF vars
<1>5. QED
  BY <1>1, <1>2, <1>3, <1>4 DEF Next

\* The call that holds the mutex keeps it while it waits for its callback.
LEMMA OwnerStays ==
  ASSUME BaseInv, [Next]_vars, owner # None, Unanswered(owner)
  PROVE  owner' = owner
<1> USE DEF BaseInv, TypeOK, Unanswered
<1>1. CASE \E c \in Clients : ClientNext(c)
  BY <1>1 DEF ClientNext, Request, ReceiveReply, TimeOut, Down, EndCall, storeVars
<1>2. CASE ServerNext \/ Stop \/ PanicInNif
  BY <1>2 DEF ServerNext, CallExportedFunction, ReceiveNested, CallbackReturn, CallbackRaise,
              ReceiveCallbackResult, CallbackCrash, HandleStray, Stop, PanicInNif, HandleGet,
              HandleMemory, MemoryFromInstance, HandleInvokeCallback, HandleCallFunction,
              storeVars
<1>3. ASSUME NEW s \in Refs, TaskNext(s)
      PROVE  owner' = owner
  BY <1>3 DEF TaskNext, Start, RefuseParams, LockStore, LockCaller, CallImport, Wait,
              ResumeWasm, TrapInImport, FinishCall, Leave, SendReply, Release, storeVars
<1>4. CASE UNCHANGED vars
  BY <1>4 DEF vars
<1>5. QED
  BY <1>1, <1>2, <1>3, <1>4 DEF Next

\* A server that waits for a mutex, or for a nested call, or that is dead, goes
\* on only if it gets what it waits for; a nested one may die.
LEMMA ServerStays ==
  ASSUME BaseInv, [Next]_vars, "give_up" \notin Callbacks
  PROVE  /\ serverPc = "locking" /\ owner # None => serverPc' = "locking"
         /\ serverPc = "dead" => serverPc' = "dead"
         /\ serverPc = "nested" /\ taskPc[awaiting] # "done" =>
              \/ serverPc' = "dead"
              \/ serverPc' = "nested" /\ awaiting' = awaiting
<1> USE DEF BaseInv, TypeOK
<1>1. CASE \E c \in Clients : ClientNext(c)
  BY <1>1 DEF ClientNext, Request, ReceiveReply, TimeOut, Down, EndCall, serverVars
<1>2. ASSUME NEW i \in DOMAIN mailbox, ReceiveNested(i)
      PROVE  serverPc = "nested" /\ taskPc[awaiting] = "done"
  <2>1. mailbox[i].kind = "reply" /\ mailbox[i].ref = awaiting
    BY <1>2 DEF ReceiveNested, Msg
  <2>2. MessageInv(mailbox[i])
    BY DEF MailboxInv
  <2>3. QED
    BY <1>2, <2>1, <2>2 DEF ReceiveNested, MessageInv
<1>3. CASE ServerNext \/ Stop \/ PanicInNif
  BY <1>2, <1>3 DEF ServerNext, CallExportedFunction, CallbackReturn, CallbackRaise,
              ReceiveCallbackResult, CallbackCrash, HandleStray, Stop, Die, PanicInNif,
              HandleGet, HandleMemory, MemoryFromInstance, HandleInvokeCallback,
              HandleCallFunction, Serve, serverVars
<1>4. ASSUME NEW s \in Refs, TaskNext(s)
      PROVE  serverPc' = serverPc /\ awaiting' = awaiting
  BY <1>4 DEF TaskNext, Start, RefuseParams, LockStore, LockCaller, CallImport, Wait,
              ResumeWasm, TrapInImport, FinishCall, SendReply, serverVars
<1>5. CASE UNCHANGED vars
  BY <1>5 DEF vars
<1>6. QED
  BY <1>1, <1>3, <1>4, <1>5 DEF Next

\* A full pool starts nothing, and a task that waits for the mutex of a store
\* in use goes on waiting.
LEMMA PoolStays ==
  ASSUME BaseInv, [Next]_vars, "give_up" \notin Callbacks, serverPc = "nested",
         ~(Cardinality(Busy) < Workers), NEW t \in Refs
  PROVE  /\ t \notin Busy => taskPc'[t] \notin OnWorker
         /\ taskPc[t] = "queued" => taskPc'[t] = "queued"
         /\ taskPc[t] = "locking" /\ via[t] = None /\ owner # None =>
              taskPc'[t] = "locking" /\ via'[t] = None
<1> USE DEF BaseInv, TypeOK, Goto
<1>1. t \notin Busy => taskPc[t] \in {"new", "queued", "done", "panicked"}
  BY DEF Busy
<1>2. CASE \E c \in Clients : ClientNext(c)
  BY <1>1, <1>2 DEF ClientNext, Request, ReceiveReply, TimeOut, Down, EndCall, taskVars
<1>3. CASE ServerNext \/ Stop \/ PanicInNif
  BY <1>1, <1>3 DEF ServerNext, CallExportedFunction, ReceiveNested, CallbackReturn,
              CallbackRaise, CallbackCrash, HandleStray, Stop, PanicInNif, HandleGet,
              HandleMemory, MemoryFromInstance, HandleInvokeCallback, HandleCallFunction,
              Serve, taskVars
<1>4. ASSUME NEW s \in Refs, TaskNext(s)
      PROVE  /\ t \notin Busy => taskPc'[t] \notin OnWorker
             /\ taskPc[t] = "queued" => taskPc'[t] = "queued"
             /\ taskPc[t] = "locking" /\ via[t] = None /\ owner # None =>
                  taskPc'[t] = "locking" /\ via'[t] = None
  BY <1>1, <1>4 DEF TaskNext, Start, RefuseParams, LockStore, LockCaller, CallImport, Wait,
              ResumeWasm, TrapInImport, FinishCall, Leave, SendReply
<1>5. CASE UNCHANGED vars
  BY <1>1, <1>5 DEF vars
<1>6. QED
  BY <1>2, <1>3, <1>4, <1>5 DEF Next

\* A pool that is full of calls waiting for one callback stays full, unless the
\* server dies, and then they wait for a dead server.
LEMMA StuckPoolStays ==
  ASSUME BaseInv, [Next]_vars, "give_up" \notin Callbacks, StuckInPool
  PROVE  (StuckInPool \/ StuckOnDead)'
<1> USE DEF StuckInPool, HoldsWorker
<1>1. serverPc # "callback"
  OBVIOUS
<1>2. ASSUME NEW t \in Refs, HoldsWorker(t)
      PROVE  HoldsWorker(t)'
  <2>1. CASE Unanswered(t)
    BY <1>1, <2>1, UnansweredStays
  <2>2. CASE taskPc[t] = "locking" /\ via[t] = None /\ owner # None /\ Unanswered(owner)
    <3>1. owner' = owner
      BY <2>2, OwnerStays
    <3>2. owner \in Refs
      BY <2>2 DEF BaseInv, TypeOK
    <3>3. Unanswered(owner)'
      BY <1>1, <2>2, <3>1, <3>2, UnansweredStays DEF Unanswered
    <3>4. taskPc'[t] = "locking" /\ via'[t] = None
      BY <2>2, PoolStays
    <3>5. QED
      BY <2>2, <3>1, <3>3, <3>4
  <2>3. QED
    BY <1>2, <2>1, <2>2
<1>3. Busy' = Busy
  <2>1. ASSUME NEW t \in Busy PROVE t \in Busy'
    BY <1>2 DEF Busy, Unanswered
  <2>2. ASSUME NEW t \in Refs, t \notin Busy PROVE t \notin Busy'
    BY <2>2, PoolStays DEF Busy
  <2>3. QED
    BY <2>1, <2>2 DEF Busy
<1>4. \A t \in Busy' : HoldsWorker(t)'
  BY <1>2, <1>3 DEF Busy
<1>5. PICK t \in Busy : TRUE
  <2>1. Busy # {}
    BY FS_EmptySet
  <2>2. QED
    BY <2>1
<1>6. \E u \in Refs : Unanswered(u)'
  <2>1. t \in Refs /\ HoldsWorker(t)'
    BY <1>3, <1>4, <1>5 DEF Busy
  <2>2. owner' \in Refs \cup {None}
    BY NextKeeps DEF BaseInv, TypeOK
  <2>3. Unanswered(t)' \/ (owner' # None /\ Unanswered(owner)')
    BY <2>1
  <2>4. QED
    BY <2>1, <2>2, <2>3
<1>7. awaiting \in Refs
  BY DEF BaseInv, TypeOK, ServingInv
<1>8. taskPc'[awaiting] = "queued"
  BY <1>7, PoolStays
<1>9. serverPc' = "dead" \/ (serverPc' = "nested" /\ awaiting' = awaiting)
  BY ServerStays
<1>10. QED
  BY <1>3, <1>4, <1>6, <1>8, <1>9 DEF StuckOnDead


\* A hang is for ever: no message, timeout, panic or death of the server ends
\* it, when callbacks wait for their nested calls (memory.rs:25, engine.rs:8,
\* environment.rs:226).
THEOREM NothingEndsAHang ==
  ASSUME "give_up" \notin Callbacks
  PROVE  Spec => HangsAreForever
<1>1. ASSUME BaseInv, [Next]_vars, Stuck
      PROVE  Stuck'
  <2> USE DEF Stuck
  <2>1. CASE StuckInMemory
    <3>1. owner' = owner /\ serverPc' = "locking"
      BY <1>1, <2>1, OwnerStays, ServerStays DEF StuckInMemory
    <3>2. owner \in Refs
      BY <1>1, <2>1 DEF StuckInMemory, BaseInv, TypeOK
    <3>3. Unanswered(owner)'
      BY <1>1, <2>1, <3>1, <3>2, UnansweredStays DEF StuckInMemory, Unanswered
    <3>4. QED
      BY <2>1, <3>1, <3>3 DEF StuckInMemory
  <2>2. CASE StuckInImport
    <3>1. awaiting \in Refs /\ serverPc # "callback" /\ taskPc[awaiting] # "done"
      BY <1>1, <2>2 DEF StuckInImport, BaseInv, TypeOK, ServingInv, Unanswered
    <3>2. taskPc'[awaiting] \in Parked /\ token'[awaiting] = "none"
      BY <1>1, <2>2, <3>1, UnansweredStays DEF StuckInImport, Unanswered
    <3>3. serverPc' = "dead" \/ (serverPc' = "nested" /\ awaiting' = awaiting)
      BY <1>1, <2>2, <3>1, ServerStays DEF StuckInImport
    <3>4. QED
      BY <3>1, <3>2, <3>3 DEF StuckInImport, StuckOnDead, Unanswered
  <2>3. CASE StuckInPool
    BY <1>1, <2>3, StuckPoolStays
  <2>4. CASE StuckOnDead
    BY <1>1, <2>4, UnansweredStays, ServerStays DEF StuckOnDead
  <2>5. QED
    BY <1>1, <2>1, <2>2, <2>3, <2>4
<1>2. BaseInv /\ [Next]_vars => [Stuck => Stuck']_vars
  BY <1>1
<1>3. QED
  BY <1>2, BaseInvariant, PTL DEF Spec, HangsAreForever


\* The use of a server that cannot hang: nobody asks for its memory, callbacks
\* return or raise and make nested calls that do not import, nothing stops the
\* server, and there is a worker for every call.
CautiousUse ==
  /\ "memory" \notin Requests
  /\ Callbacks \subseteq {"return", "raise", "nested"}
  /\ "stop" \notin Faults
  /\ IsFiniteSet(Refs) /\ Cardinality(Refs) <= Workers

\* What cautious use adds to the invariant: the server neither waits for the
\* mutex nor dies, a nested call does not park, and a nested reply reaches the
\* callback that waits for it.
CautiousInv ==
  /\ serverPc \notin {"locking", "dead"}
  /\ \A i \in DOMAIN mailbox :
       /\ mailbox[i].kind # "memory"
       /\ mailbox[i].kind = "reply" => serverPc = "nested" /\ mailbox[i].ref = awaiting
  /\ \A t \in Refs : from[t] = Server => via[t] # None
  /\ \A t \in Refs : via[t] # None => taskPc[t] \notin Parked
  /\ serverPc = "nested" => via[awaiting] # None

\* A message at the end or the head of the mailbox.
LEMMA CautiousServer ==
  ASSUME CautiousUse, IInv, CautiousInv, ServerNext
  PROVE  CautiousInv'
<1> USE DEF IInv, BaseInv, TypeOK
<1>1. ASSUME NEW k, NEW pc, Serve(k, pc)
      PROVE  /\ 1 \in DOMAIN mailbox /\ mailbox[1].kind = k /\ Head(mailbox) = mailbox[1]
             /\ \A i \in DOMAIN mailbox' : i + 1 \in DOMAIN mailbox /\ mailbox'[i] = mailbox[i + 1]
  <2>1. mailbox # <<>> /\ mailbox \in Seq(Messages) /\ mailbox' = Tail(mailbox)
    BY <1>1 DEF Serve, HeadIs
  <2>2. QED
    BY <1>1, <2>1, TailOfMailbox DEF Serve, HeadIs
<1>2. CASE HandleCallFunction
  <2>1. Serve("call_function", "idle")
    BY <1>2 DEF HandleCallFunction
  <2>2. serverPc = "idle" /\ serverPc' = "idle" /\ from' = from /\ via' = via
    BY <1>2, <2>1 DEF HandleCallFunction, Serve
  <2>3. \A t \in Refs : taskPc'[t] \in {taskPc[t], "queued"}
    BY <1>2 DEF HandleCallFunction
  <2>4. QED
    BY <1>1, <2>1, <2>2, <2>3 DEF CautiousInv
<1>3. CASE HandleGet \/ HandleMemory \/ HandleInvokeCallback
  <2>1. PICK k \in {"get", "memory", "invoke_callback"}, pc \in {"idle", "locking", "callback"} :
          Serve(k, pc) /\ (k = "memory" <=> pc = "locking")
    BY <1>3 DEF HandleGet, HandleMemory, HandleInvokeCallback
  <2>2. k # "memory" /\ serverPc = "idle" /\ serverPc' = pc
    BY <1>1, <2>1 DEF CautiousInv, Serve
  <2>3. from' = from /\ via' = via /\ taskPc' = taskPc /\ awaiting' = awaiting
    BY <1>3 DEF HandleGet, HandleMemory, HandleInvokeCallback, taskVars
  <2>4. QED
    BY <1>1, <2>1, <2>2, <2>3 DEF CautiousInv
<1>4. CASE MemoryFromInstance
  BY <1>4 DEF MemoryFromInstance, CautiousInv
<1>5. CASE HandleStray
  BY <1>5, TailOfMailbox DEF HandleStray, HeadIs, CautiousInv
<1>6. ASSUME NEW r \in Refs, CallExportedFunction(r)
      PROVE  CautiousInv'
  <2>1. /\ serverPc = "callback" /\ serverPc' = "nested" /\ awaiting' = r /\ mailbox' = mailbox
        /\ from' = [from EXCEPT ![r] = Server] /\ via' = [via EXCEPT ![r] = serving]
        /\ taskPc' = [taskPc EXCEPT ![r] = "queued"] /\ serving # None
    BY <1>6 DEF CallExportedFunction, ServingInv
  <2>2. \A i \in DOMAIN mailbox : mailbox[i].kind \notin {"reply", "memory"}
    BY <2>1 DEF CautiousInv
  <2>3. \A t \in Refs : /\ from'[t] = Server => via'[t] # None
                       /\ via'[t] # None => taskPc'[t] \notin Parked
    BY <2>1 DEF CautiousInv
  <2>4. QED
    BY <2>1, <2>2, <2>3 DEF CautiousInv
<1>7. ASSUME NEW i \in DOMAIN mailbox, ReceiveNested(i)
      PROVE  CautiousInv'
  <2>1. mailbox[i].ref = awaiting
    BY <1>7 DEF ReceiveNested, Msg
  <2>2. \A j \in DOMAIN mailbox' : \E k \in DOMAIN mailbox : k # i /\ mailbox'[j] = mailbox[k]
    BY <1>7, RemoveFromMailbox DEF ReceiveNested
  <2>3. \A k \in DOMAIN mailbox : k # i => mailbox[k].kind # "reply"
    BY <2>1 DEF CautiousInv, MailboxInv
  <2>4. \A j \in DOMAIN mailbox' : mailbox'[j].kind \notin {"reply", "memory"}
    BY <2>2, <2>3 DEF CautiousInv
  <2>5. QED
    BY <1>7, <2>4 DEF ReceiveNested, CautiousInv, taskVars
<1>8. CASE CallbackReturn \/ CallbackRaise
  BY <1>8 DEF CallbackReturn, CallbackRaise, ReceiveCallbackResult, CautiousInv, CautiousUse
<1>9. CASE CallbackCrash
  BY <1>9 DEF CallbackCrash, CautiousUse
<1>10. QED
  BY <1>2, <1>3, <1>4, <1>5, <1>6, <1>7, <1>8, <1>9 DEF ServerNext

\* The tasks under cautious use: a nested one never imports.
LEMMA CautiousTask ==
  ASSUME CautiousUse, IInv, CautiousInv, NEW t \in Refs, TaskNext(t)
  PROVE  CautiousInv'
<1> USE DEF IInv, BaseInv, TypeOK, Goto
<1>1. CASE Start(t) \/ RefuseParams(t) \/ LockStore(t) \/ LockCaller(t)
           \/ Wait(t) \/ ResumeWasm(t) \/ TrapInImport(t)
           \/ \E res \in {"ok", "error"} : FinishCall(t, res)
  BY <1>1 DEF Start, RefuseParams, LockStore, LockCaller, Wait, ResumeWasm, TrapInImport,
              FinishCall, Leave, CautiousInv, serverVars
<1>2. CASE CallImport(t)
  <2>1. via[t] = None
    BY <1>2 DEF CallImport, CautiousUse
  <2>2. mailbox' = Append(mailbox, Msg("invoke_callback", t))
    BY <1>2 DEF CallImport, CautiousInv
  <2>3. \A i \in DOMAIN mailbox' :
          \/ i \in DOMAIN mailbox /\ mailbox'[i] = mailbox[i]
          \/ mailbox'[i].kind = "invoke_callback"
    BY <2>2, MsgType, AppendToMailbox
  <2>4. QED
    BY <1>2, <2>1, <2>3 DEF CallImport, CautiousInv
<1>3. CASE SendReply(t)
  <2>1. CASE from[t] = Server
    <3>1. Active(t) /\ serverPc # "dead"
      BY <1>3, <2>1 DEF SendReply, CautiousInv, Active
    <3>2. serverPc = "nested" /\ awaiting = t
      BY <3>1 DEF NestedInv
    <3>3. \A i \in DOMAIN mailbox' :
            \/ i \in DOMAIN mailbox /\ mailbox'[i] = mailbox[i]
            \/ mailbox'[i].kind = "reply" /\ mailbox'[i].ref = t
      BY <1>3, MsgType, AppendToMailbox DEF SendReply
    <3>4. QED
      BY <1>3, <3>2, <3>3 DEF SendReply, CautiousInv
  <2>2. CASE from[t] # Server
    BY <1>3, <2>2 DEF SendReply, CautiousInv
  <2>3. QED
    BY <2>1, <2>2
<1>4. QED
  BY <1>1, <1>2, <1>3 DEF TaskNext

\* A server that is used with care never hangs.
THEOREM CarefulServersDoNotHang ==
  ASSUME CautiousUse
  PROVE  Spec => []~Stuck
<1>1. Init => CautiousInv
  BY CallsAssumption DEF Init, CautiousInv, Server
<1>2. ASSUME IInv, CautiousInv, [Next]_vars
      PROVE  CautiousInv'
  <2> USE DEF IInv, BaseInv, TypeOK
  <2>1. CASE \E c \in Clients : ClientNext(c)
    <3>1. PICK c \in Clients : ClientNext(c)
      BY <2>1
    <3>2. ASSUME NEW r \in Refs, NEW k \in Requests, Request(c, r, k)
          PROVE  CautiousInv'
      <4>1. k \in Kinds /\ k \notin {"memory", "reply"}
        BY DEF CautiousUse
      <4>2. Msg(k, r) \in Messages /\ Msg(k, r).kind = k /\ mailbox' = Append(mailbox, Msg(k, r))
        BY <3>2, <4>1, MsgType DEF Request
      <4>3. \A i \in DOMAIN mailbox' :
              \/ i \in DOMAIN mailbox /\ mailbox'[i] = mailbox[i]
              \/ mailbox'[i].kind \notin {"memory", "reply"}
        BY <1>2, <4>1, <4>2, AppendToMailbox
      <4>4. /\ \A t \in Refs : from'[t] = Server => from[t] = Server
            /\ via' = via /\ taskPc' = taskPc /\ serverPc' = serverPc /\ awaiting' = awaiting
        BY <1>2, <3>2 DEF Request, taskVars
      <4>5. QED
        BY <1>2, <4>3, <4>4 DEF CautiousInv
    <3>3. CASE ReceiveReply(c) \/ TimeOut(c) \/ Down(c)
      BY <1>2, <3>3 DEF ReceiveReply, TimeOut, Down, EndCall, serverVars, taskVars, CautiousInv
    <3>4. QED
      BY <3>1, <3>2, <3>3 DEF ClientNext
  <2>2. CASE ServerNext
    BY <1>2, <2>2, CautiousServer
  <2>3. CASE Stop \/ PanicInNif
    BY <1>2, <2>3 DEF Stop, PanicInNif, CautiousUse, CautiousInv, serverVars, taskVars
  <2>4. CASE \E t \in Refs : TaskNext(t)
    BY <1>2, <2>4, CautiousTask
  <2>5. CASE UNCHANGED vars
    BY <1>2, <2>5 DEF vars, CautiousInv
  <2>6. QED
    BY <1>2, <2>1, <2>2, <2>3, <2>4, <2>5 DEF Next
<1>3. ASSUME IInv, CautiousInv
      PROVE  ~Stuck
  <2> USE DEF IInv, BaseInv, TypeOK
  <2>1. ~StuckInMemory /\ ~StuckOnDead /\ ~StuckInImport
    BY <1>3 DEF StuckInMemory, StuckOnDead, StuckInImport, Unanswered, CautiousInv, ServingInv
  <2>2. ASSUME StuckInPool PROVE FALSE
    <3>1. awaiting \in Refs /\ awaiting \notin Busy /\ Busy \subseteq Refs
      BY <1>3, <2>2 DEF StuckInPool, ServingInv, Busy
    <3>2. IsFiniteSet(Busy) /\ Cardinality(Busy) < Cardinality(Refs)
      BY <3>1, FS_Subset, FS_CardinalityType DEF CautiousUse
    <3>3. Cardinality(Busy) \in Nat /\ Cardinality(Refs) \in Nat
      BY <3>2, FS_CardinalityType DEF CautiousUse
    <3>4. QED
      BY <2>2, <3>2, <3>3 DEF StuckInPool, CautiousUse
  <2>3. QED
    BY <2>1, <2>2 DEF Stuck
<1>4. "give_up" \notin Callbacks
  BY DEF CautiousUse
<1>5. Spec => []IInv
  BY <1>4, InductiveInvariant
<1>6. QED
  BY <1>1, <1>2, <1>3, <1>5, PTL DEF Spec

=============================================================================
