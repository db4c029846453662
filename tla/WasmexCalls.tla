----------------------------- MODULE WasmexCalls -----------------------------
(***************************************************************************)
(* The life of a call on a Wasmex server: a client process does a          *)
(* GenServer.call, the server process (lib/wasmex.ex) hands the call to    *)
(* the NIF, the NIF spawns a task on a fixed pool of worker threads        *)
(* (native/wasmex/src/instance.rs, engine.rs), the task runs Wasm while it *)
(* holds the mutex of the store, and a Wasm function that calls an         *)
(* imported function (environment.rs) parks its worker on a condvar until  *)
(* the server has run the Elixir callback.  A callback may call back into  *)
(* the instance through its `caller`, which spawns a nested task.          *)
(*                                                                         *)
(* One store, one instance, one server.  A call is named by its reference: *)
(* the one GenServer.call makes, or the make_ref() of a nested call.       *)
(***************************************************************************)
EXTENDS Naturals, FiniteSets, SequencesExt

CONSTANTS
  Clients,     \* processes that call the server
  Refs,        \* references; the pool bounds the number of calls
  Workers,     \* worker threads of TOKIO_RUNTIME (engine.rs:8)
  MaxImports,  \* bound: imported functions that one Wasm call invokes
  Requests,    \* what the clients ask for
  Callbacks,   \* what the Elixir callbacks do
  Faults,      \* what goes wrong around the server
  None         \* no reference

RequestKinds  == {"call_function", "memory", "get"}
CallbackKinds == {"return", "raise", "crash", "nested", "nested_import", "give_up"}
FaultKinds    == {"timeout", "stop", "nif_panic"}

ASSUME CallsAssumption ==
  /\ None \notin Refs \cup Clients \cup {"server"}
  /\ "server" \notin Clients
  /\ Workers \in Nat \ {0}
  /\ MaxImports \in Nat
  /\ Requests \subseteq RequestKinds
  /\ Callbacks \subseteq CallbackKinds
  /\ Faults \subseteq FaultKinds

VARIABLES
  client,    \* the call a client process waits for, or None
  from,      \* who made the call: a client, or the server (a nested call)
  reply,     \* the result in the {ref, result} message sent to `from`
  outcome,   \* how GenServer.call ended for the client
  mailbox,   \* the message queue of the server
  serverPc,  \* what the server does
  serving,   \* the call the server does it for
  awaiting,  \* the nested call a callback waits for
  taskPc,    \* where the Tokio task of a call is
  via,       \* the call whose `caller` a nested task uses, None: the store
  result,    \* what execute_function returned
  imports,   \* imported functions the call has invoked
  token,     \* CallbackToken.return_values of the import in progress
  callers,   \* calls with an entry in CALLER_MAP
  owner,     \* the call whose task holds the mutex of the store
  poisoned   \* a thread panicked while it held that mutex

clientVars == <<client, outcome>>
serverVars == <<mailbox, serverPc, serving, awaiting>>
taskVars   == <<taskPc, result, imports>>
storeVars  == <<owner, poisoned>>
vars == <<client, from, reply, outcome, mailbox, serverPc, serving, awaiting,
          taskPc, via, result, imports, token, callers, owner, poisoned>>

Server == "server"
Kinds  == RequestKinds \cup {"invoke_callback", "reply"}
Msg(kind, r) == [kind |-> kind, ref |-> r]

\* A task occupies a worker thread from its first step to its last: it never
\* yields, it blocks the thread on the mutex and on the condvar.
OnWorker == {"locking", "wasm", "checking", "asleep", "replying"}
Parked   == {"checking", "asleep"}            \* inside the import wrapper
InStore  == Parked \cup {"wasm"}
TaskPcs  == OnWorker \cup {"new", "queued", "done", "panicked"}
Results  == {"none", "ok", "error"}

Init ==
  /\ client = [c \in Clients |-> None]
  /\ from = [r \in Refs |-> None]
  /\ reply = [r \in Refs |-> "none"]
  /\ outcome = [r \in Refs |-> "none"]
  /\ mailbox = <<>>
  /\ serverPc = "idle" /\ serving = None /\ awaiting = None
  /\ taskPc = [r \in Refs |-> "new"]
  /\ via = [r \in Refs |-> None]
  /\ result = [r \in Refs |-> "none"]
  /\ imports = [r \in Refs |-> 0]
  /\ token = [r \in Refs |-> "none"]
  /\ callers = {}
  /\ owner = None /\ poisoned = FALSE

Fresh(r) == from[r] = None

-----------------------------------------------------------------------------
(* Client processes: GenServer.call, lib/wasmex.ex:311-452.                 *)

Request(c, r, kind) ==
  /\ client[c] = None /\ Fresh(r) /\ serverPc # "dead"
  /\ client' = [client EXCEPT ![c] = r]
  /\ from' = [from EXCEPT ![r] = c]
  /\ mailbox' = Append(mailbox, Msg(kind, r))
  /\ UNCHANGED <<reply, outcome, serverPc, serving, awaiting, via, token, callers>>
  /\ UNCHANGED taskVars /\ UNCHANGED storeVars

\* GenServer.call c is waiting in returns (or exits) with `how`.
EndCall(c, how) ==
  /\ client' = [client EXCEPT ![c] = None]
  /\ outcome' = [outcome EXCEPT ![client[c]] = how]
  /\ UNCHANGED <<from, reply, via, token, callers>>
  /\ UNCHANGED serverVars /\ UNCHANGED taskVars /\ UNCHANGED storeVars

ReceiveReply(c) ==
  /\ client[c] # None /\ reply[client[c]] # "none"
  /\ EndCall(c, reply[client[c]])

\* The default of call_function is 5000 ms; the reply may already be under way.
TimeOut(c) ==
  /\ "timeout" \in Faults /\ client[c] # None
  /\ EndCall(c, "timeout")

\* The monitor of GenServer.call fires: the server is gone.
Down(c) ==
  /\ serverPc = "dead" /\ client[c] # None
  /\ EndCall(c, "down")

-----------------------------------------------------------------------------
(* The server process: handle_call and handle_info of lib/wasmex.ex.        *)

HeadIs(kind) == mailbox # <<>> /\ Head(mailbox).kind = kind

Serve(kind, pc) ==
  /\ serverPc = "idle" /\ HeadIs(kind)
  /\ mailbox' = Tail(mailbox)
  /\ serverPc' = pc

Die ==
  /\ serverPc' = "dead"
  /\ mailbox' = <<>>
  /\ UNCHANGED <<serving, awaiting>>

\* The NIF spawns the task and returns :ok, the server does not reply.
HandleCallFunction ==
  /\ Serve("call_function", "idle")
  /\ taskPc' = [taskPc EXCEPT ![Head(mailbox).ref] = "queued"]
  /\ UNCHANGED <<from, reply, serving, awaiting, via, result, imports, token, callers>>
  /\ UNCHANGED clientVars /\ UNCHANGED storeVars

\* {:store}, {:module} and {:instance}: answered from the state.
HandleGet ==
  /\ Serve("get", "idle")
  /\ reply' = [reply EXCEPT ![Head(mailbox).ref] = "ok"]
  /\ UNCHANGED <<from, serving, awaiting, via, token, callers>>
  /\ UNCHANGED clientVars /\ UNCHANGED taskVars /\ UNCHANGED storeVars

\* {:memory} and {:exported_function_exists, _} call a NIF that locks the
\* store on the server's own scheduler thread.
HandleMemory ==
  /\ Serve("memory", "locking")
  /\ serving' = Head(mailbox).ref
  /\ UNCHANGED <<from, reply, awaiting, via, token, callers>>
  /\ UNCHANGED clientVars /\ UNCHANGED taskVars /\ UNCHANGED storeVars

\* A poisoned mutex is an error tuple here, and so is a module without memory.
MemoryFromInstance ==
  /\ serverPc = "locking" /\ owner = None
  /\ \E res \in {"ok", "error"} :
       /\ poisoned => res = "error"
       /\ reply' = [reply EXCEPT ![serving] = res]
  /\ serverPc' = "idle" /\ serving' = None
  /\ UNCHANGED <<from, mailbox, awaiting, via, token, callers>>
  /\ UNCHANGED clientVars /\ UNCHANGED taskVars /\ UNCHANGED storeVars

HandleInvokeCallback ==
  /\ Serve("invoke_callback", "callback")
  /\ serving' = Head(mailbox).ref
  /\ UNCHANGED <<from, reply, awaiting, via, token, callers>>
  /\ UNCHANGED clientVars /\ UNCHANGED taskVars /\ UNCHANGED storeVars

\* Mutant: the nested call is given the `from` of the outer call for a caller.
MutCallWithFrom(r) ==
  /\ serverPc = "callback" /\ "nested" \in Callbacks /\ Fresh(r)
  /\ from' = [from EXCEPT ![r] = Server]
  /\ via' = [via EXCEPT ![r] = from[serving]]
  /\ taskPc' = [taskPc EXCEPT ![r] = "queued"]
  /\ serverPc' = "nested" /\ awaiting' = r
  /\ UNCHANGED <<reply, mailbox, serving, result, imports, token, callers>>
  /\ UNCHANGED clientVars /\ UNCHANGED storeVars

\* Inside a callback: Wasmex.Instance.call_exported_function(caller, ...) with
\* from = {self(), make_ref()}, then `receive`.
CallExportedFunction(r) ==
  /\ serverPc = "callback" /\ "nested" \in Callbacks /\ Fresh(r)
  /\ from' = [from EXCEPT ![r] = Server]
  /\ via' = [via EXCEPT ![r] = serving]
  /\ taskPc' = [taskPc EXCEPT ![r] = "queued"]
  /\ serverPc' = "nested" /\ awaiting' = r
  /\ UNCHANGED <<reply, mailbox, serving, result, imports, token, callers>>
  /\ UNCHANGED clientVars /\ UNCHANGED storeVars

\* Mutant: `receive` does not pin the reference and takes any message.
MutReceiveAny(i) ==
  /\ serverPc = "nested"
  /\ mailbox' = RemoveAt(mailbox, i)
  /\ serverPc' = "callback" /\ awaiting' = None
  /\ UNCHANGED <<from, reply, serving, via, token, callers>>
  /\ UNCHANGED clientVars /\ UNCHANGED taskVars /\ UNCHANGED storeVars

\* `receive` takes the matching message from anywhere in the mailbox.
ReceiveNested(i) ==
  /\ serverPc = "nested" /\ mailbox[i] = Msg("reply", awaiting)
  /\ mailbox' = RemoveAt(mailbox, i)
  /\ serverPc' = "callback" /\ awaiting' = None
  /\ UNCHANGED <<from, reply, serving, via, token, callers>>
  /\ UNCHANGED clientVars /\ UNCHANGED taskVars /\ UNCHANGED storeVars

\* Mutant: the result is stored and the condvar is not notified.
MutReceiveNoNotify(success) ==
  /\ token' = [token EXCEPT ![serving] = success]
  /\ serverPc' = "idle" /\ serving' = None /\ awaiting' = None
  /\ UNCHANGED <<from, reply, mailbox, via, callers>>
  /\ UNCHANGED clientVars /\ UNCHANGED storeVars /\ UNCHANGED taskVars

\* instance_receive_callback_result: store the result, notify the condvar.
ReceiveCallbackResult(success) ==
  /\ token' = [token EXCEPT ![serving] = success]
  /\ taskPc' = [taskPc EXCEPT ![serving] = IF @ = "asleep" THEN "checking" ELSE @]
  /\ serverPc' = "idle" /\ serving' = None /\ awaiting' = None
  /\ UNCHANGED <<from, reply, mailbox, via, result, imports, callers>>
  /\ UNCHANGED clientVars /\ UNCHANGED storeVars

\* Mutant: the callback returns without waiting for its nested call.
MutReturnEarly ==
  /\ serverPc \in {"callback", "nested"} /\ "return" \in Callbacks
  /\ ReceiveCallbackResult("ok")

CallbackReturn ==
  /\ serverPc = "callback" /\ "return" \in Callbacks
  /\ ReceiveCallbackResult("ok")

\* A RuntimeError is rescued; `receive ... after` raises one as well, with the
\* nested call still under way.
CallbackRaise ==
  /\ \/ serverPc = "callback" /\ "raise" \in Callbacks
     \/ serverPc = "nested" /\ "give_up" \in Callbacks
  /\ ReceiveCallbackResult("error")

\* Any other exception, throw or exit leaves handle_info, and so does a
\* result that does not convert: the token is not signalled.
CallbackCrash ==
  /\ serverPc = "callback" /\ "crash" \in Callbacks
  /\ Die
  /\ UNCHANGED <<from, reply, via, token, callers>>
  /\ UNCHANGED clientVars /\ UNCHANGED taskVars /\ UNCHANGED storeVars

\* handle_info has a clause for :invoke_callback only: the answer to a nested
\* call nobody waits for any more ends the server.
HandleStray ==
  /\ serverPc = "idle" /\ HeadIs("reply")
  /\ Die
  /\ UNCHANGED <<from, reply, via, token, callers>>
  /\ UNCHANGED clientVars /\ UNCHANGED taskVars /\ UNCHANGED storeVars

\* An exit signal from the outside; one that arrives in a NIF waits for it.
Stop ==
  /\ "stop" \in Faults /\ serverPc \notin {"dead", "locking"}
  /\ Die
  /\ UNCHANGED <<from, reply, via, token, callers>>
  /\ UNCHANGED clientVars /\ UNCHANGED taskVars /\ UNCHANGED storeVars

\* Any process that uses the store in a NIF panics with its mutex held, on a
\* length of memory.rs:160 that cannot be allocated, on a memory of another
\* store: the process gets an exception, the store stays poisoned.
PanicInNif ==
  /\ "nif_panic" \in Faults /\ owner = None
  /\ poisoned' = TRUE
  /\ UNCHANGED <<from, reply, via, token, callers, owner>>
  /\ UNCHANGED clientVars /\ UNCHANGED serverVars /\ UNCHANGED taskVars

-----------------------------------------------------------------------------
(* The Tokio task of a call: call_exported_function and execute_function.   *)

Busy == {t \in Refs : taskPc[t] \in OnWorker}

Goto(t, pc) == taskPc' = [taskPc EXCEPT ![t] = pc]

Start(t) ==
  /\ taskPc[t] = "queued" /\ Cardinality(Busy) < Workers
  /\ Goto(t, "locking")
  /\ UNCHANGED <<from, reply, via, result, imports, token, callers>>
  /\ UNCHANGED clientVars /\ UNCHANGED serverVars /\ UNCHANGED storeVars

\* Parameters that are not a list are refused before any lock is taken.
RefuseParams(t) ==
  /\ taskPc[t] = "queued" /\ Cardinality(Busy) < Workers
  /\ Goto(t, "replying")
  /\ result' = [result EXCEPT ![t] = "error"]
  /\ UNCHANGED <<from, reply, via, imports, token, callers>>
  /\ UNCHANGED clientVars /\ UNCHANGED serverVars /\ UNCHANGED storeVars

\* Mutant: the task enters the store without waiting for its mutex.
MutNoLock(t) ==
  /\ taskPc[t] = "locking" /\ via[t] = None
  /\ Goto(t, "wasm") /\ owner' = t
  /\ UNCHANGED <<from, reply, via, result, imports, token, callers, poisoned>>
  /\ UNCHANGED clientVars /\ UNCHANGED serverVars

\* store.lock().unwrap(): a poisoned mutex panics, and nobody is answered.
LockStore(t) ==
  /\ taskPc[t] = "locking" /\ via[t] = None /\ owner = None
  /\ IF poisoned THEN Goto(t, "panicked") /\ UNCHANGED owner
                 ELSE Goto(t, "wasm") /\ owner' = t
  /\ UNCHANGED <<from, reply, via, result, imports, token, callers, poisoned>>
  /\ UNCHANGED clientVars /\ UNCHANGED serverVars

\* A nested task locks its own StoreOrCaller::Caller and takes the entry of
\* CALLER_MAP: get_caller_mut(token).unwrap().
LockCaller(t) ==
  /\ taskPc[t] = "locking" /\ via[t] # None
  /\ Goto(t, IF via[t] \in callers THEN "wasm" ELSE "panicked")
  /\ UNCHANGED <<from, reply, via, result, imports, token, callers>>
  /\ UNCHANGED clientVars /\ UNCHANGED serverVars /\ UNCHANGED storeVars

\* The guard of the store is dropped; a nested task never held it.
Release(t) == owner' = IF owner = t THEN None ELSE owner

\* Mutant: the wrapper does not register its caller.
MutImportNoCaller(t) ==
  /\ taskPc[t] = "wasm" /\ imports[t] < MaxImports /\ serverPc # "dead"
  /\ imports' = [imports EXCEPT ![t] = @ + 1]
  /\ token' = [token EXCEPT ![t] = "none"]
  /\ Goto(t, "checking")
  /\ mailbox' = Append(mailbox, Msg("invoke_callback", t))
  /\ UNCHANGED <<from, reply, serverPc, serving, awaiting, via, result, callers>>
  /\ UNCHANGED clientVars /\ UNCHANGED storeVars

\* The wrapper of link_imported_function: make a token, set_caller, send
\* :invoke_callback.  Sending to a dead server panics: the stack unwinds
\* through the guard of the store and the entry of CALLER_MAP stays.
CallImport(t) ==
  /\ taskPc[t] = "wasm" /\ imports[t] < MaxImports
  /\ via[t] # None => "nested_import" \in Callbacks
  /\ imports' = [imports EXCEPT ![t] = @ + 1]
  /\ token' = [token EXCEPT ![t] = "none"]
  /\ callers' = callers \cup {t}
  /\ IF serverPc = "dead"
       THEN /\ Goto(t, "panicked") /\ Release(t)
            /\ poisoned' = (poisoned \/ owner = t)
            /\ UNCHANGED mailbox
       ELSE /\ Goto(t, "checking")
            /\ mailbox' = Append(mailbox, Msg("invoke_callback", t))
            /\ UNCHANGED storeVars
  /\ UNCHANGED <<from, reply, serverPc, serving, awaiting, via, result>>
  /\ UNCHANGED clientVars

\* Mutant: the wait is not guarded by a look at the result.
MutWaitUnchecked(t) ==
  /\ taskPc[t] = "checking"
  /\ Goto(t, "asleep")
  /\ UNCHANGED <<from, reply, via, result, imports, token, callers>>
  /\ UNCHANGED clientVars /\ UNCHANGED serverVars /\ UNCHANGED storeVars

\* Mutant: `if` instead of `while`, with a wake-up that has no result.
MutWakeSpuriously(t) ==
  /\ taskPc[t] = "checking" /\ token[t] = "none"
  /\ Goto(t, "wasm") /\ callers' = callers \ {t}
  /\ UNCHANGED <<from, reply, via, result, imports, token>>
  /\ UNCHANGED clientVars /\ UNCHANGED serverVars /\ UNCHANGED storeVars

\* `while result.is_none() { wait }` under the mutex of return_values.
Wait(t) ==
  /\ taskPc[t] = "checking" /\ token[t] = "none"
  /\ Goto(t, "asleep")
  /\ UNCHANGED <<from, reply, via, result, imports, token, callers>>
  /\ UNCHANGED clientVars /\ UNCHANGED serverVars /\ UNCHANGED storeVars

\* Mutant: the guard of the store outlives the call.
MutLeaveLocked(t, res) ==
  /\ Goto(t, "replying") /\ UNCHANGED owner
  /\ result' = [result EXCEPT ![t] = res]

\* execute_function is over: its guards are dropped, the reply is not sent yet.
Leave(t, res) ==
  /\ Goto(t, "replying") /\ Release(t)
  /\ result' = [result EXCEPT ![t] = res]

ResumeWasm(t) ==
  /\ taskPc[t] = "checking" /\ token[t] = "ok"
  /\ callers' = callers \ {t}
  /\ Goto(t, "wasm")
  /\ UNCHANGED <<from, reply, via, result, imports, token>>
  /\ UNCHANGED clientVars /\ UNCHANGED serverVars /\ UNCHANGED storeVars

\* Mutant: the early return of the error path skips remove_caller.
MutTrapKeepsCaller(t) ==
  /\ taskPc[t] = "checking" /\ token[t] = "error"
  /\ Leave(t, "error")
  /\ UNCHANGED <<from, reply, via, imports, token, callers, poisoned>>
  /\ UNCHANGED clientVars /\ UNCHANGED serverVars

\* The wrapper returns Err: the Wasm function traps.
TrapInImport(t) ==
  /\ taskPc[t] = "checking" /\ token[t] = "error"
  /\ callers' = callers \ {t}
  /\ Leave(t, "error")
  /\ UNCHANGED <<from, reply, via, imports, token, poisoned>>
  /\ UNCHANGED clientVars /\ UNCHANGED serverVars

\* The function returns or traps, or was refused under the lock (unknown name,
\* wrong params, a result type that cannot be returned).
FinishCall(t, res) ==
  /\ taskPc[t] = "wasm"
  /\ Leave(t, res)
  /\ UNCHANGED <<from, reply, via, imports, token, callers, poisoned>>
  /\ UNCHANGED clientVars /\ UNCHANGED serverVars

\* Mutant: only a successful call is answered.
MutReplyOkOnly(t) ==
  /\ taskPc[t] = "replying"
  /\ Goto(t, "done")
  /\ reply' = [reply EXCEPT ![t] = IF result[t] = "ok" THEN "ok" ELSE "none"]
  /\ UNCHANGED <<from, via, result, imports, token, callers>>
  /\ UNCHANGED clientVars /\ UNCHANGED serverVars /\ UNCHANGED storeVars

\* env.send(&caller_pid, {ref, result}), an error of which is ignored.
SendReply(t) ==
  /\ taskPc[t] = "replying"
  /\ Goto(t, "done")
  /\ reply' = [reply EXCEPT ![t] = result[t]]
  /\ mailbox' = IF from[t] = Server /\ serverPc # "dead"
                  THEN Append(mailbox, Msg("reply", t)) ELSE mailbox
  /\ UNCHANGED <<from, serverPc, serving, awaiting, via, result, imports, token, callers>>
  /\ UNCHANGED clientVars /\ UNCHANGED storeVars

-----------------------------------------------------------------------------

ClientNext(c) ==
  \/ \E r \in Refs, kind \in Requests : Request(c, r, kind)
  \/ ReceiveReply(c) \/ TimeOut(c) \/ Down(c)

ServerNext ==
  \/ HandleCallFunction \/ HandleGet \/ HandleMemory \/ MemoryFromInstance
  \/ HandleInvokeCallback \/ HandleStray
  \/ \E r \in Refs : CallExportedFunction(r)
  \/ \E i \in DOMAIN mailbox : ReceiveNested(i)
  \/ CallbackReturn \/ CallbackRaise \/ CallbackCrash

TaskNext(t) ==
  \/ Start(t) \/ RefuseParams(t) \/ LockStore(t) \/ LockCaller(t)
  \/ CallImport(t) \/ Wait(t) \/ ResumeWasm(t) \/ TrapInImport(t)
  \/ \E res \in {"ok", "error"} : FinishCall(t, res)
  \/ SendReply(t)

Next ==
  \/ \E c \in Clients : ClientNext(c)
  \/ ServerNext \/ Stop \/ PanicInNif
  \/ \E t \in Refs : TaskNext(t)

\* The scheduler of the BEAM runs every process, the operating system runs
\* every worker thread, Wasm functions and callbacks end.  Nothing makes a
\* client ask, a timeout fire, the server stop or a NIF panic.
Fairness ==
  /\ \A c \in Clients : WF_vars(ReceiveReply(c)) /\ WF_vars(Down(c))
  /\ WF_vars(ServerNext)
  /\ \A t \in Refs : WF_vars(TaskNext(t))

Spec     == Init /\ [][Next]_vars
FairSpec == Spec /\ Fairness

-----------------------------------------------------------------------------
(* Safety.                                                                  *)

Messages == [kind : Kinds, ref : Refs]

\* Types of the variables.
TypeOK ==
  /\ client \in [Clients -> Refs \cup {None}]
  /\ from \in [Refs -> Clients \cup {Server, None}]
  /\ reply \in [Refs -> Results]
  /\ outcome \in [Refs -> Results \cup {"timeout", "down"}]
  /\ mailbox \in Seq(Messages)
  /\ serverPc \in {"idle", "locking", "callback", "nested", "dead"}
  /\ serving \in Refs \cup {None}
  /\ awaiting \in Refs \cup {None}
  /\ taskPc \in [Refs -> TaskPcs]
  /\ via \in [Refs -> Refs \cup {None}]
  /\ result \in [Refs -> Results]
  /\ imports \in [Refs -> 0..MaxImports]
  /\ token \in [Refs -> Results]
  /\ callers \subseteq Refs
  /\ owner \in Refs \cup {None}
  /\ poisoned \in BOOLEAN

\* At most one task executes Wasm code in the store, nested calls included: a
\* wasmtime store is used by one thread at a time.  Nothing in the code checks
\* it for a nested call, which takes no lock of the store (caller.rs): it
\* holds as long as the callback that made the call waits for it.
SingleRunner ==
  \A s, t \in Refs : taskPc[s] = "wasm" /\ taskPc[t] = "wasm" => s = t

\* No lost wake-up between environment.rs:225-228 and instance.rs:492-494: a
\* worker that sleeps on the condvar has no result to pick up.
NoLostWakeup ==
  \A t \in Refs : taskPc[t] = "asleep" => token[t] = "none"

\* While the server runs a callback, the call it runs it for is parked in the
\* import wrapper, unanswered, and its `caller` is valid (wasmex.ex:84-88).
CallbackServesParked ==
  serverPc \in {"callback", "nested"} =>
    taskPc[serving] \in Parked /\ token[serving] = "none" /\ serving \in callers

\* CALLER_MAP only keeps the callers of calls that are parked in the import
\* wrapper; what a panic leaves behind (environment.rs:222) needs a dead server.
CallersParked ==
  \A t \in callers : taskPc[t] \in Parked \/ (taskPc[t] = "panicked" /\ serverPc = "dead")

\* A call that was answered has left nothing behind that it set up: it does not
\* hold the store, it is not in CALLER_MAP, no nested call of it is alive.
AnsweredCallIsGone ==
  \A r \in Refs : outcome[r] \in {"ok", "error"} =>
    /\ owner # r /\ r \notin callers
    /\ \A n \in Refs : via[n] = r => taskPc[n] \in {"done", "panicked"}

-----------------------------------------------------------------------------
(* Liveness, and the only ways to lose it.                                  *)

\* A wrapper that waits for a result nobody has sent.
Unanswered(t) == taskPc[t] \in Parked /\ token[t] = "none"

\* The server waits in a NIF for the mutex of the store, the call that holds it
\* waits for the server (memory.rs:25, environment.rs:226).
StuckInMemory == serverPc = "locking" /\ owner # None /\ Unanswered(owner)

\* The nested call that a callback waits for calls an imported function, and
\* its wrapper waits for the server, which runs that callback (wasmex.ex:524).
StuckInImport == serverPc = "nested" /\ Unanswered(awaiting)

\* A task that gives its worker back only after the callback that runs: it is
\* parked, or locks a store whose call is.
HoldsWorker(t) ==
  \/ Unanswered(t)
  \/ taskPc[t] = "locking" /\ via[t] = None /\ owner # None /\ Unanswered(owner)

\* The nested call that a callback waits for is queued, and every worker is
\* taken by a call that waits for that callback (engine.rs:8).
StuckInPool ==
  /\ serverPc = "nested" /\ taskPc[awaiting] = "queued"
  /\ ~(Cardinality(Busy) < Workers)
  /\ \A t \in Busy : HoldsWorker(t)

\* The server died, and a wrapper waits for a callback it will not run.
StuckOnDead == serverPc = "dead" /\ \E t \in Refs : Unanswered(t)

Stuck == StuckInMemory \/ StuckInImport \/ StuckInPool \/ StuckOnDead

\* Nothing resolves a hang: no later message, timeout or death of the server,
\* as long as callbacks wait for their nested calls without a time limit.
HangsAreForever == [][Stuck => Stuck']_vars

\* Who calls the server is answered, told that the server is down, or gives up,
\* unless one of the four hangs happens or the task of the call panics on a
\* poisoned store.
CallsAnswered ==
  \A c \in Clients, r \in Refs :
    client[c] = r ~> client[c] # r \/ taskPc[r] = "panicked" \/ Stuck

\* The task of a call ends and gives its worker back, whether or not the client
\* still waits for it, unless one of the four hangs happens.
TasksEnd ==
  \A r \in Refs : taskPc[r] = "queued" ~> taskPc[r] \in {"done", "panicked"} \/ Stuck

\* A wrapper that waits for its callback continues, unless one of the four
\* hangs happens.
WrapperResumes ==
  \A t \in Refs : taskPc[t] = "checking" ~> taskPc[t] \notin Parked \/ Stuck

\* Steps 4 to 6 of the protocol in environment.rs:108-111 as they are written:
\* the callback is run, its result comes back, and the wrapper continues.
WrapperContinues ==
  \A t \in Refs : taskPc[t] = "checking" ~> taskPc[t] \notin Parked

-----------------------------------------------------------------------------
(* The server, the pool and the locks implement a serial store.             *)

InsideNested == {t \in Refs : via[t] # None /\ taskPc[t] \in InStore}

SerialPhase(pc) ==
  CASE pc = "new" -> "fresh"
    [] pc \in {"queued", "locking"} -> "asked"
    [] pc \in InStore -> "open"
    [] pc = "replying" -> "closed"
    [] pc = "done" -> "delivered"
    [] pc = "panicked" -> "lost"

Serial == INSTANCE SerialStore WITH
  Calls <- Refs,
  parent <- via,
  phase <- [r \in Refs |-> SerialPhase(taskPc[r])],
  stack <- (IF owner = None THEN <<>> ELSE <<owner>>)
           \o SetToSeq(InsideNested)

\* Seen from the store, the calls of any number of clients and of the callbacks
\* are one stack of calls (instance.rs:271, wasmex.ex:84-88).
ImplementsSerialStore == Serial!Spec
=============================================================================
