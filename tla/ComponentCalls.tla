--------------------------- MODULE ComponentCalls ---------------------------
(***************************************************************************)
(* Calls of component functions: lib/wasmex/components.ex and              *)
(* native/wasmex/src/component_instance.rs.  Several component servers     *)
(* share the worker pool, and may share a store (start_link's `store`).    *)
(* The pipeline is that of WasmexCalls with three differences: a callback  *)
(* has no `caller` to call back with, but it may call another component    *)
(* server; an exception in a callback is not rescued; and the import       *)
(* wrapper ignores whether its message reached the server.                 *)
(***************************************************************************)
EXTENDS Naturals, FiniteSets, SequencesExt

CONSTANTS
  Clients,     \* processes that call component servers
  Servers,     \* component servers
  Stores,      \* stores
  StoreOf,     \* the store each server was started with
  CallsTo,     \* <<s, u>>: callbacks of server s call server u
  Refs,        \* references of calls; bounds their number
  Workers,     \* worker threads of TOKIO_RUNTIME (engine.rs:8)
  MaxImports,  \* bound: imports that one call invokes
  Callbacks,   \* what callbacks do
  Faults,      \* what goes wrong around the servers
  None

Processes == Clients \cup Servers

ASSUME ComponentAssumption ==
  /\ None \notin Refs \cup Processes
  /\ Clients \cap Servers = {}
  /\ Stores # {} /\ StoreOf \in [Servers -> Stores]
  /\ CallsTo \subseteq Servers \X Servers
  /\ Workers \in Nat \ {0}
  /\ MaxImports \in Nat
  /\ Callbacks \subseteq {"return", "raise"}
  /\ Faults \subseteq {"timeout", "stop"}

VARIABLES
  from,      \* the process that made the call
  to,        \* the server it called
  waits,     \* the call a process blocks in GenServer.call for
  outcome,   \* how that GenServer.call ended
  reply,     \* the result in the {ref, result} message sent to `from`
  mailbox,   \* the message queue of each server
  serverPc,  \* what each server does
  serving,   \* the call whose import a server runs the callback for
  taskPc,    \* where the Tokio task of a call is
  result,    \* what component_execute_function returned
  imports,   \* imports the call has invoked
  token,     \* ComponentCallbackToken.return_values of the import in progress
  owner      \* the call whose task holds the mutex of a store

callVars   == <<from, to>>
clientVars == <<waits, outcome>>
serverVars == <<mailbox, serverPc, serving>>
taskVars   == <<taskPc, result, imports>>
vars == <<from, to, waits, outcome, reply, mailbox, serverPc, serving,
          taskPc, result, imports, token, owner>>

Msg(kind, r) == [kind |-> kind, ref |-> r]

OnWorker == {"locking", "wasm", "checking", "asleep", "replying"}
Parked   == {"checking", "asleep"}
InStore  == Parked \cup {"wasm"}

Init ==
  /\ from = [r \in Refs |-> None] /\ to = [r \in Refs |-> None]
  /\ waits = [p \in Processes |-> None]
  /\ outcome = [r \in Refs |-> "none"]
  /\ reply = [r \in Refs |-> "none"]
  /\ mailbox = [s \in Servers |-> <<>>]
  /\ serverPc = [s \in Servers |-> "starting"]
  /\ serving = [s \in Servers |-> None]
  /\ taskPc = [r \in Refs |-> "new"]
  /\ result = [r \in Refs |-> "none"]
  /\ imports = [r \in Refs |-> 0]
  /\ token = [r \in Refs |-> "none"]
  /\ owner = [st \in Stores |-> None]

MyStore(r) == StoreOf[to[r]]
Alive(s)   == serverPc[s] # "dead"

-----------------------------------------------------------------------------
(* GenServer.call, by a client or from within a callback.                   *)

Call(p, s, r) ==
  /\ waits[p] = None /\ from[r] = None /\ serverPc[s] # "starting"
  /\ from' = [from EXCEPT ![r] = p]
  /\ to' = [to EXCEPT ![r] = s]
  /\ waits' = [waits EXCEPT ![p] = r]
  /\ mailbox' = IF Alive(s) THEN [mailbox EXCEPT ![s] = Append(@, Msg("call", r))]
                            ELSE mailbox

\* Wasmex.Components.call_function/4.
Request(c, s, r) ==
  /\ Call(c, s, r)
  /\ UNCHANGED <<outcome, reply, serverPc, serving, token, owner>>
  /\ UNCHANGED taskVars

EndCall(p, how) ==
  /\ waits' = [waits EXCEPT ![p] = None]
  /\ outcome' = [outcome EXCEPT ![waits[p]] = how]
  /\ UNCHANGED <<reply, token, owner>>
  /\ UNCHANGED callVars /\ UNCHANGED taskVars

ReceiveReply(c) ==
  /\ waits[c] # None /\ reply[waits[c]] # "none"
  /\ EndCall(c, reply[waits[c]])
  /\ UNCHANGED serverVars

Unanswerable(p) == waits[p] # None /\ ~Alive(to[waits[p]])

\* The call times out, or its server is gone: GenServer.call exits.
GiveUp(c) ==
  /\ \/ "timeout" \in Faults /\ waits[c] # None /\ EndCall(c, "timeout")
     \/ Unanswerable(c) /\ EndCall(c, "down")
  /\ UNCHANGED serverVars

-----------------------------------------------------------------------------
(* A component server: init, handle_call and handle_info.                   *)

\* init/1 instantiates the component under the mutex of the store; a failure
\* ends the server.
Instantiate(s) ==
  /\ serverPc[s] = "starting" /\ owner[StoreOf[s]] = None
  /\ \E pc \in {"idle", "dead"} : serverPc' = [serverPc EXCEPT ![s] = pc]
  /\ UNCHANGED <<reply, mailbox, serving, token, owner>>
  /\ UNCHANGED callVars /\ UNCHANGED clientVars /\ UNCHANGED taskVars

Serve(s, kind, pc) ==
  /\ serverPc[s] = "idle" /\ mailbox[s] # <<>> /\ Head(mailbox[s]).kind = kind
  /\ mailbox' = [mailbox EXCEPT ![s] = Tail(@)]
  /\ serverPc' = [serverPc EXCEPT ![s] = pc]

HandleCallFunction(s) ==
  /\ Serve(s, "call", "idle")
  /\ taskPc' = [taskPc EXCEPT ![Head(mailbox[s]).ref] = "queued"]
  /\ UNCHANGED <<reply, serving, result, imports, token, owner>>
  /\ UNCHANGED callVars /\ UNCHANGED clientVars

\* Mutant: the server notes who made the call instead of the call.
MutServeCaller(s) ==
  /\ Serve(s, "invoke_callback", "callback")
  /\ serving' = [serving EXCEPT ![s] = from[Head(mailbox[s]).ref]]
  /\ UNCHANGED <<reply, token, owner>>
  /\ UNCHANGED callVars /\ UNCHANGED clientVars /\ UNCHANGED taskVars

HandleInvokeCallback(s) ==
  /\ Serve(s, "invoke_callback", "callback")
  /\ serving' = [serving EXCEPT ![s] = Head(mailbox[s]).ref]
  /\ UNCHANGED <<reply, token, owner>>
  /\ UNCHANGED callVars /\ UNCHANGED clientVars /\ UNCHANGED taskVars

\* The callback calls a function of another component.
CallServer(s, u, r) ==
  /\ serverPc[s] = "callback" /\ <<s, u>> \in CallsTo /\ s # u
  /\ Call(s, u, r)
  /\ serverPc' = [serverPc EXCEPT ![s] = "calling"]
  /\ UNCHANGED <<outcome, reply, serving, token, owner>>
  /\ UNCHANGED taskVars

ReceiveServerReply(s) ==
  /\ serverPc[s] = "calling" /\ reply[waits[s]] # "none"
  /\ EndCall(s, reply[waits[s]])
  /\ serverPc' = [serverPc EXCEPT ![s] = "callback"]
  /\ UNCHANGED <<mailbox, serving>>

\* Mutant: the waiting wrapper is not notified.
MutNoNotify(s) ==
  /\ token' = [token EXCEPT ![serving[s]] = "ok"]
  /\ serverPc' = [serverPc EXCEPT ![s] = "idle"]
  /\ serving' = [serving EXCEPT ![s] = None]
  /\ UNCHANGED <<reply, mailbox, owner>>
  /\ UNCHANGED callVars /\ UNCHANGED clientVars /\ UNCHANGED taskVars

\* component_receive_callback_result: the converted value is stored and the
\* condvar notified.  The success flag is ignored, it is always true.
ReceiveCallbackResult(s) ==
  /\ token' = [token EXCEPT ![serving[s]] = "ok"]
  /\ taskPc' = [taskPc EXCEPT ![serving[s]] = IF @ = "asleep" THEN "checking" ELSE @]
  /\ serverPc' = [serverPc EXCEPT ![s] = "idle"]
  /\ serving' = [serving EXCEPT ![s] = None]
  /\ UNCHANGED <<reply, mailbox, result, imports, owner>>
  /\ UNCHANGED callVars /\ UNCHANGED clientVars

CallbackReturn(s) ==
  /\ serverPc[s] = "callback" /\ "return" \in Callbacks
  /\ ReceiveCallbackResult(s)

Die(s) ==
  /\ serverPc' = [serverPc EXCEPT ![s] = "dead"]
  /\ mailbox' = [mailbox EXCEPT ![s] = <<>>]
  /\ UNCHANGED serving

\* An exception in the callback, or a result that does not convert: the match
\* on :ok fails, nothing is stored in the token.
CallbackCrash(s) ==
  /\ serverPc[s] = "callback" /\ "raise" \in Callbacks
  /\ Die(s)
  /\ UNCHANGED <<reply, token, owner>>
  /\ UNCHANGED callVars /\ UNCHANGED clientVars /\ UNCHANGED taskVars

\* GenServer.call exits in the callback: the server dies with it.
CallbackExit(s) ==
  /\ serverPc[s] = "calling"
  /\ \/ "timeout" \in Faults /\ EndCall(s, "timeout")
     \/ Unanswerable(s) /\ EndCall(s, "down")
  /\ Die(s)

Stop(s) ==
  /\ "stop" \in Faults /\ serverPc[s] \notin {"starting", "dead"}
  /\ Die(s)
  /\ waits' = [waits EXCEPT ![s] = None]
  /\ UNCHANGED <<outcome, reply, token, owner>>
  /\ UNCHANGED callVars /\ UNCHANGED taskVars

-----------------------------------------------------------------------------
(* The Tokio task: component_call_function, component_execute_function.     *)

Busy == {r \in Refs : taskPc[r] \in OnWorker}

Goto(r, pc) == taskPc' = [taskPc EXCEPT ![r] = pc]

Start(r) ==
  /\ taskPc[r] = "queued" /\ Cardinality(Busy) < Workers
  /\ Goto(r, "locking")
  /\ UNCHANGED <<reply, result, imports, token, owner>>
  /\ UNCHANGED callVars /\ UNCHANGED clientVars /\ UNCHANGED serverVars

\* Mutant: the mutex is not taken.
MutNoLock(r) ==
  /\ taskPc[r] = "locking"
  /\ Goto(r, "wasm")
  /\ owner' = [owner EXCEPT ![MyStore(r)] = r]
  /\ UNCHANGED <<reply, result, imports, token>>
  /\ UNCHANGED callVars /\ UNCHANGED clientVars /\ UNCHANGED serverVars

\* The store, then the instance, which belongs to the store.
LockStore(r) ==
  /\ taskPc[r] = "locking" /\ owner[MyStore(r)] = None
  /\ Goto(r, "wasm")
  /\ owner' = [owner EXCEPT ![MyStore(r)] = r]
  /\ UNCHANGED <<reply, result, imports, token>>
  /\ UNCHANGED callVars /\ UNCHANGED clientVars /\ UNCHANGED serverVars

\* Mutant: a retry sends the message once more.
MutSendTwice(r) ==
  /\ taskPc[r] = "wasm" /\ imports[r] < MaxImports
  /\ imports' = [imports EXCEPT ![r] = @ + 1]
  /\ token' = [token EXCEPT ![r] = "none"]
  /\ Goto(r, "checking")
  /\ mailbox' = [mailbox EXCEPT ![to[r]] =
                   @ \o <<Msg("invoke_callback", r), Msg("invoke_callback", r)>>]
  /\ UNCHANGED <<reply, serverPc, serving, result, owner>>
  /\ UNCHANGED callVars /\ UNCHANGED clientVars

\* call_elixir_import: a fresh token, and a message whose error is ignored.
CallImport(r) ==
  /\ taskPc[r] = "wasm" /\ imports[r] < MaxImports
  /\ imports' = [imports EXCEPT ![r] = @ + 1]
  /\ token' = [token EXCEPT ![r] = "none"]
  /\ Goto(r, "checking")
  /\ mailbox' = IF Alive(to[r])
                  THEN [mailbox EXCEPT ![to[r]] = Append(@, Msg("invoke_callback", r))]
                  ELSE mailbox
  /\ UNCHANGED <<reply, serverPc, serving, result, owner>>
  /\ UNCHANGED callVars /\ UNCHANGED clientVars

\* `while result.is_none() { wait }`.
Wait(r) ==
  /\ taskPc[r] = "checking" /\ token[r] = "none"
  /\ Goto(r, "asleep")
  /\ UNCHANGED <<reply, result, imports, token, owner>>
  /\ UNCHANGED callVars /\ UNCHANGED clientVars /\ UNCHANGED serverVars

\* Mutant: `if` instead of `while`.
MutWakeSpuriously(r) ==
  /\ taskPc[r] = "checking"
  /\ Goto(r, "wasm")
  /\ UNCHANGED <<reply, result, imports, token, owner>>
  /\ UNCHANGED callVars /\ UNCHANGED clientVars /\ UNCHANGED serverVars

ResumeWasm(r) ==
  /\ taskPc[r] = "checking" /\ token[r] = "ok"
  /\ Goto(r, "wasm")
  /\ UNCHANGED <<reply, result, imports, token, owner>>
  /\ UNCHANGED callVars /\ UNCHANGED clientVars /\ UNCHANGED serverVars

\* Mutant: the guard of the store is kept.
MutKeepStore(r, res) ==
  /\ taskPc[r] = "wasm"
  /\ Goto(r, "replying")
  /\ result' = [result EXCEPT ![r] = res]
  /\ UNCHANGED <<reply, imports, token, owner>>
  /\ UNCHANGED callVars /\ UNCHANGED clientVars /\ UNCHANGED serverVars

\* The function returns, traps, is not found, or its parameters do not convert.
FinishCall(r, res) ==
  /\ taskPc[r] = "wasm"
  /\ Goto(r, "replying")
  /\ result' = [result EXCEPT ![r] = res]
  /\ owner' = [owner EXCEPT ![MyStore(r)] = None]
  /\ UNCHANGED <<reply, imports, token>>
  /\ UNCHANGED callVars /\ UNCHANGED clientVars /\ UNCHANGED serverVars

SendReply(r) ==
  /\ taskPc[r] = "replying"
  /\ Goto(r, "done")
  /\ reply' = [reply EXCEPT ![r] = result[r]]
  /\ UNCHANGED <<result, imports, token, owner>>
  /\ UNCHANGED callVars /\ UNCHANGED clientVars /\ UNCHANGED serverVars

-----------------------------------------------------------------------------

ClientNext(c) ==
  \/ \E s \in Servers, r \in Refs : Request(c, s, r)
  \/ ReceiveReply(c) \/ GiveUp(c)

ServerNext(s) ==
  \/ Instantiate(s) \/ HandleCallFunction(s) \/ HandleInvokeCallback(s)
  \/ \E u \in Servers, r \in Refs : CallServer(s, u, r)
  \/ ReceiveServerReply(s) \/ CallbackReturn(s) \/ CallbackCrash(s)
  \/ CallbackExit(s)

TaskNext(r) ==
  \/ Start(r) \/ LockStore(r) \/ CallImport(r) \/ Wait(r) \/ ResumeWasm(r)
  \/ \E res \in {"ok", "error"} : FinishCall(r, res)
  \/ SendReply(r)

Next ==
  \/ \E c \in Clients : ClientNext(c)
  \/ \E s \in Servers : ServerNext(s) \/ Stop(s)
  \/ \E r \in Refs : TaskNext(r)

\* As in WasmexCalls; a client that can be told that the server is gone is.
Fairness ==
  /\ \A c \in Clients :
       WF_vars(ReceiveReply(c)) /\ WF_vars(Unanswerable(c) /\ GiveUp(c))
  /\ \A s \in Servers : WF_vars(ServerNext(s))
  /\ \A r \in Refs : WF_vars(TaskNext(r))

Spec     == Init /\ [][Next]_vars
FairSpec == Spec /\ Fairness

-----------------------------------------------------------------------------
(* Safety.                                                                  *)

Messages == [kind : {"call", "invoke_callback"}, ref : Refs]

\* Types of the variables.
TypeOK ==
  /\ from \in [Refs -> Processes \cup {None}]
  /\ to \in [Refs -> Servers \cup {None}]
  /\ waits \in [Processes -> Refs \cup {None}]
  /\ outcome \in [Refs -> {"none", "ok", "error", "timeout", "down"}]
  /\ reply \in [Refs -> {"none", "ok", "error"}]
  /\ mailbox \in [Servers -> Seq(Messages)]
  /\ serverPc \in [Servers -> {"starting", "idle", "callback", "calling", "dead"}]
  /\ serving \in [Servers -> Refs \cup {None}]
  /\ taskPc \in [Refs -> OnWorker \cup {"new", "queued", "done"}]
  /\ result \in [Refs -> {"none", "ok", "error"}]
  /\ imports \in [Refs -> 0..MaxImports]
  /\ token \in [Refs -> {"none", "ok"}]
  /\ owner \in [Stores -> Refs \cup {None}]

Pending(r) == taskPc[r] \in Parked /\ token[r] = "none"

\* The servers' copies of the callback of r: queued, or being run.
Deliveries(r) ==
  {i \in DOMAIN mailbox[to[r]] : mailbox[to[r]][i] = Msg("invoke_callback", r)}
  \cup {0 : s \in {u \in Servers : Alive(u) /\ serving[u] = r}}

\* The callback of a parked call is with its server exactly once, queued or
\* running, as long as that server lives: it is neither lost nor run twice
\* (component_instance.rs:136-150, components.ex:278-294).
CallbackDeliveredOnce ==
  \A r \in Refs : Pending(r) /\ Alive(to[r]) => Cardinality(Deliveries(r)) = 1

\* A call that was answered left nothing behind: no callback of it is queued or
\* running, and its store is free for others (component_instance.rs:147-160,
\* 239-241, 223-225).
AnsweredCallIsGone ==
  \A r \in Refs : outcome[r] \in {"ok", "error"} =>
    Deliveries(r) = {} /\ owner[MyStore(r)] # r

SerialPhase(pc) ==
  CASE pc = "new" -> "fresh"
    [] pc \in {"queued", "locking"} -> "asked"
    [] pc \in InStore -> "open"
    [] pc = "replying" -> "closed"
    [] pc = "done" -> "delivered"

AnyStore == CHOOSE st \in Stores : TRUE

Serial == INSTANCE SerialStore WITH
  Calls <- Refs,
  parent <- [r \in Refs |-> None],
  phase <- [r \in Refs |-> IF to[r] # None /\ MyStore(r) = AnyStore
                             THEN SerialPhase(taskPc[r]) ELSE "fresh"],
  stack <- IF owner[AnyStore] = None THEN <<>> ELSE <<owner[AnyStore]>>

\* A store runs the calls of all its servers one after the other, and every
\* call is delivered at most once (component_instance.rs:239-241).
ImplementsSerialStore == Serial!Spec

-----------------------------------------------------------------------------
(* Liveness.                                                                *)

\* A call that waits for a callback nobody will run keeps the store for ever,
\* and with it the stores of the callbacks that wait for a call on that store.
Lost(st) == \E r \in Refs : Pending(r) /\ ~Alive(to[r]) /\ MyStore(r) = st

Unusable(st) ==
  \/ Lost(st)
  \/ \E s \in Servers : StoreOf[s] = st /\ serverPc[s] = "calling" /\ Lost(MyStore(waits[s]))

\* Component servers whose callbacks call one another without a cycle, with
\* workers to spare: every GenServer.call, those made from within callbacks
\* included, is answered or told that its server is gone, unless a server died
\* in a callback on the store it needs.  A death elsewhere does no harm
\* (component_instance.rs:136-150, 240, components.ex:252-254, 290).
AnsweredUnlessStoreLost ==
  \A p \in Processes, r \in Refs :
    waits[p] = r ~> waits[p] # r \/ Unusable(MyStore(r))

\* A server that starts on a shared store waits for the call that runs in it,
\* not for ever unless the store is lost (component_instance.rs:60).
StartsUnlessStoreLost ==
  \A s \in Servers :
    serverPc[s] = "starting" ~> serverPc[s] # "starting" \/ Unusable(StoreOf[s])
=============================================================================
