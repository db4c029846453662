------------------------------- MODULE HostNifs -------------------------------
(***************************************************************************)
(* The NIFs that run on the process that calls them: instance_new with the *)
(* modules it links, the queries of modules and instances, memory and      *)
(* fuel.  Each is a sequence of mutexes taken in the order of the code,    *)
(* what is done with them, and their release on every way out.             *)
(*                                                                         *)
(* A NIF reaches a store by the resource of the store, or by a `caller`:   *)
(* the token of a Caller that is valid while a call of the store is parked *)
(* at an imported function.  Using a token that is not in the caller map   *)
(* panics (store.rs: get_caller(token).unwrap()), and so do other things:  *)
(* every panic poisons the mutexes that are held.  The mutex of an         *)
(* instance is not modelled: every NIF copies the handle out of it and     *)
(* holds nothing else meanwhile.  Nor are nested calls, which hold the     *)
(* mutex of their caller (WasmexCalls has them).                           *)
(***************************************************************************)
EXTENDS LinkOrder

CONSTANTS
  Procs,       \* Elixir processes, each calls one NIF at a time
  Stores, Callers, Memories,   \* resources, each with its mutex, as Modules
  StoreOf,     \* the store a caller belongs to
  ServerOf,    \* the process that runs the callback a caller is made for
  Requests,    \* what instance_new may be asked: a main module, linked modules
  StartCallsHost, \* modules whose start function calls an imported function
  Limit,       \* `instances` of the limits of every store
  Nifs         \* how many NIFs a process calls

Locks == Modules \cup Stores \cup Callers \cup Memories

ASSUME Disjoint ==
  /\ Modules \cap (Stores \cup Callers \cup Memories) = {}
  /\ Stores \cap (Callers \cup Memories) = {}
  /\ Callers \cap Memories = {}
ASSUME StoreOfType  == StoreOf \in [Callers -> Stores]
ASSUME ServerOfType == ServerOf \in [Callers -> Procs]
ASSUME RequestType  == Requests \subseteq [main : Modules, links : Seq(Links)]
ASSUME NonEmpty ==
  Modules # {} /\ Stores # {} /\ Memories # {}
ASSUME LimitType    == Limit \in Nat /\ Nifs \in Nat

VARIABLES
  pc,          \* where each process is: the mutex it waits for, or what it does
  job,         \* the NIF it runs and its arguments
  linker,      \* names defined in the Linker of its instance_new
  held,        \* mutexes it holds
  result,      \* of its last NIF
  caller,      \* a caller's call: "new", "running", parked and its token
               \* "valid", "resumed", or ended: "stale", and "over" without a token
  poisoned,    \* mutexes that were held by a panic
  instances,   \* instances in each store, as its limiter counts them
  left         \* NIFs each process may still call

vars == <<pc, job, linker, held, result, caller, poisoned, instances, left>>

Kinds == {"new", "module", "store", "memory", "grow"}
Jobs  == [kind : Kinds, module : Modules, soc : Stores \cup Callers,
          memory : Memories, links : Seq(Links)]

Store(soc) == IF soc \in Callers THEN StoreOf[soc] ELSE soc
IsStale(soc) == soc \in Callers /\ caller[soc] # "valid"

\* The task of a call holds its store from the start to the end of the call.
InCall(l) == \E c \in Callers :
  caller[c] \in {"running", "valid", "resumed"} /\ StoreOf[c] = l
Free(l)   == (\A p \in Procs : l \notin held[p]) /\ ~InCall(l)

NoJob == [kind |-> "store", module |-> CHOOSE m \in Modules : TRUE,
          soc |-> CHOOSE s \in Stores : TRUE, memory |-> CHOOSE m \in Memories : TRUE,
          links |-> <<>>]

Init ==
  /\ pc = [p \in Procs |-> "idle"]
  /\ job = [p \in Procs |-> NoJob]
  /\ linker = [p \in Procs |-> {}]
  /\ held = [p \in Procs |-> {}]
  /\ result = [p \in Procs |-> "none"]
  /\ caller = [c \in Callers |-> "new"]
  /\ poisoned = {}
  /\ instances = [s \in Stores |-> 0]
  /\ left = [p \in Procs |-> Nifs]

-----------------------------------------------------------------------------
(* A process calls a NIF.                                                   *)

\* A process may keep a token after its callback.
Known == Stores \cup {c \in Callers : caller[c] \in {"valid", "resumed", "stale"}}

Begin(p, j, lock) ==
  /\ pc[p] = "idle" /\ left[p] > 0
  /\ left' = [left EXCEPT ![p] = @ - 1]
  /\ job' = [job EXCEPT ![p] = j]
  /\ pc' = [pc EXCEPT ![p] = lock]
  /\ result' = [result EXCEPT ![p] = "none"]
  /\ UNCHANGED <<linker, held, caller, poisoned, instances>>

\* instance_new
New(p) == \E r \in Requests, soc \in Known :
  Begin(p, [NoJob EXCEPT !.kind = "new", !.module = r.main, !.links = r.links, !.soc = soc], "module")

\* module_name, module_imports, module_exports, module_serialize
QueryModule(p) == \E m \in Modules :
  Begin(p, [NoJob EXCEPT !.kind = "module", !.module = m], "module")

\* module_compile, instance_get_global_value, instance_set_global_value,
\* instance_function_export_exists, memory_from_instance
UseStore(p) == \E soc \in Known : Begin(p, [NoJob EXCEPT !.soc = soc], "store")

\* memory_size, memory_grow, memory_get_byte, memory_set_byte,
\* memory_read_binary, memory_write_binary
UseMemory(p) == \E soc \in Known, m \in Memories, kind \in {"memory", "grow"} :
  Begin(p, [NoJob EXCEPT !.kind = kind, !.soc = soc, !.memory = m], "store")

\* store_or_caller_set_fuel, store_or_caller_get_fuel: the only NIFs that never
\* wait, and that report a token that is not valid.
Fuel(p) == \E soc \in Known :
  /\ pc[p] = "idle" /\ left[p] > 0
  /\ left' = [left EXCEPT ![p] = @ - 1]
  /\ result' = [result EXCEPT ![p] =
       IF Free(soc) /\ soc \notin poisoned /\ ~IsStale(soc) THEN "ok" ELSE "error"]
  /\ UNCHANGED <<pc, job, linker, held, caller, poisoned, instances>>

-----------------------------------------------------------------------------
(* The ways out of a NIF: every guard is dropped.                           *)

Finish(p, r) ==
  /\ pc' = [pc EXCEPT ![p] = "idle"]
  /\ held' = [held EXCEPT ![p] = {}]
  /\ result' = [result EXCEPT ![p] = r]
  /\ job' = [job EXCEPT ![p] = NoJob]
  /\ linker' = [linker EXCEPT ![p] = {}]

Panic(p) == Finish(p, "panic") /\ poisoned' = poisoned \cup held[p]

-----------------------------------------------------------------------------
(* Taking mutexes.                                                          *)

Take(p, lock, next) ==
  /\ Free(lock)
  /\ \/ /\ lock \in poisoned
        /\ Finish(p, "error")
     \/ /\ lock \notin poisoned
        /\ held' = [held EXCEPT ![p] = @ \cup {lock}]
        /\ pc' = [pc EXCEPT ![p] = next]
        /\ UNCHANGED <<job, linker, result>>
  /\ UNCHANGED <<caller, poisoned, instances, left>>

LockModule(p) ==
  /\ pc[p] = "module"
  /\ Take(p, job[p].module, IF job[p].kind = "new" THEN "store" ELSE "query")

LockStore(p) ==
  /\ pc[p] = "store"
  /\ Take(p, job[p].soc, CASE job[p].kind = "new"              -> "linker"
                           [] job[p].kind \in {"memory", "grow"} -> "memory"
                           [] OTHER                            -> "query")

\* Mutant: the store is locked again by what is done with the memory.
MutLockMemory(p) == pc[p] = "memory" /\ Take(p, job[p].memory, "store")

LockMemory(p) == pc[p] = "memory" /\ Take(p, job[p].memory, "query")

LockLink(p) ==
  /\ pc[p] = "links" /\ job[p].links # <<>>
  /\ Take(p, Head(job[p].links).module, "link")

-----------------------------------------------------------------------------
(* What a NIF does with the mutexes it holds.                               *)

\* What is done with a store panics on a token that is not valid, on an instance
\* or a memory of another store, and on a length to read that is not checked
\* (memory_read_binary).  memory_grow of a caller is an error before all that.
Query(p) ==
  /\ pc[p] = "query"
  /\ \/ /\ job[p].kind \in {"store", "memory"} \/ (job[p].kind = "grow" /\ job[p].soc \in Stores)
        /\ Panic(p)
     \/ Finish(p, "error") /\ UNCHANGED poisoned
     \/ /\ \/ job[p].kind = "module" \/ job[p].soc \in Stores
           \/ job[p].kind # "grow" /\ ~IsStale(job[p].soc)
        /\ Finish(p, "ok")
        /\ UNCHANGED poisoned
  /\ UNCHANGED <<caller, instances, left>>

\* Linker::new and link_imports.
LinkImports(p) ==
  /\ pc[p] = "linker"
  /\ \/ IsStale(job[p].soc) /\ Panic(p)
     \/ /\ ~IsStale(job[p].soc)
        /\ \/ Finish(p, "error")
           \/ pc' = [pc EXCEPT ![p] = "links"] /\ UNCHANGED <<job, linker, held, result>>
        /\ UNCHANGED poisoned
  /\ UNCHANGED <<caller, instances, left>>

\* linker.instantiate or linker.instance fails: nothing is defined under a name,
\* an import has another type or the limit of the store is reached, which is not
\* counted; or a trap of the start function or a name linked twice, which is.
InstantiateFails(p, module) ==
  LET s == Store(job[p].soc) IN
  /\ \/ IsStale(job[p].soc) /\ Panic(p) /\ UNCHANGED instances
     \/ /\ ~IsStale(job[p].soc)
        /\ \/ ~(Imports[module] \subseteq linker[p]) /\ Finish(p, "unknown import")
              /\ UNCHANGED instances
           \/ /\ Imports[module] \subseteq linker[p]
              /\ Finish(p, "error")
              /\ \/ UNCHANGED instances
                 \/ instances[s] < Limit /\ instances' = [instances EXCEPT ![s] = @ + 1]
        /\ UNCHANGED poisoned
  /\ UNCHANGED <<caller, left>>

\* Mutant: the limits were never given to the store.
MutInstantiates(p, module) ==
  /\ ~IsStale(job[p].soc)
  /\ Imports[module] \subseteq linker[p]
  /\ instances' = [instances EXCEPT ![Store(job[p].soc)] = @ + 1]
  /\ UNCHANGED <<caller, left>>

Instantiates(p, module) ==
  LET s == Store(job[p].soc) IN
  /\ ~IsStale(job[p].soc)
  /\ Imports[module] \subseteq linker[p]
  /\ instances[s] < Limit
  /\ instances' = [instances EXCEPT ![s] = @ + 1]
  /\ UNCHANGED <<caller, left>>

\* The wrapper of an imported function sends its callback with send_and_clear,
\* which panics on a thread of the BEAM, as the one of this NIF is.
StartPanics(p, module) ==
  /\ module \in StartCallsHost
  /\ Instantiates(p, module)
  /\ Panic(p)

LinkedTo(p, link) ==
  /\ link.module \notin StartCallsHost
  /\ Instantiates(p, link.module)
  /\ linker' = [linker EXCEPT ![p] = @ \cup {link.name}]
  /\ job' = [job EXCEPT ![p].links = Tail(@)]
  /\ held' = [held EXCEPT ![p] = @ \ {link.module}]
  /\ pc' = [pc EXCEPT ![p] = "links"]
  /\ UNCHANGED <<result, poisoned>>

\* Mutant: the guard of the linked module is forgotten when linking fails.
MutLeakLink(p) ==
  /\ pc[p] = "link"
  /\ LET link == Head(job[p].links) IN
     \/ /\ ~IsStale(job[p].soc)
        /\ pc' = [pc EXCEPT ![p] = "idle"]
        /\ held' = [held EXCEPT ![p] = {link.module}]
        /\ result' = [result EXCEPT ![p] = "error"]
        /\ UNCHANGED <<job, linker, caller, poisoned, instances, left>>
     \/ LinkedTo(p, link)

\* One turn of link_modules.  What was instantiated before stays in the store
\* when a later module fails.
LinkModule(p) ==
  /\ pc[p] = "link"
  /\ LET link == Head(job[p].links) IN
       InstantiateFails(p, link.module) \/ StartPanics(p, link.module) \/ LinkedTo(p, link)

CreateInstance(p) ==
  /\ pc[p] = "links" /\ job[p].links = <<>>
  /\ \/ InstantiateFails(p, job[p].module)
     \/ StartPanics(p, job[p].module)
     \/ /\ job[p].module \notin StartCallsHost
        /\ Instantiates(p, job[p].module)
        /\ Finish(p, "ok")
        /\ UNCHANGED poisoned

-----------------------------------------------------------------------------
(* Calls of exported functions, run by other threads: each takes its store, *)
(* calls an imported function at most once, which makes a caller valid, and *)
(* ends.                                                                    *)

\* Mutant: the guard is taken out of the error of a poisoned mutex.
MutStartCall(c) ==
  /\ caller[c] = "new"
  /\ Free(StoreOf[c])
  /\ caller' = [caller EXCEPT ![c] = "running"]
  /\ UNCHANGED <<pc, job, linker, held, result, poisoned, instances, left>>

StartCall(c) ==
  /\ caller[c] = "new"
  /\ Free(StoreOf[c]) /\ StoreOf[c] \notin poisoned
  /\ caller' = [caller EXCEPT ![c] = "running"]
  /\ UNCHANGED <<pc, job, linker, held, result, poisoned, instances, left>>

Park(c) ==
  /\ caller[c] = "running"
  /\ caller' = [caller EXCEPT ![c] = "valid"]
  /\ UNCHANGED <<pc, job, linker, held, result, poisoned, instances, left>>

\* The server runs the callback and hands in its result between two NIFs of
\* its own; the wrapper takes the Caller out of the map.
Resume(c) ==
  /\ caller[c] = "valid"
  /\ pc[ServerOf[c]] = "idle"
  /\ caller' = [caller EXCEPT ![c] = "resumed"]
  /\ UNCHANGED <<pc, job, linker, held, result, poisoned, instances, left>>

\* A call panics on an instance of another store, or when it calls an imported
\* function of a process that is gone.
EndCall(c) ==
  /\ caller[c] \in {"running", "resumed"}
  /\ caller' = [caller EXCEPT ![c] = IF @ = "running" THEN "over" ELSE "stale"]
  /\ UNCHANGED poisoned \/ poisoned' = poisoned \cup {StoreOf[c]}
  /\ UNCHANGED <<pc, job, linker, held, result, instances, left>>

-----------------------------------------------------------------------------

Call(p) == New(p) \/ QueryModule(p) \/ UseStore(p) \/ UseMemory(p) \/ Fuel(p)

Run(p) ==
  \/ LockModule(p) \/ LockStore(p) \/ LockMemory(p) \/ LockLink(p)
  \/ Query(p) \/ LinkImports(p) \/ LinkModule(p) \/ CreateInstance(p)

Next ==
  \/ \E p \in Procs : Call(p) \/ Run(p)
  \/ \E c \in Callers : StartCall(c) \/ Park(c) \/ Resume(c) \/ EndCall(c)

Spec == Init /\ [][Next]_vars

\* A scheduler runs every process that can go on, Wasm functions end or call an
\* import, and a server that is not in a NIF comes to the callback it was sent.
\* Nothing makes a process call a NIF or a function.
FairSpec ==
  /\ Spec
  /\ \A p \in Procs : WF_vars(Run(p))
  /\ \A c \in Callers : WF_vars(Park(c) \/ EndCall(c)) /\ WF_vars(Resume(c))

-----------------------------------------------------------------------------
(* Properties.                                                              *)

Waiting(p) == pc[p] \in {"module", "store", "memory"} \/ (pc[p] = "links" /\ job[p].links # <<>>)
Wanted(p) ==
  CASE pc[p] = "module" -> job[p].module
    [] pc[p] = "store"  -> job[p].soc
    [] pc[p] = "memory" -> job[p].memory
    [] OTHER            -> Head(job[p].links).module

\* A call keeps the mutex until its server q has run the callback.
Awaits(l, q) == \E c \in Callers : caller[c] = "valid" /\ StoreOf[c] = l /\ ServerOf[c] = q

\* Processes that all wait, each for a mutex that is not given back before
\* another one of them goes on.
Circle(W) ==
  \A p \in W : Waiting(p) /\ \E q \in W : Wanted(p) \in held[q] \/ Awaits(Wanted(p), q)

\* Type invariant.
TypeOK ==
  /\ pc \in [Procs -> {"idle", "module", "store", "memory", "linker", "links", "link", "query"}]
  /\ job \in [Procs -> Jobs]
  /\ linker \in [Procs -> SUBSET Names]
  /\ held \in [Procs -> SUBSET Locks]
  /\ result \in [Procs -> {"none", "ok", "error", "unknown import", "panic"}]
  /\ caller \in [Callers -> {"new", "running", "valid", "resumed", "stale", "over"}]
  /\ poisoned \subseteq Locks
  /\ instances \in [Stores -> 0..Limit]
  /\ left \in [Procs -> 0..Nifs]

\* Processes wait for each other in a circle only when a module one of them
\* instantiates is a module another one links (instance.rs:50 holds the main
\* module while environment.rs:35 waits for the linked ones), or when the server
\* of a parked call waits for the store of that call or for who does
\* (environment.rs:226): the order module, store, linked module, memory excludes
\* every other circle.
NoWaitCycle ==
  \A W \in (SUBSET Procs) \ {{}} : Circle(W) =>
    \/ \E p, q \in W : pc[p] = "links" /\ job[q].kind = "new" /\ Wanted(p) = job[q].module
    \/ \E p, q \in W : pc[p] = "store" /\ Awaits(Wanted(p), q)

\* How far a panic spreads: it always takes the mutex of the store or of the
\* token with it (instance.rs:55, memory.rs:150); a module is only lost together
\* with a token whose call went on, or when a start function of a counted
\* instance called the host (environment.rs:165); and no call runs, and no token
\* is valid, in a store that is poisoned: what a panic left half-done in it is
\* never seen again.
PoisonSpread ==
  /\ poisoned # {} => poisoned \cap (Stores \cup Callers) # {}
  /\ poisoned \cap Modules # {} =>
       \E soc \in poisoned \cap (Stores \cup Callers) :
         IsStale(soc) \/ (StartCallsHost # {} /\ instances[Store(soc)] > 0)
  /\ \A s \in poisoned \cap Stores : ~InCall(s)

\* When every link lists the links of its own, the order of start_link
\* (wasmex.ex:248-254) has every module instantiated after what it imports.
NoUnknownImport == \A p \in Procs : result[p] # "unknown import"

\* Every NIF ends, whatever fails or panics in it and in the others (each way out
\* of instance_new gives its mutexes back), but for the circles of NoWaitCycle
\* and for the NIFs that wait for one of their processes.
NifsEnd ==
  \A p \in Procs :
    pc[p] # "idle" ~> pc[p] = "idle" \/ \E W \in SUBSET Procs : p \in W /\ Circle(W)
=============================================================================
