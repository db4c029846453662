---------------------------- MODULE HostNifsProofs ----------------------------
(***************************************************************************)
(* Theorems about HostNifs, for any number of processes, modules, stores,  *)
(* callers and memories, and whatever is linked to what.                   *)
(***************************************************************************)
EXTENDS HostNifs, SequenceTheorems, TLAPS

HasToken == {"valid", "resumed", "stale"}
InStore  == {"running", "valid", "resumed"}

\* Where a process is says which mutexes it holds: the order of the code.
At(p) ==
  LET j == job[p] IN
  /\ pc[p] \in {"idle", "module"} => held[p] = {}
  /\ pc[p] = "module" => j.kind \in {"new", "module"}
  /\ pc[p] = "store" => j.kind # "module" /\ held[p] = IF j.kind = "new" THEN {j.module} ELSE {}
  /\ pc[p] = "memory" => j.kind \in {"memory", "grow"} /\ held[p] = {j.soc}
  /\ pc[p] \in {"linker", "links"} => j.kind = "new" /\ held[p] = {j.module, j.soc}
  /\ pc[p] = "link" => /\ j.kind = "new" /\ j.links # <<>>
                       /\ Head(j.links).module # j.module
                       /\ held[p] = {j.module, j.soc, Head(j.links).module}
  /\ pc[p] = "query" => held[p] = CASE j.kind = "module" -> {j.module}
                                    [] j.kind = "store"  -> {j.soc}
                                    [] OTHER             -> {j.soc, j.memory}
  /\ pc[p] = "query" => j.kind # "new"
  /\ j.soc \in Callers => caller[j.soc] \in HasToken

\* A mutex has one holder, and while a NIF holds a store no call runs in it.
Exclusive ==
  \A p \in Procs : \A l \in held[p] : ~InCall(l) /\ \A q \in Procs \ {p} : l \notin held[q]

\* A store runs one call at a time.
OneCall ==
  \A c, d \in Callers :
    caller[c] \in InStore /\ caller[d] \in InStore /\ StoreOf[c] = StoreOf[d] => c = d

PoisonedTokens == \A c \in poisoned \cap Callers : caller[c] \in HasToken

IInv ==
  TypeOK /\ (\A p \in Procs : At(p)) /\ Exclusive /\ OneCall /\ PoisonedTokens /\ PoisonSpread

-----------------------------------------------------------------------------
(* Types.                                                                   *)

\* The job of an idle process is a job.
LEMMA NoJobType == NoJob \in Jobs /\ NoJob.soc \in Stores
BY NonEmpty DEF NoJob, Jobs, Kinds

\* The fields of a job have their types.
LEMMA JobType ==
  ASSUME TypeOK, NEW p \in Procs
  PROVE  /\ job[p].kind \in Kinds
         /\ job[p].module \in Modules /\ job[p].module \in Locks
         /\ job[p].soc \in Stores \cup Callers /\ job[p].soc \in Locks
         /\ job[p].memory \in Memories /\ job[p].memory \in Locks
         /\ job[p].links \in Seq(Links)
         /\ job[p].links # <<>> => /\ Head(job[p].links) \in Links
                                   /\ Head(job[p].links).module \in Modules
                                   /\ Head(job[p].links).module \in Locks
                                   /\ Tail(job[p].links) \in Seq(Links)
<1> DEFINE s == job[p].links
<1>1. job[p] \in Jobs
  BY DEF TypeOK
<1>2. /\ s \in Seq(Links) /\ job[p].module \in Modules /\ job[p].kind \in Kinds
      /\ job[p].soc \in Stores \cup Callers /\ job[p].memory \in Memories
  BY <1>1 DEF Jobs
<1>3. s # <<>> => Head(s) \in Links /\ Tail(s) \in Seq(Links)
  BY <1>2, HeadTailProperties
<1>4. s # <<>> => Head(s).module \in Modules
  BY <1>3 DEF Links
<1> QED
  BY <1>2, <1>3, <1>4 DEF Locks

\* A caller has a store.
LEMMA StoreType ==
  ASSUME NEW soc \in Stores \cup Callers PROVE Store(soc) \in Stores
BY StoreOfType DEF Store

\* The variables a NIF changes when it ends keep their types.
LEMMA FinishType ==
  ASSUME TypeOK, NEW p \in Procs, NEW r \in {"ok", "error", "unknown import", "panic"}, Finish(p, r)
  PROVE  /\ pc' \in [Procs -> {"idle", "module", "store", "memory", "linker", "links", "link",
                               "query"}]
         /\ job' \in [Procs -> Jobs] /\ linker' \in [Procs -> SUBSET Names]
         /\ held' \in [Procs -> SUBSET Locks]
         /\ result' \in [Procs -> {"none", "ok", "error", "unknown import", "panic"}]
BY NoJobType DEF TypeOK, Finish

\* A process has a NIF less to call.
LEMMA LeftType ==
  ASSUME TypeOK, NEW p \in Procs, left[p] > 0, left' = [left EXCEPT ![p] = @ - 1]
  PROVE  left' \in [Procs -> 0..Nifs]
<1>1. left \in [Procs -> 0..Nifs] /\ left[p] \in 0..Nifs
  BY DEF TypeOK
<1>2. left[p] - 1 \in 0..Nifs
  BY <1>1, LimitType
<1> QED
  BY <1>1, <1>2

\* Calling a NIF keeps the types.
LEMMA BeginType ==
  ASSUME TypeOK, NEW p \in Procs, NEW j \in Jobs, NEW lock \in {"module", "store"},
         Begin(p, j, lock)
  PROVE  TypeOK'
<1>1. left' \in [Procs -> 0..Nifs]
  BY LeftType DEF Begin
<1>2. job' \in [Procs -> Jobs]
  BY DEF Begin, TypeOK
<1> QED
  BY <1>1, <1>2 DEF Begin, TypeOK

\* Taking a mutex keeps the types.
LEMMA TakeType ==
  ASSUME TypeOK, NEW p \in Procs, NEW lock \in Locks,
         NEW next \in {"store", "memory", "linker", "link", "query"}, Take(p, lock, next)
  PROVE  TypeOK'
<1>1. CASE Finish(p, "error")
  BY <1>1, FinishType DEF TypeOK, Take
<1>2. CASE /\ held' = [held EXCEPT ![p] = @ \cup {lock}]
           /\ pc' = [pc EXCEPT ![p] = next]
           /\ UNCHANGED <<job, linker, result>>
  BY <1>2 DEF TypeOK, Take
<1> QED
  BY <1>1, <1>2 DEF Take

\* One instance more keeps the limit of its store.
LEMMA OneMore ==
  ASSUME TypeOK, NEW s \in Stores, instances[s] < Limit,
         instances' = [instances EXCEPT ![s] = @ + 1]
  PROVE  instances' \in [Stores -> 0..Limit]
<1>1. instances \in [Stores -> 0..Limit] /\ instances[s] \in 0..Limit
  BY DEF TypeOK
<1>2. instances[s] + 1 \in 0..Limit
  BY <1>1, LimitType
<1> QED
  BY <1>1, <1>2

\* Instantiating a module keeps the types.
LEMMA InstantiatesType ==
  ASSUME TypeOK, NEW p \in Procs, NEW m \in Modules, Instantiates(p, m)
  PROVE  /\ instances' \in [Stores -> 0..Limit]
         /\ UNCHANGED <<caller, left>>
<1> DEFINE s == Store(job[p].soc)
<1>1. s \in Stores
  BY JobType, StoreType
<1>2. instances[s] < Limit /\ instances' = [instances EXCEPT ![s] = @ + 1]
  BY DEF Instantiates
<1>3. instances' \in [Stores -> 0..Limit]
  BY <1>1, <1>2, OneMore
<1> QED
  BY <1>3 DEF Instantiates

\* Failing to instantiate a module keeps the types.
LEMMA FailsType ==
  ASSUME TypeOK, NEW p \in Procs, NEW m \in Modules, InstantiateFails(p, m)
  PROVE  TypeOK'
<1> DEFINE s == Store(job[p].soc)
<1>1. s \in Stores
  BY JobType, StoreType
<1>2. PICK r \in {"ok", "error", "unknown import", "panic"} : Finish(p, r)
  BY DEF InstantiateFails, Panic
<1>3. poisoned' \subseteq Locks
  BY DEF InstantiateFails, Panic, TypeOK
<1>4. \/ instances' = instances
      \/ instances[s] < Limit /\ instances' = [instances EXCEPT ![s] = @ + 1]
  BY DEF InstantiateFails
<1>5. instances' \in [Stores -> 0..Limit]
  BY <1>1, <1>4, OneMore DEF TypeOK
<1>6. UNCHANGED <<caller, left>>
  BY DEF InstantiateFails
<1> QED
  BY <1>2, <1>3, <1>5, <1>6, FinishType DEF TypeOK

\* A start function that panics keeps the types.
LEMMA PanicsType ==
  ASSUME TypeOK, NEW p \in Procs, NEW m \in Modules, StartPanics(p, m)
  PROVE  TypeOK'
<1>1. instances' \in [Stores -> 0..Limit] /\ UNCHANGED <<caller, left>>
  BY InstantiatesType DEF StartPanics
<1>2. Finish(p, "panic") /\ poisoned' \subseteq Locks
  BY DEF StartPanics, Panic, TypeOK
<1> QED
  BY <1>1, <1>2, FinishType DEF TypeOK

\* Calling a NIF: the job has its type, the process waits for its first mutex.
LEMMA CallCases ==
  ASSUME NEW p \in Procs, Call(p)
  PROVE  \/ Fuel(p)
         \/ \E j \in Jobs, lock \in {"module", "store"} :
              /\ Begin(p, j, lock)
              /\ j.soc \in Known
              /\ lock = "module" => j.kind \in {"new", "module"}
              /\ lock = "store" => j.kind \in {"store", "memory", "grow"}
<1>1. CASE New(p)
  <2>1. PICK r \in Requests, soc \in Known :
          Begin(p, [NoJob EXCEPT !.kind = "new", !.module = r.main, !.links = r.links, !.soc = soc],
                "module")
    BY <1>1 DEF New
  <2> DEFINE j == [NoJob EXCEPT !.kind = "new", !.module = r.main, !.links = r.links, !.soc = soc]
  <2>2. r.main \in Modules /\ r.links \in Seq(Links)
    BY RequestType DEF Links
  <2>3. j \in Jobs /\ j.kind = "new" /\ j.soc = soc
    BY <2>2, NoJobType DEF Jobs, Kinds, Known
  <2> HIDE DEF j
  <2> QED
    BY <2>1, <2>3 DEF j
<1>2. CASE QueryModule(p)
  <2>1. PICK m \in Modules : Begin(p, [NoJob EXCEPT !.kind = "module", !.module = m], "module")
    BY <1>2 DEF QueryModule
  <2> DEFINE j == [NoJob EXCEPT !.kind = "module", !.module = m]
  <2>2. j \in Jobs /\ j.kind = "module" /\ j.soc = NoJob.soc
    BY NoJobType DEF Jobs, Kinds
  <2> HIDE DEF j
  <2> QED
    BY <2>1, <2>2, NoJobType DEF j, Known
<1>3. CASE UseStore(p)
  <2>1. PICK soc \in Known : Begin(p, [NoJob EXCEPT !.soc = soc], "store")
    BY <1>3 DEF UseStore
  <2> DEFINE j == [NoJob EXCEPT !.soc = soc]
  <2>2. j \in Jobs /\ j.kind = "store" /\ j.soc = soc
    BY NoJobType DEF Jobs, Kinds, Known, NoJob
  <2> HIDE DEF j
  <2> QED
    BY <2>1, <2>2 DEF j
<1>4. CASE UseMemory(p)
  <2>1. PICK soc \in Known, m \in Memories, kind \in {"memory", "grow"} :
          Begin(p, [NoJob EXCEPT !.kind = kind, !.soc = soc, !.memory = m], "store")
    BY <1>4 DEF UseMemory
  <2> DEFINE j == [NoJob EXCEPT !.kind = kind, !.soc = soc, !.memory = m]
  <2>2. j \in Jobs /\ j.kind \in {"memory", "grow"} /\ j.soc = soc
    BY NoJobType DEF Jobs, Kinds, Known
  <2> HIDE DEF j
  <2> QED
    BY <2>1, <2>2 DEF j
<1> QED
  BY <1>1, <1>2, <1>3, <1>4 DEF Call

\* Calling a NIF keeps the types.
LEMMA CallType == ASSUME TypeOK, NEW p \in Procs, Call(p) PROVE TypeOK'
<1>1. CASE Fuel(p)
  BY <1>1, LeftType DEF Fuel, TypeOK
<1> QED
  BY <1>1, CallCases, BeginType

\* Every step inside a NIF keeps the types.
LEMMA RunType == ASSUME TypeOK, NEW p \in Procs, At(p), Run(p) PROVE TypeOK'
<1>1. CASE LockModule(p)
  BY <1>1, JobType, TakeType DEF LockModule
<1>2. CASE LockStore(p)
  BY <1>2, JobType, TakeType DEF LockStore
<1>3. CASE LockMemory(p)
  BY <1>3, JobType, TakeType DEF LockMemory
<1>4. CASE LockLink(p)
  BY <1>4, JobType, TakeType DEF LockLink
<1>5. CASE Query(p)
  <2>1. PICK r \in {"ok", "error", "unknown import", "panic"} : Finish(p, r)
    BY <1>5 DEF Query, Panic
  <2>2. poisoned' \subseteq Locks
    BY <1>5 DEF Query, Panic, TypeOK
  <2>3. UNCHANGED <<caller, instances, left>>
    BY <1>5 DEF Query
  <2> QED
    BY <2>1, <2>2, <2>3, FinishType DEF TypeOK
<1>6. CASE LinkImports(p)
  <2>1. poisoned' \subseteq Locks
    BY <1>6 DEF LinkImports, Panic, TypeOK
  <2>2. UNCHANGED <<caller, instances, left>>
    BY <1>6 DEF LinkImports
  <2>3. CASE \E r \in {"ok", "error", "unknown import", "panic"} : Finish(p, r)
    BY <2>1, <2>2, <2>3, FinishType DEF TypeOK
  <2>4. CASE pc' = [pc EXCEPT ![p] = "links"] /\ UNCHANGED <<job, linker, held, result>>
    BY <2>1, <2>2, <2>4 DEF TypeOK
  <2> QED
    BY <1>6, <2>3, <2>4 DEF LinkImports, Panic
<1>7. CASE LinkModule(p)
  <2> DEFINE link == Head(job[p].links)
  <2>1. job[p].links # <<>>
    BY <1>7 DEF LinkModule, At
  <2>2. link \in Links /\ link.module \in Modules /\ Tail(job[p].links) \in Seq(Links)
    BY <2>1, JobType
  <2>3. CASE InstantiateFails(p, link.module) \/ StartPanics(p, link.module)
    BY <2>2, <2>3, FailsType, PanicsType
  <2>4. CASE /\ Instantiates(p, link.module)
             /\ linker' = [linker EXCEPT ![p] = @ \cup {link.name}]
             /\ job' = [job EXCEPT ![p].links = Tail(@)]
             /\ held' = [held EXCEPT ![p] = @ \ {link.module}]
             /\ pc' = [pc EXCEPT ![p] = "links"]
             /\ UNCHANGED <<result, poisoned>>
    <3>1. job' \in [Procs -> Jobs]
      BY <2>2, <2>4 DEF TypeOK, Jobs
    <3>2. linker' \in [Procs -> SUBSET Names]
      BY <2>2, <2>4 DEF TypeOK, Links
    <3>3. instances' \in [Stores -> 0..Limit] /\ UNCHANGED <<caller, left>>
      BY <2>2, <2>4, InstantiatesType
    <3> QED
      BY <2>4, <3>1, <3>2, <3>3 DEF TypeOK
  <2> QED
    BY <1>7, <2>3, <2>4 DEF LinkModule, LinkedTo
<1>8. CASE CreateInstance(p)
  <2>1. CASE InstantiateFails(p, job[p].module) \/ StartPanics(p, job[p].module)
    BY <2>1, JobType, FailsType, PanicsType
  <2>2. CASE Instantiates(p, job[p].module) /\ Finish(p, "ok") /\ UNCHANGED poisoned
    <3>1. instances' \in [Stores -> 0..Limit] /\ UNCHANGED <<caller, left>>
      BY <2>2, JobType, InstantiatesType
    <3> QED
      BY <2>2, <3>1, FinishType DEF TypeOK
  <2> QED
    BY <1>8, <2>1, <2>2 DEF CreateInstance
<1> QED
  BY <1>1, <1>2, <1>3, <1>4, <1>5, <1>6, <1>7, <1>8 DEF Run

-----------------------------------------------------------------------------
(* What one process does to the mutexes.                                    *)

\* What every step of a process leaves to the others.
Others(p) ==
  /\ caller' = caller
  /\ \A q \in Procs \ {p} : pc'[q] = pc[q] /\ job'[q] = job[q] /\ held'[q] = held[q]

\* The mutexes it holds afterwards: fewer, or one more that was free.
Takes(p) ==
  \/ held'[p] \subseteq held[p]
  \/ \E l \in Locks : Free(l) /\ held'[p] \subseteq held[p] \cup {l}

\* The mutexes it poisons: none, or all it holds, among them that of its store or
\* token; a module only when the token is not valid or a start function called the
\* host.
Poisons(p) ==
  \/ poisoned' = poisoned
  \/ /\ job[p].soc \in held[p]
     /\ poisoned' = poisoned \cup held[p]
     /\ \/ held[p] \cap Modules = {}
        \/ IsStale(job[p].soc)
        \/ StartCallsHost # {} /\ instances'[Store(job[p].soc)] > 0

Counts == \A s \in Stores : instances'[s] >= instances[s]

Effect(p) == Others(p) /\ Takes(p) /\ Poisons(p) /\ Counts /\ At(p)'

\* A limiter that does not count.
LEMMA CountsSame == ASSUME TypeOK, instances' = instances PROVE Counts
<1>1. \A s \in Stores : instances[s] \in 0..Limit
  BY DEF TypeOK
<1> QED
  BY <1>1, LimitType DEF Counts

\* A NIF that ends without a panic.
LEMMA FinishEffect ==
  ASSUME TypeOK, NEW p \in Procs, NEW r, Finish(p, r), UNCHANGED <<caller, poisoned>>, Counts
  PROVE  Effect(p)
<1>1. Others(p)
  BY DEF Finish, Others, TypeOK
<1>2. pc'[p] = "idle" /\ held'[p] = {} /\ job'[p] = NoJob
  BY DEF Finish, TypeOK
<1>3. NoJob.soc \notin Callers
  BY NoJobType, Disjoint
<1>4. At(p)'
  BY <1>2, <1>3 DEF At
<1> QED
  BY <1>1, <1>2, <1>4 DEF Effect, Takes, Poisons

\* A NIF that panics.
LEMMA PanicEffect ==
  ASSUME TypeOK, NEW p \in Procs, At(p), Panic(p), UNCHANGED caller, Counts,
         pc[p] \in {"query", "linker", "links", "link"},
         \/ pc[p] = "query" /\ job[p].kind # "module"
         \/ IsStale(job[p].soc)
         \/ StartCallsHost # {} /\ instances'[Store(job[p].soc)] > 0,
         pc[p] = "query" => job[p].kind # "module"
  PROVE  Effect(p)
<1>1. Others(p)
  BY DEF Panic, Finish, Others, TypeOK
<1>2. pc'[p] = "idle" /\ held'[p] = {} /\ job'[p] = NoJob
  BY DEF Panic, Finish, TypeOK
<1>3. NoJob.soc \notin Callers
  BY NoJobType, Disjoint
<1>4. At(p)'
  BY <1>2, <1>3 DEF At
<1>5. job[p].soc \in held[p]
  BY JobType DEF At, Kinds
<1>6. pc[p] = "query" => held[p] \subseteq {job[p].soc, job[p].memory}
  BY JobType DEF At, Kinds
<1>7. pc[p] = "query" => held[p] \cap Modules = {}
  BY <1>6, JobType, Disjoint
<1> QED
  BY <1>1, <1>2, <1>4, <1>5, <1>7 DEF Effect, Takes, Poisons, Panic

\* A NIF that takes a mutex.
LEMMA TakeEffect ==
  ASSUME TypeOK, NEW p \in Procs, NEW lock \in Locks, NEW next, Take(p, lock, next),
         /\ pc'[p] = next /\ job'[p] = job[p] /\ held'[p] = held[p] \cup {lock} /\ Free(lock)
            /\ caller' = caller => At(p)'
  PROVE  Effect(p)
<1>1. Free(lock) /\ UNCHANGED <<caller, poisoned, instances>>
  BY DEF Take
<1>a. Counts
  BY <1>1, CountsSame
<1>2. CASE Finish(p, "error")
  BY <1>1, <1>a, <1>2, FinishEffect
<1>3. CASE /\ held' = [held EXCEPT ![p] = @ \cup {lock}]
           /\ pc' = [pc EXCEPT ![p] = next]
           /\ UNCHANGED <<job, linker, result>>
  <2>1. Others(p)
    BY <1>1, <1>3 DEF Others, TypeOK
  <2>2. pc'[p] = next /\ job'[p] = job[p] /\ held'[p] = held[p] \cup {lock}
    BY <1>3 DEF TypeOK
  <2> QED
    BY <1>1, <1>a, <2>1, <2>2 DEF Effect, Takes, Poisons
<1> QED
  BY <1>2, <1>3 DEF Take

\* The limiter never counts down.
LEMMA MoreCounts ==
  ASSUME TypeOK, NEW s \in Stores, \/ instances' = instances
                                  \/ instances' = [instances EXCEPT ![s] = @ + 1]
  PROVE  Counts
<1>1. \A t \in Stores : instances[t] \in 0..Limit
  BY DEF TypeOK
<1>2. \A t \in Stores : instances'[t] = instances[t] \/ instances'[t] = instances[t] + 1
  BY DEF TypeOK
<1> QED
  BY <1>1, <1>2, LimitType DEF Counts

\* Failing to instantiate a module, main or linked.
LEMMA FailsEffect ==
  ASSUME TypeOK, NEW p \in Procs, At(p), NEW m, InstantiateFails(p, m),
         pc[p] \in {"links", "link"}
  PROVE  Effect(p)
<1>1. caller' = caller
  BY DEF InstantiateFails
<1>2. Store(job[p].soc) \in Stores
  BY JobType, StoreType
<1>3. Counts
  BY <1>2, MoreCounts DEF InstantiateFails
<1>4. CASE IsStale(job[p].soc) /\ Panic(p)
  BY <1>1, <1>3, <1>4, PanicEffect
<1>5. CASE poisoned' = poisoned /\ \E r : Finish(p, r)
  BY <1>1, <1>3, <1>5, FinishEffect
<1> QED
  BY <1>4, <1>5 DEF InstantiateFails

\* Instantiating a module counts it.
LEMMA InstantiatesCounts ==
  ASSUME TypeOK, NEW p \in Procs, NEW m, Instantiates(p, m)
  PROVE  caller' = caller /\ Counts /\ instances'[Store(job[p].soc)] > 0
<1> DEFINE s == Store(job[p].soc)
<1>1. s \in Stores
  BY JobType, StoreType
<1>2. caller' = caller /\ instances' = [instances EXCEPT ![s] = @ + 1]
  BY DEF Instantiates
<1>3. instances \in [Stores -> 0..Limit] /\ instances[s] \in 0..Limit
  BY <1>1 DEF TypeOK
<1>4. instances'[s] > 0
  BY <1>1, <1>2, <1>3, LimitType
<1> QED
  BY <1>1, <1>2, <1>4, MoreCounts

\* A start function that calls the host.
LEMMA PanicsEffect ==
  ASSUME TypeOK, NEW p \in Procs, At(p), NEW m, StartPanics(p, m), pc[p] \in {"links", "link"}
  PROVE  Effect(p)
<1>1. caller' = caller /\ Counts /\ instances'[Store(job[p].soc)] > 0
  BY InstantiatesCounts DEF StartPanics
<1>2. Panic(p) /\ StartCallsHost # {}
  BY DEF StartPanics
<1> QED
  BY <1>1, <1>2, PanicEffect

\* Every step inside a NIF.
LEMMA RunEffect == ASSUME TypeOK, NEW p \in Procs, At(p), Run(p) PROVE Effect(p)
<1> USE JobType
<1>1. CASE LockModule(p)
  <2> DEFINE next == IF job[p].kind = "new" THEN "store" ELSE "query"
  <2>1. pc[p] = "module" /\ Take(p, job[p].module, next)
    BY <1>1 DEF LockModule
  <2>2. held[p] = {} /\ job[p].kind \in {"new", "module"}
    BY <2>1 DEF At
  <2>3. ASSUME pc'[p] = next, job'[p] = job[p], held'[p] = held[p] \cup {job[p].module},
               caller' = caller
        PROVE  At(p)'
    BY <2>2, <2>3 DEF At
  <2> QED
    BY <2>1, <2>3, TakeEffect
<1>2. CASE LockStore(p)
  <2> DEFINE next == CASE job[p].kind = "new"                -> "linker"
                       [] job[p].kind \in {"memory", "grow"} -> "memory"
                       [] OTHER                              -> "query"
  <2>1. pc[p] = "store" /\ Take(p, job[p].soc, next)
    BY <1>2 DEF LockStore
  <2>2. /\ held[p] = IF job[p].kind = "new" THEN {job[p].module} ELSE {}
        /\ job[p].kind \in {"new", "store", "memory", "grow"}
    BY <2>1 DEF At, Kinds
  <2>3. ASSUME pc'[p] = next, job'[p] = job[p], held'[p] = held[p] \cup {job[p].soc},
               caller' = caller
        PROVE  At(p)'
    BY <2>2, <2>3 DEF At
  <2> QED
    BY <2>1, <2>3, TakeEffect
<1>3. CASE LockMemory(p)
  <2>1. pc[p] = "memory" /\ Take(p, job[p].memory, "query")
    BY <1>3 DEF LockMemory
  <2>2. held[p] = {job[p].soc} /\ job[p].kind \in {"memory", "grow"}
    BY <2>1 DEF At
  <2>3. ASSUME pc'[p] = "query", job'[p] = job[p], held'[p] = held[p] \cup {job[p].memory},
               caller' = caller
        PROVE  At(p)'
    BY <2>2, <2>3 DEF At
  <2> QED
    BY <2>1, <2>3, TakeEffect
<1>4. CASE LockLink(p)
  <2> DEFINE m == Head(job[p].links).module
  <2>1. pc[p] = "links" /\ job[p].links # <<>> /\ Take(p, m, "link")
    BY <1>4 DEF LockLink
  <2>2. held[p] = {job[p].module, job[p].soc} /\ job[p].kind = "new"
    BY <2>1 DEF At
  <2>3. ASSUME pc'[p] = "link", job'[p] = job[p], held'[p] = held[p] \cup {m}, Free(m),
               caller' = caller
        PROVE  At(p)'
    <3>1. m # job[p].module
      BY <2>2, <2>3 DEF Free
    <3> QED
      BY <2>1, <2>2, <2>3, <3>1 DEF At
  <2> QED
    BY <2>1, <2>3, TakeEffect
<1>5. CASE Query(p)
  <2>1. pc[p] = "query" /\ caller' = caller /\ instances' = instances
    BY <1>5 DEF Query
  <2>2. Counts
    BY <2>1, CountsSame
  <2>3. CASE Panic(p) /\ job[p].kind # "module"
    BY <2>1, <2>2, <2>3, PanicEffect
  <2>4. CASE poisoned' = poisoned /\ \E r : Finish(p, r)
    BY <2>1, <2>2, <2>4, FinishEffect
  <2> QED
    BY <1>5, <2>3, <2>4 DEF Query
<1>6. CASE LinkImports(p)
  <2>1. pc[p] = "linker" /\ caller' = caller /\ instances' = instances
    BY <1>6 DEF LinkImports
  <2>a. Counts
    BY <2>1, CountsSame
  <2>2. CASE \E r : Finish(p, r) /\ poisoned' = poisoned
    BY <2>1, <2>a, <2>2, FinishEffect
  <2>3. CASE IsStale(job[p].soc) /\ Panic(p)
    BY <2>1, <2>a, <2>3, PanicEffect
  <2>4. CASE /\ pc' = [pc EXCEPT ![p] = "links"] /\ UNCHANGED <<job, linker, held, result>>
             /\ poisoned' = poisoned
    <3>1. pc'[p] = "links" /\ job'[p] = job[p] /\ held'[p] = held[p]
      BY <2>4 DEF TypeOK
    <3>2. At(p)'
      BY <2>1, <3>1 DEF At
    <3>3. Others(p)
      BY <2>1, <2>4 DEF Others, TypeOK
    <3> QED
      BY <2>a, <2>4, <3>1, <3>2, <3>3 DEF Effect, Takes, Poisons
  <2> QED
    BY <1>6, <2>2, <2>3, <2>4 DEF LinkImports
<1>7. CASE LinkModule(p)
  <2> DEFINE link == Head(job[p].links)
  <2>1. pc[p] = "link"
    BY <1>7 DEF LinkModule
  <2>2. CASE InstantiateFails(p, link.module)
    BY <2>1, <2>2, FailsEffect
  <2>3. CASE StartPanics(p, link.module)
    BY <2>1, <2>3, PanicsEffect
  <2>4. CASE /\ Instantiates(p, link.module) /\ UNCHANGED poisoned
             /\ job' = [job EXCEPT ![p].links = Tail(@)]
             /\ held' = [held EXCEPT ![p] = @ \ {link.module}]
             /\ pc' = [pc EXCEPT ![p] = "links"]
    <3>1. UNCHANGED <<caller, poisoned>> /\ Counts
      BY <2>4, InstantiatesCounts
    <3>2. Others(p)
      BY <2>4, <3>1 DEF Others, TypeOK
    <3>3. pc'[p] = "links" /\ held'[p] = held[p] \ {link.module}
      BY <2>4 DEF TypeOK
    <3>4. job'[p] = [job[p] EXCEPT !.links = Tail(@)]
      BY <2>4 DEF TypeOK
    <3>5. job'[p].kind = job[p].kind /\ job'[p].module = job[p].module /\ job'[p].soc = job[p].soc
      BY <3>4 DEF TypeOK, Jobs
    <3>6. /\ job[p].kind = "new" /\ link.module # job[p].module /\ link.module \in Modules
          /\ held[p] = {job[p].module, job[p].soc, link.module}
      BY <2>1 DEF At
    <3>7. link.module # job[p].soc
      BY <3>6, Disjoint
    <3>8. held'[p] = {job[p].module, job[p].soc}
      BY <3>3, <3>6, <3>7
    <3>9. At(p)'
      BY <3>1, <3>3, <3>5, <3>6, <3>8 DEF At
    <3> QED
      BY <3>1, <3>2, <3>3, <3>9 DEF Effect, Takes, Poisons
  <2> QED
    BY <1>7, <2>2, <2>3, <2>4 DEF LinkModule, LinkedTo
<1>8. CASE CreateInstance(p)
  <2>1. pc[p] = "links"
    BY <1>8 DEF CreateInstance
  <2>2. CASE InstantiateFails(p, job[p].module)
    BY <2>1, <2>2, FailsEffect
  <2>3. CASE StartPanics(p, job[p].module)
    BY <2>1, <2>3, PanicsEffect
  <2>4. CASE Instantiates(p, job[p].module) /\ Finish(p, "ok") /\ UNCHANGED poisoned
    BY <2>4, FinishEffect, InstantiatesCounts
  <2> QED
    BY <1>8, <2>2, <2>3, <2>4 DEF CreateInstance
<1> QED
  BY <1>1, <1>2, <1>3, <1>4, <1>5, <1>6, <1>7, <1>8 DEF Run

-----------------------------------------------------------------------------
(* The invariant.                                                           *)

\* A process that does not step stays where it is.
LEMMA AtOthers ==
  ASSUME NEW q \in Procs, At(q), pc'[q] = pc[q], job'[q] = job[q], held'[q] = held[q],
         \A c \in Callers : caller[c] \in HasToken => caller'[c] \in HasToken
  PROVE  At(q)'
BY DEF At

\* Who holds the mutex of a caller has its token.
LEMMA TokensHeld ==
  ASSUME TypeOK, NEW p \in Procs, At(p)
  PROVE  \A c \in held[p] \cap Callers : caller[c] \in HasToken
<1> DEFINE j == job[p]
<1>1. /\ j.module \in Modules /\ j.memory \in Memories /\ j.kind \in Kinds
      /\ j.links # <<>> => Head(j.links).module \in Modules
  BY JobType
<1>2. /\ held[p] \subseteq {j.module, j.soc, j.memory}
                          \cup (IF j.links # <<>> THEN {Head(j.links).module} ELSE {})
      /\ j.soc \in Callers => caller[j.soc] \in HasToken
  BY <1>1 DEF At, TypeOK, Kinds
<1> QED
  BY <1>1, <1>2, Disjoint

\* What a step of one process may do preserves the invariant.
LEMMA EffectInv ==
  ASSUME IInv, NEW p \in Procs, Effect(p), TypeOK'
  PROVE  IInv'
<1> USE DEF Effect
<1>1. ASSUME NEW q \in Procs PROVE At(q)'
  <2>1. CASE q = p
    BY <2>1
  <2>2. CASE q # p
    BY <2>2, AtOthers DEF Others, IInv
  <2> QED
    BY <2>1, <2>2
<1>2. Exclusive'
  <2>1. ASSUME NEW l PROVE InCall(l)' <=> InCall(l)
    BY DEF InCall, Others
  <2>2. ASSUME NEW q \in Procs, NEW l \in held'[q]
        PROVE  ~InCall(l) /\ \A r \in Procs \ {q} : l \notin held'[r]
    <3>1. CASE l \in held[q]
      <4>1. ~InCall(l) /\ \A r \in Procs \ {q} : l \notin held[r]
        BY <3>1 DEF IInv, Exclusive
      <4>2. ASSUME NEW r \in Procs \ {q} PROVE l \notin held'[r]
        BY <3>1, <4>1 DEF Takes, Others, Free
      <4> QED
        BY <4>1, <4>2
    <3>2. CASE l \notin held[q]
      <4>1. q = p /\ Free(l)
        BY <3>2, <2>2 DEF Takes, Others
      <4> QED
        BY <4>1 DEF Free, Others
    <3> QED
      BY <3>1, <3>2
  <2> QED
    BY <2>1, <2>2 DEF Exclusive
<1>3. OneCall'
  BY DEF IInv, OneCall, Others
<1>4. PoisonSpread'
  <2>1. PoisonSpread /\ caller' = caller
    BY DEF IInv, Others
  <2>2. \A soc \in Stores \cup Callers :
          /\ IsStale(soc)' <=> IsStale(soc)
          /\ instances[Store(soc)] > 0 => instances'[Store(soc)] > 0
    <3>1. instances \in [Stores -> 0..Limit]
      BY DEF IInv, TypeOK
    <3>2. instances' \in [Stores -> 0..Limit]
      BY DEF TypeOK
    <3>3. \A t \in Stores : instances[t] > 0 => instances'[t] > 0
      BY <3>1, <3>2, LimitType DEF Counts
    <3> QED
      BY <2>1, <3>3, StoreType DEF IsStale
  <2>3. \A l : InCall(l)' <=> InCall(l)
    BY <2>1 DEF InCall
  <2>4. CASE poisoned' = poisoned
    BY <2>1, <2>2, <2>3, <2>4 DEF PoisonSpread, IsStale, Store
  <2>5. CASE poisoned' # poisoned
    <3> DEFINE soc == job[p].soc
    <3>1. /\ soc \in held[p] /\ poisoned' = poisoned \cup held[p] /\ soc \in Stores \cup Callers
          /\ \/ held[p] \cap Modules = {}
             \/ IsStale(soc)
             \/ StartCallsHost # {} /\ instances'[Store(soc)] > 0
      BY <2>5, JobType DEF Poisons, IInv
    <3>2. poisoned' \cap (Stores \cup Callers) # {}
      BY <3>1
    <3>3. ASSUME poisoned' \cap Modules # {}
          PROVE  \E t \in poisoned' \cap (Stores \cup Callers) :
                   IsStale(t)' \/ (StartCallsHost # {} /\ instances'[Store(t)] > 0)
      <4>1. CASE held[p] \cap Modules # {}
        BY <2>2, <3>1, <4>1
      <4>2. CASE poisoned \cap Modules # {}
        BY <2>1, <2>2, <3>1, <4>2 DEF PoisonSpread
      <4> QED
        BY <3>1, <3>3, <4>1, <4>2
    <3>4. ASSUME NEW t \in poisoned' \cap Stores PROVE ~InCall(t)'
      <4>1. CASE t \in poisoned
        BY <2>1, <2>3, <4>1 DEF PoisonSpread
      <4>2. CASE t \in held[p]
        BY <2>3, <4>2 DEF IInv, Exclusive
      <4> QED
        BY <3>1, <4>1, <4>2
    <3> QED
      BY <3>2, <3>3, <3>4 DEF PoisonSpread, IsStale, Store
  <2> QED
    BY <2>4, <2>5
<1>5. PoisonedTokens'
  <2>1. CASE poisoned' = poisoned
    BY <2>1 DEF IInv, PoisonedTokens, Others
  <2>2. CASE poisoned' = poisoned \cup held[p]
    <3>1. \A c \in held[p] \cap Callers : caller[c] \in HasToken
      BY TokensHeld DEF IInv
    <3> QED
      BY <2>2, <3>1 DEF IInv, PoisonedTokens, Others
  <2> QED
    BY <2>1, <2>2 DEF Poisons
<1> QED
  BY <1>1, <1>2, <1>3, <1>4, <1>5 DEF IInv

\* Neither mutexes nor calls: the invariant stays as it is.
LEMMA StaysSame ==
  ASSUME IInv, TypeOK', \A p \in Procs : At(p)', UNCHANGED <<held, caller, poisoned, instances>>
  PROVE  IInv'
<1>1. \A l : InCall(l)' <=> InCall(l)
  BY DEF InCall
<1>2. \A soc : IsStale(soc)' <=> IsStale(soc)
  BY DEF IsStale
<1>3. PoisonSpread'
  BY <1>1, <1>2 DEF IInv, PoisonSpread, Store, InCall, IsStale
<1> QED
  BY <1>1, <1>3 DEF IInv, Exclusive, OneCall, PoisonedTokens

\* Calling a NIF preserves the invariant.
LEMMA CallInv == ASSUME IInv, NEW p \in Procs, Call(p) PROVE IInv'
<1>1. TypeOK'
  BY CallType DEF IInv
<1>2. CASE Fuel(p)
  <2>1. UNCHANGED <<pc, job, held, caller, poisoned, instances>>
    BY <1>2 DEF Fuel
  <2>2. \A q \in Procs : At(q)'
    BY <2>1, AtOthers DEF IInv
  <2> QED
    BY <1>1, <2>1, <2>2, StaysSame
<1>3. CASE ~Fuel(p)
  <2>1. PICK j \in Jobs, lock \in {"module", "store"} :
          /\ Begin(p, j, lock)
          /\ j.soc \in Known
          /\ lock = "module" => j.kind \in {"new", "module"}
          /\ lock = "store" => j.kind \in {"store", "memory", "grow"}
    BY <1>3, CallCases
  <2>2. pc[p] = "idle" /\ UNCHANGED <<held, caller, poisoned, instances>>
    BY <2>1 DEF Begin
  <2>a. Counts
    BY <2>2, CountsSame DEF IInv
  <2>3. \A q \in Procs \ {p} : pc'[q] = pc[q] /\ job'[q] = job[q]
    BY <2>1 DEF Begin, IInv, TypeOK
  <2>4. pc'[p] = lock /\ job'[p] = j /\ held'[p] = {}
    BY <2>1, <2>2 DEF Begin, IInv, TypeOK, At
  <2>5. j.soc \in Callers => caller[j.soc] \in HasToken
    BY <2>1, Disjoint DEF Known, HasToken
  <2>6. At(p)'
    BY <2>1, <2>2, <2>4, <2>5 DEF At
  <2> QED
    BY <1>1, <2>a, <2>2, <2>3, <2>4, <2>6, EffectInv DEF Effect, Others, Takes, Poisons
<1> QED
  BY <1>2, <1>3

CallStep(c) == StartCall(c) \/ Park(c) \/ Resume(c) \/ EndCall(c)

\* What a step of a call does.
LEMMA CallStepCases ==
  ASSUME TypeOK, NEW c \in Callers, CallStep(c)
  PROVE  /\ UNCHANGED <<pc, job, linker, held, result, instances, left>>
         /\ \A d \in Callers \ {c} : caller'[d] = caller[d]
         /\ caller[c] \in HasToken => caller'[c] \in HasToken \ {"valid"}
         /\ caller' \in [Callers -> {"new", "running", "valid", "resumed", "stale", "over"}]
         /\ \/ /\ caller[c] = "new" /\ caller'[c] = "running" /\ poisoned' = poisoned
               /\ Free(StoreOf[c]) /\ StoreOf[c] \notin poisoned
            \/ /\ caller[c] \in InStore /\ caller'[c] \in InStore /\ poisoned' = poisoned
            \/ /\ caller[c] \in InStore /\ caller'[c] \notin InStore
               /\ poisoned' = poisoned \/ poisoned' = poisoned \cup {StoreOf[c]}
<1>1. caller \in [Callers -> {"new", "running", "valid", "resumed", "stale", "over"}]
  BY DEF TypeOK
<1>2. CASE StartCall(c)
  BY <1>1, <1>2 DEF StartCall, HasToken, InStore
<1>3. CASE Park(c)
  BY <1>1, <1>3 DEF Park, HasToken, InStore
<1>4. CASE Resume(c)
  BY <1>1, <1>4 DEF Resume, HasToken, InStore
<1>5. CASE EndCall(c)
  BY <1>1, <1>5 DEF EndCall, HasToken, InStore
<1> QED
  BY <1>2, <1>3, <1>4, <1>5 DEF CallStep

\* So do the calls of exported functions.
LEMMA CallerInv ==
  ASSUME IInv, NEW c \in Callers, CallStep(c)
  PROVE  IInv'
<1> DEFINE s == StoreOf[c]
<1>1. /\ UNCHANGED <<pc, job, linker, held, result, instances, left>>
      /\ \A d \in Callers \ {c} : caller'[d] = caller[d]
      /\ caller[c] \in HasToken => caller'[c] \in HasToken \ {"valid"}
      /\ caller' \in [Callers -> {"new", "running", "valid", "resumed", "stale", "over"}]
  BY CallStepCases DEF IInv
<1>2. \/ /\ caller[c] = "new" /\ caller'[c] = "running" /\ poisoned' = poisoned
         /\ Free(s) /\ s \notin poisoned
      \/ /\ caller[c] \in InStore /\ caller'[c] \in InStore /\ poisoned' = poisoned
      \/ /\ caller[c] \in InStore /\ caller'[c] \notin InStore
         /\ poisoned' = poisoned \/ poisoned' = poisoned \cup {s}
  BY CallStepCases DEF IInv
<1>3. s \in Stores /\ s \notin Modules /\ s \notin Callers /\ s \in Locks
  BY StoreOfType, Disjoint DEF Locks
<1>4. TypeOK'
  BY <1>1, <1>2, <1>3 DEF IInv, TypeOK
<1>5. \A d \in Callers : caller[d] \in HasToken => caller'[d] \in HasToken
  BY <1>1
<1>6. \A q \in Procs : At(q)'
  BY <1>1, <1>5, AtOthers DEF IInv
<1>7. ASSUME NEW l PROVE InCall(l) <=> \E d \in Callers : caller[d] \in InStore /\ StoreOf[d] = l
  BY DEF InCall, InStore
<1>8. ASSUME NEW l, InCall(l)' PROVE InCall(l) \/ (l = s /\ Free(s) /\ s \notin poisoned /\ poisoned' = poisoned)
  <2>1. PICK d \in Callers : caller'[d] \in InStore /\ StoreOf[d] = l
    BY <1>8 DEF InCall, InStore
  <2> QED
    BY <1>1, <1>2, <1>7, <2>1
<1>9. Exclusive'
  BY <1>1, <1>8 DEF IInv, Exclusive, Free
<1>10. OneCall'
  <2>1. SUFFICES ASSUME NEW d \in Callers, NEW e \in Callers, d # e,
                        caller'[d] \in InStore, caller'[e] \in InStore, StoreOf[d] = StoreOf[e]
                 PROVE  FALSE
    BY DEF OneCall
  <2>2. caller[c] \in InStore => caller[d] \in InStore /\ caller[e] \in InStore
    BY <1>1, <2>1
  <2>3. CASE caller[c] \in InStore
    BY <2>1, <2>2, <2>3 DEF IInv, OneCall
  <2>4. CASE caller[c] \notin InStore
    <3>1. Free(s)
      BY <1>2, <2>4
    <3>2. \A f \in Callers : caller[f] \in InStore => StoreOf[f] # s
      BY <1>7, <3>1 DEF Free
    <3>3. caller[d] \in InStore \/ d = c
      BY <1>1, <2>1
    <3>4. caller[e] \in InStore \/ e = c
      BY <1>1, <2>1
    <3> QED
      BY <2>1, <3>2, <3>3, <3>4 DEF IInv, OneCall
  <2> QED
    BY <2>3, <2>4
<1>11. PoisonedTokens'
  BY <1>1, <1>2, <1>3, <1>5 DEF IInv, PoisonedTokens
<1>12. PoisonSpread'
  <2>1. poisoned' = poisoned \/ poisoned' = poisoned \cup {s}
    BY <1>2
  <2>2. ASSUME NEW soc \in poisoned \cap (Stores \cup Callers), IsStale(soc) PROVE IsStale(soc)'
    <3>1. soc \in Callers /\ caller[soc] \in HasToken /\ caller[soc] # "valid"
      BY <2>2 DEF IInv, PoisonedTokens, IsStale
    <3>2. caller'[soc] # "valid"
      BY <1>1, <3>1
    <3> QED
      BY <3>1, <3>2 DEF IsStale
  <2>3. poisoned' # {} => poisoned' \cap (Stores \cup Callers) # {}
    BY <1>3, <2>1 DEF IInv, PoisonSpread
  <2>4. ASSUME poisoned' \cap Modules # {}
        PROVE  \E soc \in poisoned' \cap (Stores \cup Callers) :
                 IsStale(soc)' \/ (StartCallsHost # {} /\ instances'[Store(soc)] > 0)
    <3>1. poisoned \cap Modules # {}
      BY <1>3, <2>1, <2>4
    <3>2. PICK soc \in poisoned \cap (Stores \cup Callers) :
            IsStale(soc) \/ (StartCallsHost # {} /\ instances[Store(soc)] > 0)
      BY <3>1 DEF IInv, PoisonSpread
    <3> QED
      BY <1>1, <2>1, <2>2, <3>2
  <2>5. ASSUME NEW t \in poisoned' \cap Stores PROVE ~InCall(t)'
    <3>1. CASE t \in poisoned
      BY <1>8, <3>1 DEF IInv, PoisonSpread
    <3>2. CASE t \notin poisoned
      <4>1. t = s /\ caller[c] \in InStore /\ caller'[c] \notin InStore
        BY <1>2, <2>5, <3>2
      <4>2. ASSUME NEW d \in Callers, caller'[d] \in InStore, StoreOf[d] = s PROVE FALSE
        BY <1>1, <4>1, <4>2 DEF IInv, OneCall
      <4> QED
        BY <4>1, <4>2 DEF InCall, InStore
    <3> QED
      BY <3>1, <3>2
  <2> QED
    BY <2>3, <2>4, <2>5 DEF PoisonSpread, Store
<1> QED
  BY <1>4, <1>6, <1>9, <1>10, <1>11, <1>12 DEF IInv

\* The invariant holds at the start.
LEMMA InitInv == Init => IInv
<1> SUFFICES ASSUME Init PROVE IInv
  OBVIOUS
<1>1. TypeOK
  BY NoJobType, LimitType DEF Init, TypeOK
<1>2. \A p \in Procs : At(p)
  BY NoJobType, Disjoint DEF Init, At
<1>3. Exclusive /\ OneCall /\ PoisonedTokens /\ PoisonSpread
  BY DEF Init, Exclusive, OneCall, PoisonedTokens, PoisonSpread, InStore
<1> QED
  BY <1>1, <1>2, <1>3 DEF IInv

\* Every step preserves it.
LEMMA NextInv == IInv /\ [Next]_vars => IInv'
<1> SUFFICES ASSUME IInv, [Next]_vars PROVE IInv'
  OBVIOUS
<1>1. CASE UNCHANGED vars
  <2>1. \A p \in Procs : At(p)'
    BY <1>1, AtOthers DEF vars, IInv
  <2>2. TypeOK'
    BY <1>1 DEF vars, IInv, TypeOK
  <2> QED
    BY <1>1, <2>1, <2>2, StaysSame DEF vars
<1>2. ASSUME NEW p \in Procs, Call(p) PROVE IInv'
  BY <1>2, CallInv
<1>3. ASSUME NEW p \in Procs, Run(p) PROVE IInv'
  BY <1>3, RunType, RunEffect, EffectInv DEF IInv
<1>4. ASSUME NEW c \in Callers, CallStep(c) PROVE IInv'
  BY <1>4, CallerInv
<1> QED
  BY <1>1, <1>2, <1>3, <1>4 DEF Next, CallStep

\* The invariant of every state.
THEOREM Invariant == Spec => []IInv
BY InitInv, NextInv, PTL DEF Spec

-----------------------------------------------------------------------------
(* The theorems.                                                            *)

\* Every variable keeps its type, and no store more instances than its limits
\* allow: the limiter counts what link_modules leaves behind too.
THEOREM Types == Spec => []TypeOK
<1>1. IInv => TypeOK
  BY DEF IInv
<1> QED
  BY <1>1, Invariant, PTL

\* Every panic poisons a store or a token with whatever else it poisons; a module
\* only falls with a token that is not valid or behind a start function that calls
\* the host; in a poisoned store no call runs any more.
THEOREM Poisoning == Spec => []PoisonSpread
<1>1. IInv => PoisonSpread
  BY DEF IInv
<1> QED
  BY <1>1, Invariant, PTL

\* A circle of processes that wait for each other's mutexes, of any length, has in
\* it a process that links the main module of another: the order of the mutexes is module, store,
\* linked module, memory, and only modules come in it twice.
LEMMA NoCircle ==
  ASSUME IInv, NEW W \in (SUBSET Procs) \ {{}},
         \A p \in W : Waiting(p) /\ \E q \in W : Wanted(p) \in held[q],
         \A p, q \in W : ~(pc[p] = "links" /\ job[q].kind = "new" /\ Wanted(p) = job[q].module)
  PROVE  FALSE
<1> USE Disjoint
<1>1. ASSUME NEW p \in W
      PROVE  /\ pc[p] \in {"module", "store", "memory", "links"}
             /\ pc[p] = "module" => Wanted(p) \in Modules /\ held[p] = {}
             /\ pc[p] = "store"  => Wanted(p) \in Stores \cup Callers
                                    /\ \/ held[p] = {}
                                       \/ held[p] = {job[p].module} /\ job[p].kind = "new"
             /\ pc[p] = "memory" => Wanted(p) \in Memories /\ held[p] = {job[p].soc}
             /\ pc[p] = "links"  => Wanted(p) \in Modules /\ job[p].kind = "new"
                                    /\ held[p] = {job[p].module, job[p].soc}
  <2>1. TypeOK /\ At(p) /\ Waiting(p)
    BY DEF IInv
  <2>2. pc[p] = "links" => job[p].links # <<>>
    BY <2>1 DEF Waiting
  <2>3. /\ job[p].module \in Modules /\ job[p].soc \in Stores \cup Callers
        /\ job[p].memory \in Memories
        /\ job[p].links # <<>> => Head(job[p].links).module \in Modules
    BY <2>1, JobType
  <2>4. pc[p] \in {"module", "store", "memory", "links"}
    BY <2>1 DEF Waiting
  <2>5. CASE pc[p] = "module"
    BY <2>1, <2>3, <2>5 DEF Wanted, At
  <2>6. CASE pc[p] = "store"
    BY <2>1, <2>3, <2>6 DEF Wanted, At
  <2>7. CASE pc[p] = "memory"
    BY <2>1, <2>3, <2>7 DEF Wanted, At
  <2>8. CASE pc[p] = "links"
    BY <2>1, <2>2, <2>3, <2>8 DEF Wanted, At
  <2> QED
    BY <2>4, <2>5, <2>6, <2>7, <2>8
<1>2. ASSUME NEW q \in W
      PROVE  job[q].module \in Modules /\ job[q].soc \in Stores \cup Callers
  BY JobType DEF IInv
<1>3. \A p \in W : pc[p] # "memory"
  BY <1>1, <1>2
<1>4. \A p \in W : pc[p] # "links"
  BY <1>1, <1>2
<1>5. \A p \in W : pc[p] # "store"
  BY <1>1, <1>2, <1>3, <1>4
<1>6. PICK p : p \in W
  OBVIOUS
<1>7. pc[p] = "module" /\ \E q \in W : Wanted(p) \in held[q]
  BY <1>1, <1>6, <1>3, <1>4, <1>5
<1>8. \A q \in W : held[q] = {}
  BY <1>1, <1>3, <1>4, <1>5
<1> QED
  BY <1>7, <1>8

\* The conclusion of NoWaitCycle.
LEMMA Circles == IInv => NoWaitCycle
<1> SUFFICES ASSUME IInv, NEW W \in (SUBSET Procs) \ {{}}, Circle(W)
             PROVE  \/ \E p, q \in W : /\ pc[p] = "links" /\ job[q].kind = "new"
                                       /\ Wanted(p) = job[q].module
                    \/ \E p, q \in W : pc[p] = "store" /\ Awaits(Wanted(p), q)
  BY Zenon DEF NoWaitCycle
<1>1. CASE \A p \in W : \E q \in W : Wanted(p) \in held[q]
  BY <1>1, NoCircle DEF Circle
<1>2. CASE \E p \in W : ~ \E q \in W : Wanted(p) \in held[q]
  <2>1. PICK p \in W, q \in W : Waiting(p) /\ Awaits(Wanted(p), q)
    BY <1>2 DEF Circle
  <2>2. Wanted(p) \in Stores
    BY <2>1, StoreOfType DEF Awaits
  <2>3. pc[p] = "store"
    <3>1. /\ job[p].module \in Modules /\ job[p].memory \in Memories
          /\ job[p].links # <<>> => Head(job[p].links).module \in Modules
      BY JobType DEF IInv
    <3> QED
      BY <2>1, <2>2, <3>1, Disjoint DEF Waiting, Wanted
  <2> QED
    BY <2>1, <2>3
<1> QED
  BY <1>1, <1>2

\* No circle without a module linked by one and instantiated by another
\* (instance.rs:50 holds the main module while environment.rs:35 waits), or a
\* store whose call waits for a server in the circle (environment.rs:226).
THEOREM Deadlocks == Spec => []NoWaitCycle
BY Circles, Invariant, PTL

-----------------------------------------------------------------------------
(* What the recursive functions of LinkOrder compute.                       *)

ConcatDef(f, ss) == IF ss = <<>> THEN <<>> ELSE Head(ss) \o f[Tail(ss)]
FlattenDef(f, links) ==
  Concat[[i \in DOMAIN links |-> <<Own(links[i])>> \o f[links[i].links]]]
UniqDef(f, links) ==
  IF links = <<>> THEN <<>>
  ELSE LET kept == f[Front(links)]
       IN  IF Last(links).key \in KeysOf(kept) THEN kept ELSE Append(kept, Last(links))

OfConcat  == INSTANCE Recursion WITH Def <- ConcatDef
OfFlatten == INSTANCE Recursion WITH Def <- FlattenDef
OfUniq    == INSTANCE Recursion WITH Def <- UniqDef

\* Sequences are ranked by their length, and lose one element at either end.
LEMMA Shorter ==
  ASSUME NEW S, NEW s \in Seq(S), s # <<>>
  PROVE  /\ Len(s) \in Nat \ {0} /\ Head(s) \in S /\ Last(s) = s[Len(s)] /\ Last(s) \in S
         /\ Tail(s) \in Seq(S) /\ Len(Tail(s)) = Len(s) - 1
         /\ \A i \in 1..(Len(s) - 1) : Tail(s)[i] = s[i + 1]
         /\ Front(s) \in Seq(S) /\ Len(Front(s)) = Len(s) - 1
         /\ \A i \in 1..(Len(s) - 1) : Front(s)[i] = s[i]
<1>1. Len(s) \in Nat \ {0} /\ Len(s) \in DOMAIN s /\ s[Len(s)] \in S
  BY LenProperties, EmptySeq, ElementOfSeq
<1>2. /\ Head(s) \in S /\ Tail(s) \in Seq(S) /\ Len(Tail(s)) = Len(s) - 1
      /\ \A i \in 1..(Len(s) - 1) : Tail(s)[i] = s[i + 1]
  BY <1>1, HeadTailProperties
<1>3. Front(s) = SubSeq(s, 1, Len(s) - 1)
  BY DEF Front
<1>4. /\ Front(s) \in Seq(S) /\ Len(Front(s)) = Len(s) - 1
      /\ \A i \in 1..(Len(s) - 1) : Front(s)[i] = s[i]
  <2> DEFINE n == Len(s) - 1
  <2>1. n \in Nat /\ \A i \in 1..n : s[i] \in S
    BY <1>1, ElementOfSeq
  <2>2. /\ SubSeq(s, 1, n) \in Seq(S) /\ Len(SubSeq(s, 1, n)) = n
        /\ \A i \in 1..n : SubSeq(s, 1, n)[i] = s[i]
    <3> HIDE DEF n
    <3>1. /\ SubSeq(s, 1, n) \in Seq(S) /\ Len(SubSeq(s, 1, n)) = (IF 1 <= n THEN n - 1 + 1 ELSE 0)
          /\ \A i \in 1..(n - 1 + 1) : SubSeq(s, 1, n)[i] = s[1 + i - 1]
      BY <2>1, SubSeqProperties
    <3> QED
      BY <2>1, <3>1
  <2> QED
    BY <1>3, <2>2
<1> QED
  BY <1>1, <1>2, <1>4 DEF Last

\* Concat is what its definition says.
LEMMA ConcatIs ==
  \A ss \in Seq(Seq(Keyed)) : Concat[ss] = IF ss = <<>> THEN <<>> ELSE Head(ss) \o Concat[Tail(ss)]
<1> DEFINE D == Seq(Seq(Keyed))
           rank == [ss \in D |-> Len(ss)]
<1>1. rank \in [D -> Nat]
  BY LenProperties
<1>2. OfConcat!Grounded(D, rank)
  <2> SUFFICES ASSUME NEW ss \in D, NEW g, NEW h,
                      \A e \in D : rank[e] < rank[ss] => g[e] = h[e]
               PROVE  ConcatDef(g, ss) = ConcatDef(h, ss)
    BY DEF OfConcat!Grounded
  <2>1. CASE ss = <<>>
    BY <2>1 DEF ConcatDef
  <2>2. CASE ss # <<>>
    <3>1. Tail(ss) \in D /\ rank[Tail(ss)] < rank[ss]
      BY <2>2, Shorter
    <3> QED
      BY <3>1 DEF ConcatDef
  <2> QED
    BY <2>1, <2>2
<1>3. Concat = CHOOSE g : g = [ss \in D |-> ConcatDef(g, ss)]
  BY DEF Concat, ConcatDef
<1> HIDE DEF D, rank
<1>4. Concat = [ss \in D |-> ConcatDef(Concat, ss)]
  <2> HIDE DEF ConcatDef, Concat
  <2> QED
    BY <1>1, <1>2, <1>3, OfConcat!RankRecursion
<1> QED
  BY <1>4 DEF D, ConcatDef

\* The links of a link are links.
LEMMA TreeType ==
  ASSUME NEW links \in Forests, NEW i \in DOMAIN links
  PROVE  /\ links[i].key \in Keys /\ links[i].module \in Modules
         /\ links[i].links \in Forests /\ Own(links[i]) \in Keyed
<1>1. links \in Seq(Trees)
  BY ForestsType
<1>2. links[i] \in Trees
  BY <1>1, ElementOfSeq, LenProperties
<1> QED
  BY <1>2 DEF Trees, Keyed, Own

\* FlattenLinks is what its definition says.
LEMMA FlattenIs ==
  \A links \in Forests :
    FlattenLinks[links] =
      Concat[[i \in DOMAIN links |-> <<Own(links[i])>> \o FlattenLinks[links[i].links]]]
<1>1. OfFlatten!Grounded(Forests, Height)
  <2> SUFFICES ASSUME NEW links \in Forests, NEW g, NEW h,
                      \A e \in Forests : Height[e] < Height[links] => g[e] = h[e]
               PROVE  FlattenDef(g, links) = FlattenDef(h, links)
    BY DEF OfFlatten!Grounded
  <2>1. ASSUME NEW i \in DOMAIN links PROVE g[links[i].links] = h[links[i].links]
    <3>1. links[i].links \in Forests
      BY TreeType
    <3> QED
      BY <3>1, HeightType
  <2> QED
    BY <2>1 DEF FlattenDef
<1>2. FlattenLinks = CHOOSE g : g = [links \in Forests |-> FlattenDef(g, links)]
  BY DEF FlattenLinks, FlattenDef
<1>3. FlattenLinks = [links \in Forests |-> FlattenDef(FlattenLinks, links)]
  <2> HIDE DEF FlattenDef, FlattenLinks
  <2> QED
    BY <1>1, <1>2, HeightType, OfFlatten!RankRecursion
<1> QED
  BY <1>3 DEF FlattenDef

\* UniqByKey is what its definition says.
LEMMA UniqIs ==
  \A links \in Seq(Keyed) : UniqByKey[links] = UniqDef(UniqByKey, links)
<1> DEFINE D == Seq(Keyed)
           rank == [links \in D |-> Len(links)]
<1>1. rank \in [D -> Nat]
  BY LenProperties
<1>2. OfUniq!Grounded(D, rank)
  <2> SUFFICES ASSUME NEW links \in D, NEW g, NEW h,
                      \A e \in D : rank[e] < rank[links] => g[e] = h[e]
               PROVE  UniqDef(g, links) = UniqDef(h, links)
    BY DEF OfUniq!Grounded
  <2>1. CASE links = <<>>
    BY <2>1 DEF UniqDef
  <2>2. CASE links # <<>>
    <3>1. Front(links) \in D /\ rank[Front(links)] < rank[links]
      BY <2>2, Shorter
    <3> QED
      BY <3>1 DEF UniqDef
  <2> QED
    BY <2>1, <2>2
<1>3. UniqByKey = CHOOSE g : g = [links \in D |-> UniqDef(g, links)]
  BY DEF UniqByKey, UniqDef
<1> HIDE DEF D, rank
<1>4. UniqByKey = [links \in D |-> UniqDef(UniqByKey, links)]
  <2> HIDE DEF UniqDef, UniqByKey
  <2> QED
    BY <1>1, <1>2, <1>3, OfUniq!RankRecursion
<1> QED
  BY <1>4 DEF D

-----------------------------------------------------------------------------
(* The order of the modules start_link hands to instance_new.               *)

\* Links that come before, or after, those their modules import from.
NamesOf(links) == {NameOf(links[i]) : i \in DOMAIN links}

ImportsFollow(s)  == \A i \in DOMAIN s : \A a \in Imports[s[i].module] :
                       \E j \in DOMAIN s : i < j /\ NameOf(s[j]) = a
ImportsPrecede(s) == \A i \in DOMAIN s : \A a \in Imports[s[i].module] :
                       \E j \in DOMAIN s : j < i /\ NameOf(s[j]) = a

\* Every link lists links for all that its module imports from.
Complete == \A links \in Forests : \A i \in DOMAIN links :
              Imports[links[i].module] \subseteq NamesOf(links[i].links)

\* The names of two sequences.
LEMMA NamesOfConcat ==
  ASSUME NEW s \in Seq(Keyed), NEW t \in Seq(Keyed)
  PROVE  NamesOf(s) \cup NamesOf(t) \subseteq NamesOf(s \o t)
<1>1. /\ DOMAIN s = 1..Len(s) /\ DOMAIN t = 1..Len(t) /\ Len(s) \in Nat /\ Len(t) \in Nat
      /\ s \o t \in Seq(Keyed) /\ Len(s \o t) = Len(s) + Len(t)
      /\ DOMAIN (s \o t) = 1..(Len(s) + Len(t))
      /\ \A i \in 1..(Len(s) + Len(t)) :
           (s \o t)[i] = IF i <= Len(s) THEN s[i] ELSE t[i - Len(s)]
  BY ConcatProperties, LenProperties
<1>2. ASSUME NEW i \in DOMAIN s PROVE NameOf(s[i]) \in NamesOf(s \o t)
  <2>1. i \in DOMAIN (s \o t) /\ (s \o t)[i] = s[i]
    BY <1>1
  <2> QED
    BY <2>1 DEF NamesOf
<1>3. ASSUME NEW i \in DOMAIN t PROVE NameOf(t[i]) \in NamesOf(s \o t)
  <2>1. Len(s) + i \in DOMAIN (s \o t) /\ (s \o t)[Len(s) + i] = t[i]
    BY <1>1
  <2> QED
    BY <2>1 DEF NamesOf
<1> QED
  BY <1>2, <1>3 DEF NamesOf

\* Two sequences with imports after the links that need them, or the first with
\* its missing imports in the second.
LEMMA FollowConcat ==
  ASSUME NEW s \in Seq(Keyed), NEW t \in Seq(Keyed), ImportsFollow(t),
         \/ ImportsFollow(s)
         \/ \A i \in DOMAIN s : Imports[s[i].module] \subseteq NamesOf(t)
  PROVE  ImportsFollow(s \o t)
<1>1. /\ DOMAIN s = 1..Len(s) /\ DOMAIN t = 1..Len(t) /\ Len(s) \in Nat /\ Len(t) \in Nat
      /\ s \o t \in Seq(Keyed) /\ Len(s \o t) = Len(s) + Len(t)
      /\ DOMAIN (s \o t) = 1..(Len(s) + Len(t))
      /\ \A i \in 1..(Len(s) + Len(t)) :
           (s \o t)[i] = IF i <= Len(s) THEN s[i] ELSE t[i - Len(s)]
  BY ConcatProperties, LenProperties
<1>2. SUFFICES ASSUME NEW i \in DOMAIN (s \o t), NEW a \in Imports[(s \o t)[i].module]
               PROVE  \E j \in DOMAIN (s \o t) : i < j /\ NameOf((s \o t)[j]) = a
  BY DEF ImportsFollow
<1>3. ASSUME NEW j \in DOMAIN t, i < Len(s) + j, NameOf(t[j]) = a
      PROVE  \E k \in DOMAIN (s \o t) : i < k /\ NameOf((s \o t)[k]) = a
  <2>1. Len(s) + j \in DOMAIN (s \o t) /\ (s \o t)[Len(s) + j] = t[j]
    BY <1>1
  <2> QED
    BY <1>3, <2>1
<1>4. CASE i <= Len(s)
  <2>1. i \in DOMAIN s /\ a \in Imports[s[i].module]
    BY <1>1, <1>4
  <2>2. CASE ImportsFollow(s)
    <3>1. PICK j \in DOMAIN s : i < j /\ NameOf(s[j]) = a
      BY <2>1, <2>2 DEF ImportsFollow
    <3>2. j \in DOMAIN (s \o t) /\ (s \o t)[j] = s[j]
      BY <1>1
    <3> QED
      BY <3>1, <3>2
  <2>3. CASE \A k \in DOMAIN s : Imports[s[k].module] \subseteq NamesOf(t)
    <3>1. PICK j \in DOMAIN t : NameOf(t[j]) = a
      BY <2>1, <2>3 DEF NamesOf
    <3>2. i < Len(s) + j
      BY <1>1, <1>4
    <3> QED
      BY <1>3, <3>1, <3>2
  <2> QED
    BY <2>2, <2>3
<1>5. CASE ~(i <= Len(s))
  <2>1. i - Len(s) \in DOMAIN t /\ a \in Imports[t[i - Len(s)].module]
    BY <1>1, <1>5
  <2>2. PICK j \in DOMAIN t : i - Len(s) < j /\ NameOf(t[j]) = a
    BY <2>1 DEF ImportsFollow
  <2>3. i < Len(s) + j
    BY <1>1, <2>1, <2>2
  <2> QED
    BY <1>3, <2>2, <2>3
<1> QED
  BY <1>4, <1>5

\* Concat keeps the order within what it puts together, and loses no name.
LEMMA ConcatFollows ==
  ASSUME NEW ss \in Seq(Seq(Keyed)), \A i \in DOMAIN ss : ImportsFollow(ss[i])
  PROVE  /\ Concat[ss] \in Seq(Keyed) /\ ImportsFollow(Concat[ss])
         /\ \A i \in DOMAIN ss : NamesOf(ss[i]) \subseteq NamesOf(Concat[ss])
<1> DEFINE D == Seq(Seq(Keyed))
           rank == [rs \in D |-> Len(rs)]
           Follows(rs) == \A i \in DOMAIN rs : ImportsFollow(rs[i])
           Kept(rs) == /\ Concat[rs] \in Seq(Keyed) /\ ImportsFollow(Concat[rs])
                       /\ \A i \in DOMAIN rs : NamesOf(rs[i]) \subseteq NamesOf(Concat[rs])
           S == {rs \in D : Follows(rs) => Kept(rs)}
<1>1. rank \in [D -> Nat]
  BY LenProperties
<1>2. ASSUME NEW rs \in D, \A e \in D : rank[e] < rank[rs] => e \in S
      PROVE  rs \in S
  <2>1. SUFFICES ASSUME Follows(rs) PROVE Kept(rs)
    OBVIOUS
  <2>2. CASE rs = <<>>
    <3>1. Concat[rs] = <<>>
      BY <2>2, ConcatIs
    <3>2. DOMAIN rs = {} /\ DOMAIN Concat[rs] = {}
      BY <2>2, <3>1
    <3> QED
      BY <3>1, <3>2, EmptySeq DEF ImportsFollow
  <2>3. CASE rs # <<>>
    <3> DEFINE hd == Head(rs)
               tl == Tail(rs)
    <3>1. /\ Len(rs) \in Nat \ {0} /\ hd = rs[1] /\ hd \in Seq(Keyed) /\ tl \in D
          /\ Len(tl) = Len(rs) - 1 /\ \A i \in 1..(Len(rs) - 1) : tl[i] = rs[i + 1]
      BY <2>3, Shorter
    <3>2. DOMAIN rs = 1..Len(rs) /\ DOMAIN tl = 1..Len(tl)
      BY <3>1, LenProperties
    <3>3. Follows(tl) /\ ImportsFollow(hd)
      <4>1. ASSUME NEW i \in DOMAIN tl PROVE ImportsFollow(tl[i])
        <5>1. i + 1 \in DOMAIN rs /\ tl[i] = rs[i + 1]
          BY <3>1, <3>2
        <5> QED
          BY <2>1, <5>1
      <4>2. 1 \in DOMAIN rs
        BY <3>1, <3>2
      <4> QED
        BY <2>1, <3>1, <4>1, <4>2
    <3>4. Kept(tl)
      <4>1. rank[tl] < rank[rs]
        BY <3>1
      <4> QED
        BY <1>2, <3>1, <3>3, <4>1
    <3>5. Concat[rs] = hd \o Concat[tl]
      BY <2>3, ConcatIs
    <3>6. Concat[rs] \in Seq(Keyed) /\ ImportsFollow(Concat[rs])
      BY <3>1, <3>3, <3>4, <3>5, FollowConcat, ConcatProperties
    <3>7. NamesOf(hd) \cup NamesOf(Concat[tl]) \subseteq NamesOf(Concat[rs])
      BY <3>1, <3>4, <3>5, NamesOfConcat
    <3>8. ASSUME NEW i \in DOMAIN rs PROVE NamesOf(rs[i]) \subseteq NamesOf(Concat[rs])
      <4>1. CASE i = 1
        BY <3>1, <3>7, <4>1
      <4>2. CASE i # 1
        <5>1. i - 1 \in DOMAIN tl /\ tl[i - 1] = rs[i]
          BY <3>1, <3>2, <4>2
        <5> QED
          BY <3>4, <3>7, <5>1
      <4> QED
        BY <4>1, <4>2
    <3> QED
      BY <3>6, <3>8
  <2> QED
    BY <2>2, <2>3
<1> HIDE DEF S, rank, D
<1>3. D \subseteq S
  BY <1>1, <1>2, OfConcat!RankInduction
<1> QED
  BY <1>3 DEF S, D

\* Flattened, a link comes before all that its module imports from.
LEMMA FlattenFollows ==
  ASSUME Complete, NEW forest \in Forests
  PROVE  /\ FlattenLinks[forest] \in Seq(Keyed) /\ ImportsFollow(FlattenLinks[forest])
         /\ NamesOf(forest) \subseteq NamesOf(FlattenLinks[forest])
<1> DEFINE Flat(links) == /\ FlattenLinks[links] \in Seq(Keyed)
                          /\ ImportsFollow(FlattenLinks[links])
                          /\ NamesOf(links) \subseteq NamesOf(FlattenLinks[links])
           S == {links \in Forests : Flat(links)}
<1>1. ASSUME NEW links \in Forests, \A e \in Forests : Height[e] < Height[links] => e \in S
      PROVE  links \in S
  <2> DEFINE below(i) == FlattenLinks[links[i].links]
             part(i)  == <<Own(links[i])>> \o below(i)
             ss       == [i \in DOMAIN links |-> part(i)]
  <2>1. ASSUME NEW i \in DOMAIN links
        PROVE  /\ part(i) \in Seq(Keyed) /\ ImportsFollow(part(i))
               /\ NameOf(links[i]) \in NamesOf(part(i))
    <3>1. links[i].links \in Forests /\ Own(links[i]) \in Keyed
      BY TreeType
    <3>2. Flat(links[i].links)
      BY <1>1, <3>1, HeightType
    <3>3. Imports[links[i].module] \subseteq NamesOf(below(i))
      BY <3>2 DEF Complete
    <3> DEFINE one == <<Own(links[i])>>
    <3>4. one \in Seq(Keyed) /\ DOMAIN one = {1} /\ one[1] = Own(links[i])
      BY <3>1
    <3>5. one[1].module = links[i].module /\ NameOf(one[1]) = NameOf(links[i])
      BY <3>4 DEF Own, NameOf
    <3>6. NameOf(links[i]) \in NamesOf(one)
      BY <3>4, <3>5 DEF NamesOf
    <3> HIDE DEF one
    <3>7. \A k \in DOMAIN one : Imports[one[k].module] \subseteq NamesOf(below(i))
      BY <3>3, <3>4, <3>5
    <3>8. /\ one \o below(i) \in Seq(Keyed) /\ ImportsFollow(one \o below(i))
          /\ NamesOf(one) \subseteq NamesOf(one \o below(i))
      BY <3>2, <3>4, <3>7, FollowConcat, NamesOfConcat, ConcatProperties
    <3> QED
      BY <3>6, <3>8 DEF one
  <2> HIDE DEF part
  <2>2. DOMAIN links = 1..Len(links) /\ Len(links) \in Nat
    BY ForestsType, LenProperties
  <2>3. ss \in Seq(Seq(Keyed)) /\ DOMAIN ss = DOMAIN links /\ \A i \in DOMAIN ss : ss[i] = part(i)
    BY <2>1, <2>2
  <2>4. FlattenLinks[links] = Concat[ss]
    BY FlattenIs DEF part
  <2> HIDE DEF ss
  <2>5. /\ Concat[ss] \in Seq(Keyed) /\ ImportsFollow(Concat[ss])
        /\ \A i \in DOMAIN ss : NamesOf(ss[i]) \subseteq NamesOf(Concat[ss])
    BY <2>1, <2>3, ConcatFollows
  <2>6. ASSUME NEW i \in DOMAIN links PROVE NameOf(links[i]) \in NamesOf(Concat[ss])
    BY <2>1, <2>3, <2>5
  <2>7. NamesOf(links) \subseteq NamesOf(Concat[ss])
    BY <2>6 DEF NamesOf
  <2> QED
    BY <2>4, <2>5, <2>7
<1> HIDE DEF S
<1>2. Forests \subseteq S
  BY <1>1, HeightType, OfConcat!RankInduction
<1> QED
  BY <1>2 DEF S

\* Reversing turns the order round.
LEMMA ReverseOrder ==
  ASSUME NEW s \in Seq(Keyed), ImportsFollow(s)
  PROVE  /\ Reverse(s) \in Seq(Keyed) /\ ImportsPrecede(Reverse(s))
         /\ NamesOf(s) \subseteq NamesOf(Reverse(s))
<1> DEFINE n == Len(s)
           r == Reverse(s)
<1>1. n \in Nat /\ DOMAIN s = 1..n /\ \A i \in 1..n : s[i] \in Keyed
  BY LenProperties, ElementOfSeq
<1>2. DOMAIN r = 1..n /\ \A i \in 1..n : r[i] = s[n - i + 1]
  BY DEF Reverse
<1>3. \A i \in 1..n : n - i + 1 \in 1..n /\ n - (n - i + 1) + 1 = i
  BY <1>1
<1> HIDE DEF n
<1>4. r = [i \in 1..n |-> s[n - i + 1]]
  BY DEF Reverse, n
<1>5. r \in Seq(Keyed)
  BY <1>1, <1>3, <1>4
<1> HIDE DEF r
<1>6. ASSUME NEW i \in DOMAIN r, NEW a \in Imports[r[i].module]
      PROVE  \E j \in DOMAIN r : j < i /\ NameOf(r[j]) = a
  <2>1. n - i + 1 \in DOMAIN s /\ a \in Imports[s[n - i + 1].module]
    BY <1>1, <1>2, <1>3
  <2>2. PICK k \in DOMAIN s : n - i + 1 < k /\ NameOf(s[k]) = a
    BY <2>1 DEF ImportsFollow
  <2>3. n - k + 1 \in DOMAIN r /\ r[n - k + 1] = s[k]
    BY <1>1, <1>2, <1>3
  <2>4. n - k + 1 < i
    BY <1>1, <1>2, <2>2
  <2> QED
    BY <2>2, <2>3, <2>4
<1>7. ASSUME NEW i \in DOMAIN s PROVE NameOf(s[i]) \in NamesOf(r)
  <2>1. n - i + 1 \in DOMAIN r /\ r[n - i + 1] = s[i]
    BY <1>1, <1>2, <1>3
  <2> QED
    BY <2>1 DEF NamesOf
<1> QED
  BY <1>5, <1>6, <1>7 DEF ImportsPrecede, NamesOf, r

\* Making keys unique keeps the first link of every key, so also the order: the
\* link that is kept has the name of those that are not.
LEMMA UniqPrecedes ==
  ASSUME NEW links \in Seq(Keyed), ImportsPrecede(links)
  PROVE  /\ UniqByKey[links] \in Seq(Keyed) /\ ImportsPrecede(UniqByKey[links])
         /\ NamesOf(UniqByKey[links]) = NamesOf(links)
<1> DEFINE D == Seq(Keyed)
           rank == [s \in D |-> Len(s)]
           Kept(s, u) == u \in Seq(Keyed) /\ ImportsPrecede(u) /\ NamesOf(u) = NamesOf(s)
           S == {s \in D : ImportsPrecede(s) => Kept(s, UniqByKey[s])}
<1>1. rank \in [D -> Nat]
  BY LenProperties
<1>2. ASSUME NEW s \in D, \A e \in D : rank[e] < rank[s] => e \in S
      PROVE  s \in S
  <2>1. SUFFICES ASSUME ImportsPrecede(s) PROVE Kept(s, UniqByKey[s])
    OBVIOUS
  <2>2. CASE s = <<>>
    <3>1. UniqByKey[s] = <<>>
      BY <2>2, UniqIs DEF UniqDef
    <3> QED
      BY <2>1, <2>2, <3>1
  <2>3. CASE s # <<>>
    <3> DEFINE n == Len(s)
               t == Front(s)
               u == UniqByKey[t]
               l == Last(s)
    <3>1. /\ n \in Nat \ {0} /\ l = s[n] /\ l \in Keyed /\ t \in D
          /\ Len(t) = n - 1 /\ \A i \in 1..(n - 1) : t[i] = s[i]
      BY <2>3, Shorter
    <3>2. DOMAIN s = 1..n /\ DOMAIN t = 1..(n - 1)
      BY <3>1, LenProperties
    <3>3. UniqByKey[s] = IF l.key \in KeysOf(u) THEN u ELSE Append(u, l)
      BY <2>3, UniqIs DEF UniqDef
    <3> HIDE DEF t, l, n, u
    <3>4. ImportsPrecede(t)
      <4>1. SUFFICES ASSUME NEW i \in DOMAIN t, NEW a \in Imports[t[i].module]
                     PROVE  \E j \in DOMAIN t : j < i /\ NameOf(t[j]) = a
        BY DEF ImportsPrecede
      <4>2. i \in DOMAIN s /\ i \in 1..(n - 1) /\ t[i] = s[i] /\ i < n
        BY <3>1, <3>2
      <4>3. PICK j \in DOMAIN s : j < i /\ NameOf(s[j]) = a
        BY <2>1, <4>2 DEF ImportsPrecede
      <4>4. j \in 1..(n - 1) /\ t[j] = s[j]
        BY <3>1, <3>2, <4>2, <4>3
      <4> QED
        BY <3>2, <4>3, <4>4
    <3>5. Kept(t, u)
      <4>1. t \in S
        BY <1>2, <3>1 DEF t, n
      <4> QED
        BY <3>4, <4>1 DEF u
    <3>6. Imports[l.module] \subseteq NamesOf(t)
      <4>1. ASSUME NEW a \in Imports[l.module] PROVE a \in NamesOf(t)
        <5>1. n \in DOMAIN s /\ a \in Imports[s[n].module]
          BY <3>1, <3>2
        <5>2. PICK j \in DOMAIN s : j < n /\ NameOf(s[j]) = a
          BY <2>1, <5>1 DEF ImportsPrecede
        <5>3. j \in DOMAIN t /\ NameOf(t[j]) = a
          BY <3>1, <3>2, <5>2
        <5> QED
          BY <5>3 DEF NamesOf
      <4> QED
        BY <4>1
    <3>7. NamesOf(s) = NamesOf(t) \cup {NameOf(l)}
      <4>1. \A i \in DOMAIN s : NameOf(s[i]) \in NamesOf(t) \cup {NameOf(l)}
        <5>1. SUFFICES ASSUME NEW i \in DOMAIN s, i # n PROVE NameOf(s[i]) \in NamesOf(t)
          BY <3>1
        <5>2. i \in DOMAIN t /\ t[i] = s[i]
          BY <3>1, <3>2, <5>1
        <5> QED
          BY <5>2 DEF NamesOf
      <4>2. \A i \in DOMAIN t : NameOf(t[i]) \in NamesOf(s)
        <5>1. SUFFICES ASSUME NEW i \in DOMAIN t PROVE NameOf(t[i]) \in NamesOf(s)
          OBVIOUS
        <5>2. i \in DOMAIN s /\ t[i] = s[i]
          BY <3>1, <3>2
        <5> QED
          BY <5>2 DEF NamesOf
      <4>3. n \in DOMAIN s /\ NameOf(s[n]) = NameOf(l)
        BY <3>1, <3>2
      <4> QED
        BY <4>1, <4>2, <4>3 DEF NamesOf
    <3>8. CASE l.key \in KeysOf(u)
      <4>1. PICK j \in DOMAIN u : u[j].key = l.key
        BY <3>8 DEF KeysOf
      <4>2. NameOf(l) \in NamesOf(u)
        BY <4>1 DEF NameOf, NamesOf
      <4> QED
        BY <3>3, <3>5, <3>7, <3>8, <4>2
    <3>9. CASE l.key \notin KeysOf(u)
      <4> DEFINE v == Append(u, l)
                 m == Len(u)
      <4>1. /\ m \in Nat /\ DOMAIN u = 1..m /\ v \in Seq(Keyed) /\ DOMAIN v = 1..(m + 1)
            /\ \A i \in 1..m : v[i] = u[i]
            /\ v[m + 1] = l
        BY <3>1, <3>5, AppendProperties, LenProperties
      <4> HIDE DEF v, m
      <4>2. NamesOf(v) = NamesOf(u) \cup {NameOf(l)}
        <5>1. \A i \in DOMAIN v : NameOf(v[i]) \in NamesOf(u) \cup {NameOf(l)}
          <6>1. SUFFICES ASSUME NEW i \in DOMAIN v, i # m + 1 PROVE NameOf(v[i]) \in NamesOf(u)
            BY <4>1
          <6>2. i \in DOMAIN u /\ v[i] = u[i]
            BY <4>1, <6>1
          <6> QED
            BY <6>2 DEF NamesOf
        <5>2. \A i \in DOMAIN u : NameOf(u[i]) \in NamesOf(v)
          <6>1. SUFFICES ASSUME NEW i \in DOMAIN u PROVE NameOf(u[i]) \in NamesOf(v)
            OBVIOUS
          <6>2. i \in DOMAIN v /\ v[i] = u[i]
            BY <4>1
          <6> QED
            BY <6>2 DEF NamesOf
        <5>3. m + 1 \in DOMAIN v
          BY <4>1
        <5> QED
          BY <4>1, <5>1, <5>2, <5>3 DEF NamesOf
      <4>3. ASSUME NEW i \in DOMAIN v, NEW a \in Imports[v[i].module]
            PROVE  \E j \in DOMAIN v : j < i /\ NameOf(v[j]) = a
        <5>1. CASE i = m + 1
          <6>1. a \in NamesOf(u)
            BY <3>5, <3>6, <4>1, <4>3, <5>1
          <6>2. PICK j \in DOMAIN u : NameOf(u[j]) = a
            BY <6>1 DEF NamesOf
          <6> QED
            BY <4>1, <5>1, <6>2
        <5>2. CASE i # m + 1
          <6>1. i \in DOMAIN u /\ a \in Imports[u[i].module]
            BY <4>1, <4>3, <5>2
          <6>2. PICK j \in DOMAIN u : j < i /\ NameOf(u[j]) = a
            BY <3>5, <6>1 DEF ImportsPrecede
          <6> QED
            BY <4>1, <6>2
        <5> QED
          BY <5>1, <5>2
      <4>4. UniqByKey[s] = v
        BY <3>3, <3>9 DEF v
      <4> QED
        BY <3>5, <3>7, <4>1, <4>2, <4>3, <4>4 DEF ImportsPrecede
    <3> QED
      BY <3>8, <3>9
  <2> QED
    BY <2>2, <2>3
<1> HIDE DEF S, rank, D
<1>3. D \subseteq S
  BY <1>1, <1>2, OfUniq!RankInduction
<1> QED
  BY <1>3 DEF S, D

LinkNames(links) == {links[i].name : i \in DOMAIN links}

\* What start_link makes of complete links has every module after all those it
\* imports from, however deep they are nested, in whatever order, and under
\* whatever keys of their names.
THEOREM CompiledInOrder ==
  ASSUME Complete, NEW forest \in Forests
  PROVE  /\ CompiledLinks(forest) \in Seq(Links)
         /\ \A i \in DOMAIN CompiledLinks(forest) :
              \A a \in Imports[CompiledLinks(forest)[i].module] :
                \E j \in DOMAIN CompiledLinks(forest) : j < i /\ CompiledLinks(forest)[j].name = a
         /\ NamesOf(forest) \subseteq LinkNames(CompiledLinks(forest))
<1>1. /\ FlattenLinks[forest] \in Seq(Keyed) /\ ImportsFollow(FlattenLinks[forest])
      /\ NamesOf(forest) \subseteq NamesOf(FlattenLinks[forest])
  BY FlattenFollows
<1> DEFINE r == Reverse(FlattenLinks[forest])
           u == UniqByKey[r]
<1>2. r \in Seq(Keyed) /\ ImportsPrecede(r) /\ NamesOf(FlattenLinks[forest]) \subseteq NamesOf(r)
  BY <1>1, ReverseOrder
<1> HIDE DEF r
<1>3. u \in Seq(Keyed) /\ ImportsPrecede(u) /\ NamesOf(u) = NamesOf(r)
  BY <1>2, UniqPrecedes
<1>4. CompiledLinks(forest) = CompileLinks(u)
  BY DEF CompiledLinks, r
<1> HIDE DEF u
<1> DEFINE s == CompileLinks(u)
<1>5. /\ DOMAIN u = 1..Len(u) /\ Len(u) \in Nat /\ DOMAIN s = DOMAIN u
      /\ \A i \in DOMAIN u : u[i] \in Keyed /\ s[i] = Compiled(u[i])
  BY <1>3, LenProperties, ElementOfSeq DEF CompileLinks
<1>6. \A i \in DOMAIN u : /\ s[i] \in Links /\ s[i].name = NameOf(u[i])
                          /\ s[i].module = u[i].module
  BY <1>5, StringifyType DEF Compiled, Links, Keyed, NameOf
<1>7. s = [i \in 1..Len(u) |-> Compiled(u[i])]
  BY <1>5 DEF CompileLinks
<1> HIDE DEF s
<1>8. s \in Seq(Links)
  BY <1>5, <1>6, <1>7
<1>9. ASSUME NEW i \in DOMAIN s, NEW a \in Imports[s[i].module]
      PROVE  \E j \in DOMAIN s : j < i /\ s[j].name = a
  <2>1. i \in DOMAIN u /\ a \in Imports[u[i].module]
    BY <1>5, <1>6, <1>9
  <2>2. PICK j \in DOMAIN u : j < i /\ NameOf(u[j]) = a
    BY <1>3, <2>1 DEF ImportsPrecede
  <2> QED
    BY <1>5, <1>6, <2>2
<1>10. NamesOf(u) \subseteq LinkNames(s)
  BY <1>5, <1>6 DEF NamesOf, LinkNames
<1>11. NamesOf(forest) \subseteq LinkNames(s)
  BY <1>1, <1>2, <1>3, <1>10
<1> QED
  BY <1>4, <1>8, <1>9, <1>11 DEF s

-----------------------------------------------------------------------------
(* No module is instantiated before what it imports from.                   *)

\* Of a main module and the modules still to be linked for it, each finds what
\* it imports from among the names defined and those of the links before it.
InOrder(defined, links, module) ==
  /\ \A i \in DOMAIN links :
       Imports[links[i].module] \subseteq defined \cup {links[j].name : j \in 1..(i - 1)}
  /\ Imports[module] \subseteq defined \cup LinkNames(links)

RequestsInOrder == \A r \in Requests : InOrder({}, r.links, r.main)

Resolves(p) == job[p].kind = "new" => InOrder(linker[p], job[p].links, job[p].module)
LinkInv == NoUnknownImport /\ \A p \in Procs : Resolves(p)

\* Linking the next module keeps the rest in order.
LEMMA NextLink ==
  ASSUME NEW defined, NEW links \in Seq(Links), links # <<>>, NEW module,
         InOrder(defined, links, module)
  PROVE  /\ Imports[Head(links).module] \subseteq defined
         /\ InOrder(defined \cup {Head(links).name}, Tail(links), module)
<1> DEFINE n == Len(links)
           tl == Tail(links)
           more == defined \cup {Head(links).name}
<1>1. /\ n \in Nat \ {0} /\ Head(links) = links[1] /\ tl \in Seq(Links) /\ Len(tl) = n - 1
      /\ \A i \in 1..(n - 1) : tl[i] = links[i + 1]
  BY Shorter
<1>2. DOMAIN links = 1..n /\ DOMAIN tl = 1..(n - 1)
  BY <1>1, LenProperties
<1> HIDE DEF n, tl
<1>3. Imports[Head(links).module] \subseteq defined
  <2>1. 1 \in DOMAIN links /\ {links[j].name : j \in 1..(1 - 1)} = {}
    BY <1>1, <1>2
  <2> QED
    BY <1>1, <2>1 DEF InOrder
<1>4. ASSUME NEW i \in DOMAIN tl
      PROVE  Imports[tl[i].module] \subseteq more \cup {tl[j].name : j \in 1..(i - 1)}
  <2>1. i + 1 \in DOMAIN links /\ tl[i] = links[i + 1]
    BY <1>1, <1>2
  <2>2. ASSUME NEW a \in Imports[tl[i].module] PROVE a \in more \cup {tl[j].name : j \in 1..(i - 1)}
    <3>1. CASE a \in defined
      BY <3>1
    <3>2. CASE a \notin defined
      <4>1. PICK j \in 1..((i + 1) - 1) : a = links[j].name
        BY <2>1, <2>2, <3>2 DEF InOrder
      <4>2. CASE j = 1
        BY <1>1, <4>1, <4>2
      <4>3. CASE j # 1
        <5>1. j - 1 \in 1..(i - 1) /\ tl[j - 1] = links[j]
          BY <1>1, <1>2, <4>3
        <5> QED
          BY <4>1, <5>1
      <4> QED
        BY <4>2, <4>3
    <3> QED
      BY <3>1, <3>2
  <2> QED
    BY <2>2
<1>5. Imports[module] \subseteq more \cup LinkNames(tl)
  <2>1. ASSUME NEW j \in DOMAIN links PROVE links[j].name \in more \cup LinkNames(tl)
    <3>1. CASE j = 1
      BY <1>1, <3>1
    <3>2. CASE j # 1
      <4>1. j - 1 \in DOMAIN tl /\ tl[j - 1] = links[j]
        BY <1>1, <1>2, <3>2
      <4> QED
        BY <4>1 DEF LinkNames
    <3> QED
      BY <3>1, <3>2
  <2>2. LinkNames(links) \subseteq more \cup LinkNames(tl)
    BY <2>1 DEF LinkNames
  <2> QED
    BY <2>2 DEF InOrder
<1> QED
  BY <1>3, <1>4, <1>5 DEF InOrder, tl

\* A NIF that ends otherwise.
LEMMA FinishResolves ==
  ASSUME TypeOK, LinkInv, NEW p \in Procs, NEW r, r # "unknown import", Finish(p, r)
  PROVE  LinkInv'
<1>1. /\ result'[p] = r /\ job'[p] = NoJob
      /\ \A q \in Procs \ {p} : result'[q] = result[q] /\ job'[q] = job[q] /\ linker'[q] = linker[q]
  BY DEF Finish, TypeOK
<1>2. NoJob.kind # "new"
  BY DEF NoJob
<1> QED
  BY <1>1, <1>2 DEF LinkInv, NoUnknownImport, Resolves

\* A step that leaves the jobs as they are.
LEMMA SameJobResolves ==
  ASSUME LinkInv, UNCHANGED <<job, linker, result>> PROVE LinkInv'
BY DEF LinkInv, NoUnknownImport, Resolves

\* A module that is instantiated finds what it imports from.
LEMMA FailsResolves ==
  ASSUME TypeOK, LinkInv, NEW p \in Procs, NEW m, Imports[m] \subseteq linker[p],
         InstantiateFails(p, m)
  PROVE  LinkInv'
<1>1. Finish(p, "panic") \/ Finish(p, "error")
  BY DEF InstantiateFails, Panic
<1> QED
  BY <1>1, FinishResolves

\* A NIF is asked for modules in order.
LEMMA CallResolves ==
  ASSUME RequestsInOrder, TypeOK, LinkInv, NEW p \in Procs, Call(p)
  PROVE  LinkInv'
<1>1. ASSUME NEW j, NEW lock, Begin(p, j, lock),
             j.kind = "new" => InOrder({}, j.links, j.module)
      PROVE  LinkInv'
  <2>1. /\ result'[p] = "none" /\ job'[p] = j /\ linker' = linker
        /\ \A q \in Procs \ {p} : result'[q] = result[q] /\ job'[q] = job[q]
    BY <1>1 DEF Begin, TypeOK
  <2>2. Resolves(p)'
    BY <1>1, <2>1 DEF Resolves, InOrder
  <2> QED
    BY <2>1, <2>2 DEF LinkInv, NoUnknownImport, Resolves
<1>2. CASE New(p)
  <2>1. PICK r \in Requests, soc \in Known :
          Begin(p, [NoJob EXCEPT !.kind = "new", !.module = r.main, !.links = r.links, !.soc = soc],
                "module")
    BY <1>2 DEF New
  <2> DEFINE j == [NoJob EXCEPT !.kind = "new", !.module = r.main, !.links = r.links, !.soc = soc]
  <2>2. j.links = r.links /\ j.module = r.main
    BY NoJobType DEF Jobs
  <2> HIDE DEF j
  <2> QED
    BY <1>1, <2>1, <2>2 DEF j, RequestsInOrder
<1>3. CASE QueryModule(p)
  <2>1. PICK m \in Modules : Begin(p, [NoJob EXCEPT !.kind = "module", !.module = m], "module")
    BY <1>3 DEF QueryModule
  <2>2. [NoJob EXCEPT !.kind = "module", !.module = m].kind # "new"
    BY DEF NoJob
  <2> QED
    BY <1>1, <2>1, <2>2
<1>4. CASE UseStore(p)
  <2>1. PICK soc \in Known : Begin(p, [NoJob EXCEPT !.soc = soc], "store")
    BY <1>4 DEF UseStore
  <2>2. [NoJob EXCEPT !.soc = soc].kind # "new"
    BY DEF NoJob
  <2> QED
    BY <1>1, <2>1, <2>2
<1>5. CASE UseMemory(p)
  <2>1. PICK soc \in Known, m \in Memories, kind \in {"memory", "grow"} :
          Begin(p, [NoJob EXCEPT !.kind = kind, !.soc = soc, !.memory = m], "store")
    BY <1>5 DEF UseMemory
  <2>2. [NoJob EXCEPT !.kind = kind, !.soc = soc, !.memory = m].kind # "new"
    BY DEF NoJob
  <2> QED
    BY <1>1, <2>1, <2>2
<1>6. CASE Fuel(p)
  <2>1. \A q \in Procs : result'[q] # "unknown import"
    BY <1>6 DEF Fuel, TypeOK, LinkInv, NoUnknownImport
  <2> QED
    BY <1>6, <2>1 DEF Fuel, LinkInv, NoUnknownImport, Resolves
<1> QED
  BY <1>2, <1>3, <1>4, <1>5, <1>6 DEF Call

\* Every step inside a NIF keeps what is left to link in order.
LEMMA RunResolves ==
  ASSUME TypeOK, LinkInv, NEW p \in Procs, At(p), Run(p)
  PROVE  LinkInv'
<1>1. ASSUME NEW lock, NEW next, Take(p, lock, next) PROVE LinkInv'
  BY <1>1, FinishResolves, SameJobResolves DEF Take
<1>2. CASE LockModule(p) \/ LockStore(p) \/ LockMemory(p) \/ LockLink(p)
  BY <1>1, <1>2 DEF LockModule, LockStore, LockMemory, LockLink
<1>3. CASE Query(p)
  BY <1>3, FinishResolves DEF Query, Panic
<1>4. CASE LinkImports(p)
  BY <1>4, FinishResolves, SameJobResolves DEF LinkImports, Panic
<1>5. CASE LinkModule(p)
  <2> DEFINE links == job[p].links
             link  == Head(links)
  <2>1. job[p].kind = "new" /\ links # <<>> /\ links \in Seq(Links)
    BY <1>5, JobType DEF LinkModule, At
  <2>2. InOrder(linker[p], links, job[p].module)
    BY <2>1 DEF LinkInv, Resolves
  <2>3. /\ Imports[link.module] \subseteq linker[p]
        /\ InOrder(linker[p] \cup {link.name}, Tail(links), job[p].module)
    BY <2>1, <2>2, NextLink
  <2>4. CASE InstantiateFails(p, link.module)
    BY <2>3, <2>4, FailsResolves
  <2>5. CASE StartPanics(p, link.module)
    BY <2>5, FinishResolves DEF StartPanics, Panic
  <2>6. CASE /\ linker' = [linker EXCEPT ![p] = @ \cup {link.name}]
             /\ job' = [job EXCEPT ![p].links = Tail(@)]
             /\ UNCHANGED result
    <3>1. /\ linker'[p] = linker[p] \cup {link.name}
          /\ \A q \in Procs \ {p} : linker'[q] = linker[q] /\ job'[q] = job[q]
      BY <2>6 DEF TypeOK
    <3>2. job'[p] = [job[p] EXCEPT !.links = Tail(@)] /\ job[p] \in Jobs
      BY <2>6 DEF TypeOK
    <3>3. job'[p].links = Tail(links) /\ job'[p].module = job[p].module
      BY <3>2 DEF Jobs
    <3>4. Resolves(p)'
      BY <2>3, <3>1, <3>3 DEF Resolves
    <3> QED
      BY <2>6, <3>1, <3>4 DEF LinkInv, NoUnknownImport, Resolves
  <2> QED
    BY <1>5, <2>4, <2>5, <2>6 DEF LinkModule, LinkedTo
<1>6. CASE CreateInstance(p)
  <2>1. job[p].links = <<>> /\ job[p].kind = "new"
    BY <1>6 DEF CreateInstance, At
  <2>2. Imports[job[p].module] \subseteq linker[p]
    BY <2>1 DEF LinkInv, Resolves, InOrder, LinkNames
  <2>3. CASE InstantiateFails(p, job[p].module)
    BY <2>2, <2>3, FailsResolves
  <2>4. CASE StartPanics(p, job[p].module)
    BY <2>4, FinishResolves DEF StartPanics, Panic
  <2>5. CASE Finish(p, "ok")
    BY <2>5, FinishResolves
  <2> QED
    BY <1>6, <2>3, <2>4, <2>5 DEF CreateInstance
<1> QED
  BY <1>2, <1>3, <1>4, <1>5, <1>6 DEF Run

\* Of requests that are in order, none finds an import missing: whatever fails,
\* is poisoned or is stale on the way, what a link needs was linked before.
THEOREM RequestsResolve ==
  ASSUME RequestsInOrder PROVE Spec => []NoUnknownImport
<1>1. Init => LinkInv
  BY DEF Init, LinkInv, NoUnknownImport, Resolves, NoJob
<1>2. IInv /\ LinkInv /\ [Next]_vars => LinkInv'
  <2> SUFFICES ASSUME IInv, LinkInv, [Next]_vars PROVE LinkInv'
    OBVIOUS
  <2>1. CASE UNCHANGED vars
    BY <2>1, SameJobResolves DEF vars
  <2>2. ASSUME NEW p \in Procs, Call(p) PROVE LinkInv'
    BY <2>2, CallResolves DEF IInv
  <2>3. ASSUME NEW p \in Procs, Run(p) PROVE LinkInv'
    BY <2>3, RunResolves DEF IInv
  <2>4. ASSUME NEW c \in Callers, CallStep(c) PROVE LinkInv'
    BY <2>4, SameJobResolves DEF CallStep, StartCall, Park, Resume, EndCall
  <2> QED
    BY <2>1, <2>2, <2>3, <2>4 DEF Next, CallStep
<1>3. LinkInv => NoUnknownImport
  BY DEF LinkInv
<1> QED
  BY <1>1, <1>2, <1>3, Invariant, PTL DEF Spec

\* A main module whose imports are among the names of complete links, given to
\* start_link in any order and nesting, is instantiated after them, and each of
\* them after its own.
THEOREM LinksResolve ==
  ASSUME Complete,
         \A r \in Requests : \E forest \in Forests :
           r.links = CompiledLinks(forest) /\ Imports[r.main] \subseteq NamesOf(forest)
  PROVE  Spec => []NoUnknownImport
<1>1. ASSUME NEW r \in Requests PROVE InOrder({}, r.links, r.main)
  <2>1. PICK forest \in Forests :
          r.links = CompiledLinks(forest) /\ Imports[r.main] \subseteq NamesOf(forest)
    OBVIOUS
  <2> DEFINE s == r.links
  <2>2. /\ s \in Seq(Links) /\ NamesOf(forest) \subseteq LinkNames(s)
        /\ \A i \in DOMAIN s : \A a \in Imports[s[i].module] :
             \E j \in DOMAIN s : j < i /\ s[j].name = a
    BY <2>1, CompiledInOrder
  <2>3. ASSUME NEW i \in DOMAIN s, NEW a \in Imports[s[i].module]
        PROVE  a \in {s[j].name : j \in 1..(i - 1)}
    <3>1. PICK j \in DOMAIN s : j < i /\ s[j].name = a
      BY <2>2, <2>3
    <3>2. j \in 1..(i - 1)
      BY <2>2, <3>1, LenProperties
    <3> QED
      BY <3>1, <3>2
  <2> QED
    BY <2>1, <2>2, <2>3 DEF InOrder
<1> QED
  BY <1>1, RequestsResolve DEF RequestsInOrder
=============================================================================
