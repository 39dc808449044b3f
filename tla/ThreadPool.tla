----------------------------- MODULE ThreadPool -----------------------------
(***************************************************************************)
(* thread_pool.c: the pool that starts the BGP, BMP, IS-IS and telemetry   *)
(* threads.  The creator allocates the workers one by one and hands over   *)
(* the pool; callers pop a worker, give it a function and ring its         *)
(* condition variable; a worker runs the function with its own mutex held  *)
(* and pushes itself back on the free list.                                *)
(*                                                                         *)
(* A step is what a thread does between two operations on a mutex.  A      *)
(* thread in "wait" is blocked in pthread_cond_wait() with the mutex       *)
(* released; in "woken" it has to take the mutex again before it returns.  *)
(***************************************************************************)
EXTENDS Integers, Sequences, FiniteSets

CONSTANTS
  Workers,      \* pool->count threads
  Callers,      \* threads that call send_to_pool()
  Jobs,         \* calls of send_to_pool(), numbered in the order they begin
  Endless,      \* jobs whose function does not return (the daemons' loops)
  None,         \* no thread, no worker, no job
  MaxSpurious   \* bound on spurious wakeups

ASSUME PoolAssumption ==
  /\ Endless \subseteq Jobs /\ Jobs \subseteq Nat /\ MaxSpurious \in Nat
  /\ None \notin Workers \cup Callers \cup Jobs
  /\ Workers \cap Callers = {}

\* the thread that runs allocate_thread_pool()
Creator == "creator"

ASSUME CreatorAssumption == Creator \notin Workers \cup Callers \cup {None}

VARIABLES
  free_list,    \* pool->free_list followed along next, first worker first
  plock,        \* holder of pool->mutex
  wlock,        \* holder of each worker->mutex
  go,           \* worker->go: -1 is ERR
  job,          \* worker->function and worker->data
  wpc, cpc, mpc,\* program counters: workers, callers, creator
  fresh,        \* the worker the creator is about
  target,       \* the worker each caller popped
  carried,      \* the job each caller submits
  submitted,    \* history: jobs submitted
  ran,          \* history: how often each job was started
  spurious      \* spurious wakeups so far

vars == <<free_list, plock, wlock, go, job, wpc, cpc, mpc, fresh, target,
          carried, submitted, ran, spurious>>

Threads == Workers \cup Callers \cup {Creator}

WorkerPCs == {"none", "start", "init", "loop", "test", "wait", "woken", "run",
              "return", "push"}
CallerPCs == {"idle", "check", "wait", "woken", "lock", "give"}
CreatorPCs == {"create", "lock", "check", "wait", "woken", "push", "done",
               "failed"}

Init ==
  /\ free_list = << >> /\ plock = None
  /\ wlock = [w \in Workers |-> None]
  /\ go = [w \in Workers |-> -1]
  /\ job = [w \in Workers |-> None]
  /\ wpc = [w \in Workers |-> "none"]
  /\ cpc = [c \in Callers |-> "idle"]
  /\ mpc = "create" /\ fresh = None
  /\ target = [c \in Callers |-> None]
  /\ carried = [c \in Callers |-> None]
  /\ submitted = {} /\ ran = [j \in Jobs |-> 0]
  /\ spurious = 0

-----------------------------------------------------------------------------
(* allocate_thread_pool(): create one worker, wait until it is up, push it *)

Create(w) ==
  /\ mpc = "create" /\ wpc[w] = "none"
  /\ wpc' = [wpc EXCEPT ![w] = "start"]
  /\ fresh' = w /\ mpc' = "lock"
  /\ UNCHANGED <<free_list, plock, wlock, go, job, cpc, target, carried,
                 submitted, ran, spurious>>

\* pthread_attr_setstacksize() or pthread_create() fails: no pool
CreateFails ==
  /\ mpc = "create" /\ \E w \in Workers : wpc[w] = "none"
  /\ mpc' = "failed"
  /\ UNCHANGED <<free_list, plock, wlock, go, job, wpc, cpc, fresh, target,
                 carried, submitted, ran, spurious>>

CreatorLock ==
  /\ mpc \in {"lock", "woken"} /\ wlock[fresh] = None
  /\ wlock' = [wlock EXCEPT ![fresh] = Creator]
  /\ mpc' = "check"
  /\ UNCHANGED <<free_list, plock, go, job, wpc, cpc, fresh, target, carried,
                 submitted, ran, spurious>>

\* while (worker->go != 0) pthread_cond_wait()
CreatorCheck ==
  /\ mpc = "check"
  /\ mpc' = IF go[fresh] # 0 THEN "wait" ELSE "push"
  /\ wlock' = [wlock EXCEPT ![fresh] = None]
  /\ UNCHANGED <<free_list, plock, go, job, wpc, cpc, fresh, target, carried,
                 submitted, ran, spurious>>

CreatorPush ==
  /\ mpc = "push"
  /\ free_list' = <<fresh>> \o free_list
  /\ mpc' = IF \E w \in Workers : wpc[w] = "none" THEN "create" ELSE "done"
  /\ fresh' = None
  /\ UNCHANGED <<plock, wlock, go, job, wpc, cpc, target, carried, submitted,
                 ran, spurious>>

-----------------------------------------------------------------------------
(* thread_runner() *)

WorkerLock(w) ==
  /\ \/ wpc[w] = "start" /\ wpc' = [wpc EXCEPT ![w] = "init"]
     \/ wpc[w] \in {"loop", "woken"} /\ wpc' = [wpc EXCEPT ![w] = "test"]
  /\ wlock[w] = None
  /\ wlock' = [wlock EXCEPT ![w] = w]
  /\ UNCHANGED <<free_list, plock, go, job, cpc, mpc, fresh, target, carried,
                 submitted, ran, spurious>>

\* mutant: ready without telling the creator
WorkerInit_Silent(w) ==
  /\ wpc[w] = "init"
  /\ go' = [go EXCEPT ![w] = 0]
  /\ wlock' = [wlock EXCEPT ![w] = None]
  /\ wpc' = [wpc EXCEPT ![w] = "loop"]
  /\ UNCHANGED <<free_list, plock, job, cpc, mpc, fresh, target, carried,
                 submitted, ran, spurious>>

\* go = FALSE, signal the creator, unlock
WorkerInit(w) ==
  /\ wpc[w] = "init"
  /\ go' = [go EXCEPT ![w] = 0]
  /\ mpc' = IF fresh = w /\ mpc = "wait" THEN "woken" ELSE mpc
  /\ wlock' = [wlock EXCEPT ![w] = None]
  /\ wpc' = [wpc EXCEPT ![w] = "loop"]
  /\ UNCHANGED <<free_list, plock, job, cpc, fresh, target, carried, submitted,
                 ran, spurious>>

\* while (!self->go) pthread_cond_wait(); then the function is called
WorkerTest(w) ==
  /\ wpc[w] = "test"
  /\ \/ /\ go[w] = 0
        /\ wlock' = [wlock EXCEPT ![w] = None]
        /\ wpc' = [wpc EXCEPT ![w] = "wait"]
        /\ ran' = ran
     \/ /\ go[w] # 0
        /\ wpc' = [wpc EXCEPT ![w] = "run"]
        /\ ran' = [ran EXCEPT ![job[w]] = @ + 1]
        /\ wlock' = wlock
  /\ UNCHANGED <<free_list, plock, go, job, cpc, mpc, fresh, target, carried,
                 submitted, spurious>>

\* mutant: go is not lowered after the job
WorkerRun_StaysGo(w) ==
  /\ wpc[w] = "run" /\ job[w] \notin Endless
  /\ wlock' = [wlock EXCEPT ![w] = None]
  /\ wpc' = [wpc EXCEPT ![w] = "return"]
  /\ UNCHANGED <<free_list, plock, go, job, cpc, mpc, fresh, target, carried,
                 submitted, ran, spurious>>

\* the function returns: go = FALSE, unlock
WorkerRun(w) ==
  /\ wpc[w] = "run" /\ job[w] \notin Endless
  /\ go' = [go EXCEPT ![w] = 0]
  /\ wlock' = [wlock EXCEPT ![w] = None]
  /\ wpc' = [wpc EXCEPT ![w] = "return"]
  /\ UNCHANGED <<free_list, plock, job, cpc, mpc, fresh, target, carried,
                 submitted, ran, spurious>>

WorkerLockPool(w) ==
  /\ wpc[w] = "return" /\ plock = None
  /\ plock' = w
  /\ wpc' = [wpc EXCEPT ![w] = "push"]
  /\ UNCHANGED <<free_list, wlock, go, job, cpc, mpc, fresh, target, carried,
                 submitted, ran, spurious>>

\* pthread_cond_signal(pool->cond): one of the blocked callers, if any
SignalPool ==
  IF \E c \in Callers : cpc[c] = "wait"
  THEN \E c \in Callers : cpc[c] = "wait" /\ cpc' = [cpc EXCEPT ![c] = "woken"]
  ELSE cpc' = cpc

\* mutant: back on the free list without a signal
WorkerPush_NoSignal(w) ==
  /\ wpc[w] = "push"
  /\ free_list' = <<w>> \o free_list
  /\ plock' = None
  /\ wpc' = [wpc EXCEPT ![w] = "loop"]
  /\ UNCHANGED <<wlock, go, job, cpc, mpc, fresh, target, carried, submitted,
                 ran, spurious>>

WorkerPush(w) ==
  /\ wpc[w] = "push"
  /\ free_list' = <<w>> \o free_list
  /\ SignalPool
  /\ plock' = None
  /\ wpc' = [wpc EXCEPT ![w] = "loop"]
  /\ UNCHANGED <<wlock, go, job, mpc, fresh, target, carried, submitted, ran,
                 spurious>>

-----------------------------------------------------------------------------
(* send_to_pool() *)

\* the call: the caller has the pool and takes its mutex
CallerLock(c) ==
  /\ cpc[c] = "idle" /\ mpc = "done" /\ plock = None
  /\ \E j \in Jobs \ submitted :
       /\ \A k \in Jobs \ submitted : j <= k
       /\ submitted' = submitted \cup {j}
       /\ carried' = [carried EXCEPT ![c] = j]
  /\ plock' = c
  /\ cpc' = [cpc EXCEPT ![c] = "check"]
  /\ UNCHANGED <<free_list, wlock, go, job, wpc, mpc, fresh, target, ran,
                 spurious>>

CallerRelock(c) ==
  /\ cpc[c] = "woken" /\ plock = None
  /\ plock' = c
  /\ cpc' = [cpc EXCEPT ![c] = "check"]
  /\ UNCHANGED <<free_list, wlock, go, job, wpc, mpc, fresh, target, carried,
                 submitted, ran, spurious>>

\* mutant: the first free worker stays on the list
CallerCheck_NoPop(c) ==
  /\ cpc[c] = "check"
  /\ \/ /\ free_list = << >>
        /\ cpc' = [cpc EXCEPT ![c] = "wait"]
        /\ UNCHANGED target
     \/ /\ free_list # << >>
        /\ target' = [target EXCEPT ![c] = Head(free_list)]
        /\ cpc' = [cpc EXCEPT ![c] = "lock"]
  /\ plock' = None
  /\ UNCHANGED <<free_list, wlock, go, job, wpc, mpc, fresh, carried,
                 submitted, ran, spurious>>

\* while (pool->free_list == NULL) pthread_cond_wait(); pop; unlock
CallerCheck(c) ==
  /\ cpc[c] = "check"
  /\ \/ /\ free_list = << >>
        /\ cpc' = [cpc EXCEPT ![c] = "wait"]
        /\ UNCHANGED <<free_list, target>>
     \/ /\ free_list # << >>
        /\ target' = [target EXCEPT ![c] = Head(free_list)]
        /\ free_list' = Tail(free_list)
        /\ cpc' = [cpc EXCEPT ![c] = "lock"]
  /\ plock' = None
  /\ UNCHANGED <<wlock, go, job, wpc, mpc, fresh, carried, submitted, ran,
                 spurious>>

CallerLockWorker(c) ==
  /\ cpc[c] = "lock" /\ wlock[target[c]] = None
  /\ wlock' = [wlock EXCEPT ![target[c]] = c]
  /\ cpc' = [cpc EXCEPT ![c] = "give"]
  /\ UNCHANGED <<free_list, plock, go, job, wpc, mpc, fresh, target, carried,
                 submitted, ran, spurious>>

\* function, data, go = TRUE, signal, unlock
CallerGive(c) ==
  /\ cpc[c] = "give"
  /\ LET w == target[c] IN
       /\ job' = [job EXCEPT ![w] = carried[c]]
       /\ go' = [go EXCEPT ![w] = 1]
       /\ wpc' = IF wpc[w] = "wait" THEN [wpc EXCEPT ![w] = "woken"] ELSE wpc
       /\ wlock' = [wlock EXCEPT ![w] = None]
  /\ target' = [target EXCEPT ![c] = None]
  /\ carried' = [carried EXCEPT ![c] = None]
  /\ cpc' = [cpc EXCEPT ![c] = "idle"]
  /\ UNCHANGED <<free_list, plock, mpc, fresh, submitted, ran, spurious>>

-----------------------------------------------------------------------------
\* pthread_cond_wait() may return without a signal
Spurious ==
  /\ spurious < MaxSpurious
  /\ spurious' = spurious + 1
  /\ \/ /\ \E w \in Workers : /\ wpc[w] = "wait"
                              /\ wpc' = [wpc EXCEPT ![w] = "woken"]
        /\ UNCHANGED <<cpc, mpc>>
     \/ /\ \E c \in Callers : /\ cpc[c] = "wait"
                              /\ cpc' = [cpc EXCEPT ![c] = "woken"]
        /\ UNCHANGED <<wpc, mpc>>
     \/ /\ mpc = "wait" /\ mpc' = "woken"
        /\ UNCHANGED <<wpc, cpc>>
  /\ UNCHANGED <<free_list, plock, wlock, go, job, fresh, target, carried,
                 submitted, ran>>

CreatorStep ==
  \/ \E w \in Workers : Create(w)
  \/ CreatorLock \/ CreatorCheck \/ CreatorPush

WorkerStep(w) ==
  \/ WorkerLock(w) \/ WorkerInit(w) \/ WorkerTest(w) \/ WorkerRun(w)
  \/ WorkerLockPool(w) \/ WorkerPush(w)

CallerStep(c) ==
  \/ CallerLock(c) \/ CallerRelock(c) \/ CallerCheck(c)
  \/ CallerLockWorker(c) \/ CallerGive(c)

Next ==
  \/ CreatorStep \/ CreateFails \/ Spurious
  \/ \E w \in Workers : WorkerStep(w)
  \/ \E c \in Callers : CallerStep(c)

Spec == Init /\ [][Next]_vars

\* A runnable thread is scheduled, and a mutex that stays free is acquired.
Fairness ==
  /\ WF_vars(CreatorStep)
  /\ \A w \in Workers : WF_vars(WorkerStep(w))
  /\ \A c \in Callers : WF_vars(CallerStep(c))

FairSpec == Spec /\ Fairness

-----------------------------------------------------------------------------
TypeOK ==
  /\ free_list \in Seq(Workers)
  /\ plock \in Threads \cup {None}
  /\ wlock \in [Workers -> Threads \cup {None}]
  /\ go \in [Workers -> {-1, 0, 1}]
  /\ job \in [Workers -> Jobs \cup {None}]
  /\ wpc \in [Workers -> WorkerPCs]
  /\ cpc \in [Callers -> CallerPCs]
  /\ mpc \in CreatorPCs
  /\ fresh \in Workers \cup {None}
  /\ target \in [Callers -> Workers \cup {None}]
  /\ carried \in [Callers -> Jobs \cup {None}]
  /\ submitted \in SUBSET Jobs
  /\ ran \in [Jobs -> Nat]
  /\ spurious \in Nat

\* the worker was popped by c, which has not handed over its job yet
Held(c) == cpc[c] \in {"lock", "give"}

\* idle: up, without a job, and not on its way back to the list
Idle(w) == go[w] = 0 /\ wpc[w] \in {"loop", "test", "wait", "woken"}

Listed(w) == \E i \in 1 .. Len(free_list) : free_list[i] = w

NoRepeat == \A i, j \in 1 .. Len(free_list) :
              free_list[i] = free_list[j] => i = j

\* A worker is on the free list at most once, only when it is idle and no
\* caller holds it; two callers never hold the same worker; and a held worker
\* is idle, so that send_to_pool() cannot overwrite a function and data that
\* thread_runner() has not called yet.
Exclusive ==
  /\ NoRepeat
  /\ \A w \in Workers : Listed(w) =>
       Idle(w) /\ \A c \in Callers : Held(c) => target[c] # w
  /\ \A c \in Callers : Held(c) => target[c] \in Workers /\ Idle(target[c])
  /\ \A c, d \in Callers : Held(c) /\ Held(d) /\ target[c] = target[d] => c = d

\* a worker that was told to go and has not called its function yet
Told(w) == go[w] = 1 /\ wpc[w] # "run"

\* a job accepted by send_to_pool() and not started is with its caller or
\* with a worker told to go
Pending(j) ==
  \/ \E c \in Callers : carried[c] = j
  \/ \E w \in Workers : Told(w) /\ job[w] = j

\* Every job handed to send_to_pool() is called once at most, and until it is
\* called it is still on its way: none is lost in the handover.
OnceEach ==
  \A j \in Jobs : /\ ran[j] <= 1
                  /\ j \in submitted => (ran[j] = 0 <=> Pending(j))
                  /\ j \notin submitted => ran[j] = 0

(***************************************************************************)
(* What makes Exclusive and OnceEach inductive: how go follows the program *)
(* counters, that nobody calls before the pool is returned, that the       *)
(* worker being created belongs to the creator alone, and that a job on    *)
(* its way is in one place.                                                *)
(***************************************************************************)
GoFollows ==
  \A w \in Workers :
    /\ wpc[w] \in {"none", "start", "init"} <=> go[w] = -1
    /\ wpc[w] = "run" => go[w] = 1
    /\ wpc[w] \in {"return", "push", "wait"} => go[w] = 0
    /\ go[w] = 1 => job[w] \in Jobs

Creating == mpc \in {"lock", "check", "wait", "woken", "push"}

Bootstrap ==
  /\ mpc # "done" => \A c \in Callers : cpc[c] = "idle"
  /\ Creating =>
       /\ fresh \in Workers /\ ~Listed(fresh)
       /\ Idle(fresh) \/ wpc[fresh] \in {"start", "init"}
       /\ mpc = "push" => Idle(fresh)

OnePlace ==
  /\ \A c \in Callers : cpc[c] = "idle" <=> carried[c] = None
  /\ \A c \in Callers : carried[c] # None => carried[c] \in submitted
  /\ \A w \in Workers : Told(w) => job[w] \in submitted
  /\ \A c, d \in Callers :
       carried[c] # None /\ carried[c] = carried[d] => c = d
  /\ \A c \in Callers, w \in Workers : Told(w) => carried[c] # job[w]
  /\ \A v, w \in Workers : Told(v) /\ Told(w) /\ job[v] = job[w] => v = w

PoolInv == TypeOK /\ Exclusive /\ GoFollows /\ Bootstrap /\ OnePlace /\ OnceEach

\* Every call of send_to_pool() gets its function started, even when callers
\* outnumber workers, as long as one worker's function returns; no signal is
\* lost between the free list, the callers and the workers.
Served == \A j \in Jobs : (j \in submitted) ~> (ran[j] = 1)

\* allocate_thread_pool() returns, with every worker on the free list or
\* without a pool: the init handshake on go cannot hang.
Allocates == <>(mpc \in {"done", "failed"})

\* Neither a caller of send_to_pool() nor the creator of the pool hangs.
NobodyHangs == Served /\ Allocates

=============================================================================
