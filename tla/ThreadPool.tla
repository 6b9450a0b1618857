----------------------------- MODULE ThreadPool -----------------------------
(***************************************************************************)
(* ThreadPool (libYarr/include/ThreadPool.h) and its user, the cleanup of  *)
(* the scan console: the results of every front end and then the loop      *)
(* histograms are handed to the pool as tasks, the futures of a batch are  *)
(* waited for, and the pool is destroyed.                                  *)
(*                                                                         *)
(* The queue and the stop flag are only touched with queue_mutex held, so  *)
(* a critical section is one step; evaluating the predicate of the wait    *)
(* and falling asleep is one of them.  The notifications come after the    *)
(* unlock.                                                                 *)
(***************************************************************************)
EXTENDS Naturals, Sequences

CONSTANTS Workers,    \* the worker threads
          NumTasks,   \* tasks enqueued in all
          FirstBatch  \* how many of them belong to the first batch

ASSUME ThreadPoolAssumption ==
    /\ Workers # {}
    /\ NumTasks \in Nat
    /\ FirstBatch \in 0..NumTasks

Tasks == 1..NumTasks

VARIABLES
    tasks,      \* the task queue
    stop,       \* the stop flag
    condition,  \* the workers blocked on the condition variable
    wpc,        \* where each worker is
    task,       \* the task a worker has taken, or 0
    future,     \* the future of each task
    runs,       \* history: how often each task ran
    mainPc,     \* where the main thread is
    submitted,  \* tasks enqueued so far
    collected   \* futures waited for so far

poolVars == <<tasks, stop, condition>>
workVars == <<wpc, task, future, runs>>
mainVars == <<mainPc, submitted, collected>>
vars == <<poolVars, workVars, mainVars>>

Init ==
    /\ tasks = <<>>
    /\ stop = FALSE
    /\ condition = {}
    /\ wpc = [w \in Workers |-> "loop"]
    /\ task = [w \in Workers |-> 0]
    /\ future = [t \in Tasks |-> "none"]
    /\ runs = [t \in Tasks |-> 0]
    /\ mainPc = "enqueue"
    /\ submitted = 0
    /\ collected = 0

----------------------------------------------------------------------------
(* The worker threads *)

WorkerGoto(w, l) == wpc' = [wpc EXCEPT ![w] = l]

(* Mutation: the task is copied and stays in the queue. *)
TakeTaskCopy(w) ==
    /\ wpc[w] = "loop"
    /\ tasks # <<>>
    /\ task' = [task EXCEPT ![w] = Head(tasks)]
    /\ WorkerGoto(w, "run")
    /\ UNCHANGED <<poolVars, future, runs, mainVars>>

(* The wait is over and there is a task. *)
TakeTask(w) ==
    /\ wpc[w] = "loop"
    /\ tasks # <<>>
    /\ task' = [task EXCEPT ![w] = Head(tasks)]
    /\ tasks' = Tail(tasks)
    /\ WorkerGoto(w, "run")
    /\ UNCHANGED <<stop, condition, future, runs, mainVars>>

(* The predicate is false: the worker blocks. *)
Block(w) ==
    /\ wpc[w] = "loop"
    /\ ~stop
    /\ tasks = <<>>
    /\ condition' = condition \cup {w}
    /\ WorkerGoto(w, "asleep")
    /\ UNCHANGED <<tasks, stop, task, future, runs, mainVars>>

(* Notified: it locks the mutex and looks again. *)
Wake(w) ==
    /\ wpc[w] = "asleep"
    /\ w \notin condition
    /\ WorkerGoto(w, "loop")
    /\ UNCHANGED <<poolVars, task, future, runs, mainVars>>

(* A condition variable may wake a thread nobody notified. *)
SpuriousWake(w) ==
    /\ w \in condition
    /\ condition' = condition \ {w}
    /\ UNCHANGED <<tasks, stop, workVars, mainVars>>

(* task(): the packaged task runs; its result or its exception goes to the  *)
(* future.                                                                  *)
Run(w, result) ==
    /\ wpc[w] = "run"
    /\ future' = [future EXCEPT ![task[w]] = result]
    /\ runs' = [runs EXCEPT ![task[w]] = @ + 1]
    /\ task' = [task EXCEPT ![w] = 0]
    /\ WorkerGoto(w, "loop")
    /\ UNCHANGED <<poolVars, mainVars>>

(* Mutation: stop alone ends the worker. *)
ReturnAtStop(w) ==
    /\ wpc[w] = "loop"
    /\ stop
    /\ WorkerGoto(w, "returned")
    /\ UNCHANGED <<poolVars, task, future, runs, mainVars>>

(* if (stop && tasks.empty()) return; *)
Return(w) ==
    /\ wpc[w] = "loop"
    /\ stop
    /\ tasks = <<>>
    /\ WorkerGoto(w, "returned")
    /\ UNCHANGED <<poolVars, task, future, runs, mainVars>>

----------------------------------------------------------------------------
(* The main thread *)

BatchEnd == IF submitted <= FirstBatch /\ collected < FirstBatch THEN FirstBatch
            ELSE NumTasks

(* Mutation: the task before the new one is queued again. *)
EnqueueOffByOne ==
    /\ mainPc = "enqueue"
    /\ submitted < BatchEnd
    /\ submitted' = submitted + 1
    /\ tasks' = Append(tasks, submitted)
    /\ future' = [future EXCEPT ![submitted + 1] = "pending"]
    /\ mainPc' = "notify"
    /\ UNCHANGED <<stop, condition, wpc, task, runs, collected>>

(* enqueue() up to the unlock. *)
Enqueue ==
    /\ mainPc = "enqueue"
    /\ submitted < BatchEnd
    /\ submitted' = submitted + 1
    /\ tasks' = Append(tasks, submitted + 1)
    /\ future' = [future EXCEPT ![submitted + 1] = "pending"]
    /\ mainPc' = "notify"
    /\ UNCHANGED <<stop, condition, wpc, task, runs, collected>>

(* Mutation: enqueue() does not notify. *)
NotifyNone ==
    /\ mainPc = "notify"
    /\ mainPc' = "enqueue"
    /\ UNCHANGED <<poolVars, workVars, submitted, collected>>

(* notify_one() *)
Notify ==
    /\ mainPc = "notify"
    /\ IF condition = {} THEN UNCHANGED condition
       ELSE \E w \in condition : condition' = condition \ {w}
    /\ mainPc' = "enqueue"
    /\ UNCHANGED <<tasks, stop, workVars, submitted, collected>>

(* get() of the next future of the batch; an exception is logged. *)
Get ==
    /\ mainPc = "enqueue"
    /\ submitted = BatchEnd
    /\ collected < submitted
    /\ future[collected + 1] \in {"value", "exception"}
    /\ collected' = collected + 1
    /\ UNCHANGED <<poolVars, workVars, mainPc, submitted>>

(* The destructor: stop, notify_all, join.  A pool may be destroyed with    *)
(* futures that nobody waited for (AnalysisConsole, or an exception).       *)
Stop ==
    /\ mainPc = "enqueue"
    /\ stop' = TRUE
    /\ mainPc' = "notifyAll"
    /\ UNCHANGED <<tasks, condition, workVars, submitted, collected>>

NotifyAll ==
    /\ mainPc = "notifyAll"
    /\ condition' = {}
    /\ mainPc' = "join"
    /\ UNCHANGED <<tasks, stop, workVars, submitted, collected>>

Join ==
    /\ mainPc = "join"
    /\ \A w \in Workers : wpc[w] = "returned"
    /\ mainPc' = "done"
    /\ UNCHANGED <<poolVars, workVars, submitted, collected>>

----------------------------------------------------------------------------
WorkerStep(w) ==
    \/ TakeTask(w) \/ Block(w) \/ Wake(w) \/ Return(w)
    \/ \E result \in {"value", "exception"} : Run(w, result)

MainStep == Enqueue \/ Notify \/ Get \/ NotifyAll \/ Join

Next ==
    \/ \E w \in Workers : WorkerStep(w) \/ SpuriousWake(w)
    \/ MainStep
    \/ Stop

Spec == Init /\ [][Next]_vars

(* Every thread that can run is scheduled; a task ends.  Nothing is assumed *)
(* of spurious wake-ups or of the moment the pool is destroyed.             *)
Fairness ==
    /\ \A w \in Workers : WF_vars(WorkerStep(w))
    /\ WF_vars(MainStep)

FairSpec == Spec /\ Fairness

----------------------------------------------------------------------------
(* Every variable has its type. *)
TypeOK ==
    /\ tasks \in Seq(Tasks)
    /\ stop \in BOOLEAN
    /\ condition \subseteq Workers
    /\ wpc \in [Workers -> {"loop", "asleep", "run", "returned"}]
    /\ task \in [Workers -> 0..NumTasks]
    /\ future \in [Tasks -> {"none", "pending", "value", "exception"}]
    /\ runs \in [Tasks -> Nat]
    /\ mainPc \in {"enqueue", "notify", "notifyAll", "join", "done"}
    /\ submitted \in 0..NumTasks
    /\ collected \in 0..NumTasks

(* Where a task is: in the queue, with a worker, or run. *)
Queued(t) == \E i \in DOMAIN tasks : tasks[i] = t
Taken(t)  == \E w \in Workers : task[w] = t

(* A task is run at most once, and none is lost on the way: until its       *)
(* future has a result it is in the queue or with a worker.                 *)
ExactlyOnce ==
    \A t \in Tasks :
        /\ runs[t] <= 1
        /\ (runs[t] = 1) <=> future[t] \in {"value", "exception"}
        /\ (future[t] = "pending") => Queued(t) \/ Taken(t)

(* notify_one is enough: while tasks are queued the workers cannot all be   *)
(* asleep, unless a notification is on its way.                             *)
SomeoneAwake ==
    tasks # <<>> =>
        \/ \E w \in Workers : w \notin condition /\ wpc[w] # "returned"
        \/ mainPc \in {"notify", "notifyAll"}

(* The destructor returns, and only after what was still queued has run: a  *)
(* worker told to stop is neither left asleep nor gone before the queue is  *)
(* empty.                                                                   *)
StopEndsPool == stop ~> (mainPc = "done" /\ \A t \in 1..submitted : runs[t] = 1)

(* Every future gets its result.                                            *)
FuturesReady ==
    \A t \in Tasks : (future[t] = "pending") ~> (future[t] \in {"value", "exception"})
============================================================================
