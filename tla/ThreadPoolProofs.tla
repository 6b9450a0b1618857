-------------------------- MODULE ThreadPoolProofs --------------------------
(***************************************************************************)
(* Proofs about ThreadPool, for any set of workers and any number of       *)
(* tasks: a task is run exactly once, and while tasks are queued somebody  *)
(* is awake to take them.                                                  *)
(*                                                                         *)
(* ExactlyOnce is not inductive: that a task runs once rests on where it   *)
(* is before it runs.  The queue is a window of the tasks in the order of  *)
(* their submission; what is before the window is with one worker or has   *)
(* run, what is after it does not exist yet.                               *)
(***************************************************************************)
EXTENDS ThreadPool, SequenceTheorems, TLAPS

----------------------------------------------------------------------------
(* The inductive invariant *)

(* The tasks that have left the queue are the first ones. *)
Dequeued == submitted - Len(tasks)

(* The queue holds the last tasks that were submitted, in order. *)
QueueInv ==
    /\ Len(tasks) <= submitted
    /\ \A i \in 1..Len(tasks) : tasks[i] = Dequeued + i

(* A worker has a task exactly while it runs it, and no two have the same. *)
HeldInv ==
    /\ \A w \in Workers : (task[w] # 0) <=> (wpc[w] = "run")
    /\ \A w \in Workers : task[w] <= Dequeued
    /\ \A v, w \in Workers : task[v] = task[w] /\ task[v] # 0 => v = w

(* What the place of a task says about its future and its runs. *)
PlaceInv ==
    \A t \in Tasks :
        /\ t > submitted => future[t] = "none" /\ runs[t] = 0
        /\ t \in (Dequeued + 1)..submitted => future[t] = "pending" /\ runs[t] = 0
        /\ Taken(t) => future[t] = "pending" /\ runs[t] = 0
        /\ t <= Dequeued /\ ~Taken(t) => future[t] \in {"value", "exception"} /\ runs[t] = 1

(* Only a worker that sleeps is blocked on the condition variable; a worker *)
(* returns only when nothing can be enqueued any more, and nobody blocks    *)
(* after notify_all.                                                        *)
StopInv ==
    /\ \A w \in condition : wpc[w] = "asleep"
    /\ stop <=> mainPc \in {"notifyAll", "join", "done"}
    /\ \A w \in Workers : wpc[w] = "returned" => stop /\ tasks = <<>>
    /\ mainPc \in {"join", "done"} => condition = {}
    /\ mainPc = "done" => \A w \in Workers : wpc[w] = "returned"

IInv == TypeOK /\ QueueInv /\ HeldInv /\ PlaceInv /\ StopInv /\ SomeoneAwake

----------------------------------------------------------------------------
(* The initial state *)

(* Before anything is submitted the invariant holds. *)
LEMMA InitInv == Init => IInv
<1> SUFFICES ASSUME Init PROVE IInv
  OBVIOUS
<1> USE ThreadPoolAssumption
<1>1. tasks \in Seq(Tasks) /\ Len(tasks) = 0 /\ submitted = 0 /\ Dequeued = 0
  <2>1. tasks = <<>>
    BY DEF Init
  <2>2. submitted = 0
    BY DEF Init
  <2>3. tasks \in Seq(Tasks) /\ Len(tasks) = 0
    BY <2>1, EmptySeq
  <2> QED BY <2>2, <2>3 DEF Dequeued
<1>2. TypeOK
  <2>1. /\ stop \in BOOLEAN
        /\ condition \subseteq Workers
        /\ mainPc \in {"enqueue", "notify", "notifyAll", "join", "done"}
    BY DEF Init
  <2>2. wpc \in [Workers -> {"loop", "asleep", "run", "returned"}]
    BY DEF Init
  <2>3. collected \in 0..NumTasks /\ task \in [Workers -> 0..NumTasks]
    BY DEF Init
  <2>4. /\ future \in [Tasks -> {"none", "pending", "value", "exception"}]
        /\ runs \in [Tasks -> Nat]
    BY DEF Init
  <2> QED BY <1>1, <2>1, <2>2, <2>3, <2>4 DEF TypeOK
<1>3. QueueInv
  BY <1>1 DEF QueueInv
<1>4. HeldInv
  BY <1>1 DEF Init, HeldInv
<1>5. PlaceInv
  BY <1>1 DEF Init, PlaceInv, Tasks, Taken
<1>6. StopInv
  BY DEF Init, StopInv
<1>7. SomeoneAwake
  BY DEF Init, SomeoneAwake
<1> QED BY <1>2, <1>3, <1>4, <1>5, <1>6, <1>7 DEF IInv

----------------------------------------------------------------------------
(* The steps that move a task *)

(* TakeTask: the first task of the window leaves it and is with one worker. *)
LEMMA TakeTaskInv ==
    ASSUME IInv, NEW w \in Workers, TakeTask(w)
    PROVE  IInv'
<1> USE ThreadPoolAssumption
<1>1. /\ Len(tasks) \in Nat \ {0}
      /\ Head(tasks) = tasks[1]
      /\ Head(tasks) \in Tasks
      /\ tasks' \in Seq(Tasks)
      /\ Len(tasks') = Len(tasks) - 1
      /\ \A i \in 1..Len(tasks') : tasks'[i] = tasks[i + 1]
  BY EmptySeq, LenProperties, HeadTailProperties DEF TakeTask, IInv, TypeOK
<1>2. /\ submitted' = submitted /\ submitted \in Nat
      /\ Dequeued \in Nat /\ Dequeued' = Dequeued + 1
      /\ Head(tasks) = Dequeued + 1
      /\ Dequeued' <= submitted
  BY <1>1 DEF TakeTask, mainVars, IInv, TypeOK, QueueInv, Dequeued
<1>3. /\ task' = [task EXCEPT ![w] = Head(tasks)]
      /\ wpc' = [wpc EXCEPT ![w] = "run"]
      /\ wpc[w] = "loop"
      /\ tasks # <<>>
      /\ UNCHANGED <<stop, condition, future, runs, mainPc, collected>>
  BY DEF TakeTask, WorkerGoto, mainVars
<1>4. TypeOK'
  <2>1. /\ wpc' \in [Workers -> {"loop", "asleep", "run", "returned"}]
        /\ task' \in [Workers -> 0..NumTasks]
    <3> DEFINE h == Head(tasks)
    <3>1. h \in 0..NumTasks
      <4> HIDE DEF h
      <4>1. h \in Tasks
        BY <1>1 DEF h
      <4> QED BY <4>1 DEF Tasks
    <3>2. /\ wpc \in [Workers -> {"loop", "asleep", "run", "returned"}]
          /\ task \in [Workers -> 0..NumTasks]
      BY DEF IInv, TypeOK
    <3>3. task' = [task EXCEPT ![w] = h] /\ wpc' = [wpc EXCEPT ![w] = "run"]
      BY <1>3
    <3> HIDE DEF h
    <3> QED BY <3>1, <3>2, <3>3
  <2> QED BY <1>1, <1>2, <1>3, <2>1 DEF IInv, TypeOK
<1>5. QueueInv'
  BY <1>1, <1>2 DEF IInv, QueueInv
<1>6. HeldInv'
  <2>1. /\ task \in [Workers -> 0..NumTasks]
        /\ wpc \in [Workers -> {"loop", "asleep", "run", "returned"}]
        /\ Head(tasks) # 0
    BY <1>2 DEF IInv, TypeOK
  <2>2. \A v \in Workers : (task'[v] # 0) <=> (wpc'[v] = "run")
    BY <2>1, <1>3 DEF IInv, HeldInv
  <2>3. \A v \in Workers : task'[v] <= Dequeued'
    BY <2>1, <1>2, <1>3 DEF IInv, HeldInv
  <2>4. \A u, v \in Workers : task'[u] = task'[v] /\ task'[u] # 0 => u = v
    BY <2>1, <1>2, <1>3 DEF IInv, HeldInv
  <2> QED BY <2>2, <2>3, <2>4 DEF HeldInv
<1>7. PlaceInv'
  <2> SUFFICES ASSUME NEW t \in Tasks
               PROVE  /\ t > submitted => future[t] = "none" /\ runs[t] = 0
                      /\ t \in (Dequeued' + 1)..submitted => future[t] = "pending" /\ runs[t] = 0
                      /\ Taken(t)' => future[t] = "pending" /\ runs[t] = 0
                      /\ t <= Dequeued' /\ ~Taken(t)' =>
                            future[t] \in {"value", "exception"} /\ runs[t] = 1
    BY <1>2, <1>3 DEF PlaceInv
  <2>1. task \in [Workers -> 0..NumTasks] /\ t \in Nat
    BY DEF IInv, TypeOK, Tasks
  <2>2. task[w] = 0
    BY <1>3 DEF IInv, HeldInv
  <2>3. Taken(t)' <=> Taken(t) \/ t = Head(tasks)
    BY <2>1, <2>2, <1>3 DEF Taken, Tasks
  <2> QED BY <2>1, <2>3, <1>2 DEF IInv, PlaceInv
<1>8. StopInv'
  BY <1>3 DEF IInv, TypeOK, StopInv
<1>9. SomeoneAwake'
  <2>1. w \notin condition' /\ wpc'[w] # "returned"
    BY <1>3 DEF IInv, TypeOK, StopInv
  <2> QED BY <2>1 DEF SomeoneAwake
<1> QED BY <1>4, <1>5, <1>6, <1>7, <1>8, <1>9 DEF IInv

(* Run: the task of the worker has run, and is with nobody any more. *)
LEMMA RunInv ==
    ASSUME IInv, NEW w \in Workers, NEW result \in {"value", "exception"}, Run(w, result)
    PROVE  IInv'
<1> USE ThreadPoolAssumption
<1>1. /\ wpc[w] = "run"
      /\ future' = [future EXCEPT ![task[w]] = result]
      /\ runs' = [runs EXCEPT ![task[w]] = @ + 1]
      /\ task' = [task EXCEPT ![w] = 0]
      /\ wpc' = [wpc EXCEPT ![w] = "loop"]
  BY DEF Run, WorkerGoto
<1>2. UNCHANGED <<tasks, stop, condition, mainPc, submitted, collected>>
  BY DEF Run, poolVars, mainVars
<1>3. /\ task \in [Workers -> 0..NumTasks]
      /\ wpc \in [Workers -> {"loop", "asleep", "run", "returned"}]
      /\ future \in [Tasks -> {"none", "pending", "value", "exception"}]
      /\ runs \in [Tasks -> Nat]
      /\ submitted \in Nat /\ Len(tasks) \in Nat /\ Dequeued \in Nat
  BY LenProperties DEF IInv, TypeOK, QueueInv, Dequeued
<1>4. /\ Len(tasks') = Len(tasks) /\ Dequeued' = Dequeued
  BY <1>2 DEF Dequeued
<1>5. /\ task[w] \in Tasks
      /\ task[w] <= Dequeued
      /\ runs[task[w]] = 0
  BY <1>1, <1>3 DEF IInv, HeldInv, PlaceInv, Tasks, Taken
<1>6. TypeOK'
  <2>1. /\ task' \in [Workers -> 0..NumTasks]
        /\ wpc' \in [Workers -> {"loop", "asleep", "run", "returned"}]
        /\ future' \in [Tasks -> {"none", "pending", "value", "exception"}]
        /\ runs' \in [Tasks -> Nat]
    BY <1>1, <1>3, <1>5
  <2> QED BY <1>2, <2>1 DEF IInv, TypeOK
<1>7. QueueInv'
  BY <1>2, <1>4 DEF IInv, QueueInv
<1>8. HeldInv'
  BY <1>1, <1>3, <1>4 DEF IInv, HeldInv
<1>9. PlaceInv'
  <2> SUFFICES ASSUME NEW t \in Tasks
               PROVE  /\ t > submitted => future'[t] = "none" /\ runs'[t] = 0
                      /\ t \in (Dequeued + 1)..submitted => future'[t] = "pending" /\ runs'[t] = 0
                      /\ Taken(t)' => future'[t] = "pending" /\ runs'[t] = 0
                      /\ t <= Dequeued /\ ~Taken(t)' =>
                            future'[t] \in {"value", "exception"} /\ runs'[t] = 1
    BY <1>2, <1>4 DEF PlaceInv
  <2>1. t \in Nat \ {0} /\ NumTasks \in Nat /\ Dequeued <= submitted
    BY <1>3 DEF Tasks, IInv, QueueInv, Dequeued
  <2>2. CASE t = task[w]
    <3>1. ~Taken(t)'
      BY <1>1, <1>3, <2>1, <2>2 DEF IInv, HeldInv, Taken
    <3>2. future'[t] = result /\ runs'[t] = 1
      BY <1>1, <1>3, <1>5, <2>2
    <3> QED BY <1>3, <1>5, <2>1, <2>2, <3>1, <3>2
  <2>3. CASE t # task[w]
    <3>1. Taken(t)' <=> Taken(t)
      BY <1>1, <1>3, <2>1, <2>3 DEF Taken
    <3>2. future'[t] = future[t] /\ runs'[t] = runs[t]
      BY <1>1, <1>3, <2>3
    <3> QED BY <3>1, <3>2 DEF IInv, PlaceInv
  <2> QED BY <2>2, <2>3
<1>10. StopInv'
  BY <1>1, <1>2, <1>3 DEF IInv, StopInv
<1>11. SomeoneAwake'
  BY <1>1, <1>2, <1>3 DEF IInv, SomeoneAwake
<1> QED BY <1>6, <1>7, <1>8, <1>9, <1>10, <1>11 DEF IInv

(* Enqueue: the window grows by the next task, and a notification follows. *)
LEMMA EnqueueInv ==
    ASSUME IInv, Enqueue
    PROVE  IInv'
<1> USE ThreadPoolAssumption
<1> DEFINE t == submitted + 1
<1>1. /\ mainPc = "enqueue" /\ mainPc' = "notify"
      /\ submitted' = t
      /\ tasks' = Append(tasks, t)
      /\ future' = [future EXCEPT ![t] = "pending"]
      /\ UNCHANGED <<stop, condition, wpc, task, runs, collected>>
  BY DEF Enqueue
<1>2. submitted \in Nat /\ t \in Tasks
  BY DEF Enqueue, BatchEnd, IInv, TypeOK, Tasks
<1>3. /\ Len(tasks) \in Nat
      /\ tasks' \in Seq(Tasks)
      /\ Len(tasks') = Len(tasks) + 1
      /\ \A i \in 1..Len(tasks) : tasks'[i] = tasks[i]
      /\ tasks'[Len(tasks) + 1] = t
  BY <1>1, <1>2, LenProperties, AppendProperties DEF IInv, TypeOK
<1>4. Dequeued' = Dequeued /\ Dequeued \in Nat
  BY <1>1, <1>2, <1>3 DEF Dequeued, IInv, QueueInv
<1> HIDE DEF t
<1>5. TypeOK'
  <2>1. future' \in [Tasks -> {"none", "pending", "value", "exception"}]
    BY <1>1, <1>2 DEF IInv, TypeOK
  <2>2. submitted' \in 0..NumTasks
    BY <1>1, <1>2 DEF Tasks
  <2> QED BY <1>1, <1>3, <2>1, <2>2 DEF IInv, TypeOK
<1>6. QueueInv'
  <2>1. t = Dequeued + (Len(tasks) + 1)
    BY <1>2, <1>3 DEF t, Dequeued
  <2>2. Len(tasks') <= submitted'
    BY <1>1, <1>2, <1>3 DEF IInv, QueueInv, t
  <2>3. ASSUME NEW i \in 1..Len(tasks') PROVE tasks'[i] = Dequeued + i
    <3>1. CASE i = Len(tasks) + 1
      BY <1>3, <2>1, <3>1
    <3>2. CASE i \in 1..Len(tasks)
      BY <1>3, <3>2 DEF IInv, QueueInv
    <3> QED BY <1>3, <3>1, <3>2
  <2> QED BY <1>4, <2>2, <2>3 DEF QueueInv
<1>7. HeldInv'
  BY <1>1, <1>4 DEF IInv, HeldInv
<1>8. PlaceInv'
  <2> SUFFICES ASSUME NEW u \in Tasks
               PROVE  /\ u > t => future'[u] = "none" /\ runs[u] = 0
                      /\ u \in (Dequeued + 1)..t => future'[u] = "pending" /\ runs[u] = 0
                      /\ Taken(u) => future'[u] = "pending" /\ runs[u] = 0
                      /\ u <= Dequeued /\ ~Taken(u) =>
                            future'[u] \in {"value", "exception"} /\ runs[u] = 1
    BY <1>1, <1>4 DEF PlaceInv, Taken
  <2>1. u \in Nat /\ Dequeued <= submitted
    BY <1>2, <1>3 DEF Tasks, IInv, QueueInv, Dequeued
  <2>2. future'[u] = IF u = t THEN "pending" ELSE future[u]
    BY <1>1, <1>2 DEF IInv, TypeOK
  <2>3. u = t => runs[u] = 0 /\ future[u] = "none"
    BY <1>2, <2>1 DEF t, IInv, PlaceInv
  <2> QED BY <1>2, <1>4, <2>1, <2>2, <2>3 DEF t, IInv, PlaceInv
<1>9. StopInv'
  BY <1>1 DEF IInv, StopInv
<1>10. SomeoneAwake'
  BY <1>1 DEF SomeoneAwake
<1> QED BY <1>5, <1>6, <1>7, <1>8, <1>9, <1>10 DEF IInv

----------------------------------------------------------------------------
(* The steps that move no task *)

(* Where no worker takes or runs a task, the tasks stay where they are. *)
LEMMA TasksInPlace ==
    ASSUME IInv, UNCHANGED <<tasks, task, future, runs, submitted>>,
           \A w \in Workers : (wpc'[w] = "run") <=> (wpc[w] = "run")
    PROVE  QueueInv' /\ HeldInv' /\ PlaceInv'
<1>1. Dequeued' = Dequeued
  BY DEF Dequeued
<1>2. QueueInv' /\ HeldInv'
  BY <1>1 DEF IInv, QueueInv, HeldInv
<1>3. PlaceInv'
  BY <1>1 DEF IInv, PlaceInv, Taken
<1> QED BY <1>2, <1>3

(* Block, Wake, SpuriousWake and Return: a worker goes to sleep only when   *)
(* nothing is queued, and returns only when nothing will be.                *)
LEMMA WorkerInv ==
    ASSUME IInv, NEW w \in Workers, Block(w) \/ Wake(w) \/ SpuriousWake(w) \/ Return(w)
    PROVE  IInv'
<1>1. /\ UNCHANGED <<tasks, stop, task, future, runs, mainPc, submitted, collected>>
      /\ condition' \in {condition, condition \cup {w}, condition \ {w}}
  BY DEF Block, Wake, SpuriousWake, Return, poolVars, workVars, mainVars
<1>2. \/ wpc' = wpc
      \/ /\ wpc[w] \in {"loop", "asleep"}
         /\ \E l \in {"loop", "asleep", "returned"} : wpc' = [wpc EXCEPT ![w] = l]
  BY DEF Block, Wake, SpuriousWake, Return, WorkerGoto, workVars
<1>3. wpc \in [Workers -> {"loop", "asleep", "run", "returned"}]
  BY DEF IInv, TypeOK
<1>4. /\ wpc' \in [Workers -> {"loop", "asleep", "run", "returned"}]
      /\ \A v \in Workers : (wpc'[v] = "run") <=> (wpc[v] = "run")
  BY <1>2, <1>3
<1>5. TypeOK'
  <2>1. condition' \subseteq Workers
    BY <1>1 DEF IInv, TypeOK
  <2> QED BY <1>1, <1>4, <2>1 DEF IInv, TypeOK
<1>6. QueueInv' /\ HeldInv' /\ PlaceInv'
  BY <1>1, <1>4, TasksInPlace
<1>7. StopInv' /\ SomeoneAwake'
  <2>1. CASE Block(w)
    <3>1. /\ ~stop
          /\ tasks = <<>> /\ tasks' = tasks
          /\ condition' = condition \cup {w}
          /\ wpc' = [wpc EXCEPT ![w] = "asleep"]
      BY <1>1, <2>1 DEF Block, WorkerGoto
    <3>2. StopInv'
      BY <1>1, <1>3, <3>1 DEF IInv, TypeOK, StopInv
    <3> QED BY <3>1, <3>2 DEF SomeoneAwake
  <2>2. CASE Wake(w)
    <3>1. /\ wpc[w] = "asleep" /\ w \notin condition
          /\ condition' = condition /\ wpc' = [wpc EXCEPT ![w] = "loop"]
      BY <2>2 DEF Wake, WorkerGoto, poolVars
    <3>2. StopInv'
      BY <1>1, <1>3, <3>1 DEF IInv, TypeOK, StopInv
    <3> QED BY <1>1, <1>3, <3>1, <3>2 DEF IInv, SomeoneAwake
  <2>3. CASE SpuriousWake(w)
    <3>1. condition' = condition \ {w} /\ wpc' = wpc
      BY <2>3 DEF SpuriousWake, workVars
    <3> QED BY <1>1, <1>3, <3>1 DEF IInv, TypeOK, StopInv, SomeoneAwake
  <2>4. CASE Return(w)
    <3>1. /\ stop
          /\ wpc[w] = "loop"
          /\ tasks = <<>> /\ tasks' = tasks
          /\ condition' = condition
          /\ wpc' = [wpc EXCEPT ![w] = "returned"]
      BY <1>1, <2>4 DEF Return, WorkerGoto, poolVars
    <3>2. StopInv'
      BY <1>1, <1>3, <3>1 DEF IInv, TypeOK, StopInv
    <3> QED BY <3>1, <3>2 DEF SomeoneAwake
  <2> QED BY <2>1, <2>2, <2>3, <2>4
<1> QED BY <1>5, <1>6, <1>7 DEF IInv

(* Notify, Get, Stop, NotifyAll and Join: what the main thread does apart   *)
(* from enqueueing.  A notification leaves somebody awake.                  *)
LEMMA MainInv ==
    ASSUME IInv, Notify \/ Get \/ Stop \/ NotifyAll \/ Join
    PROVE  IInv'
<1> USE ThreadPoolAssumption
<1>1. /\ UNCHANGED <<tasks, wpc, task, future, runs, submitted>>
      /\ condition' \subseteq condition
  BY DEF Notify, Get, Stop, NotifyAll, Join, poolVars, workVars
<1>2. TypeOK'
  <2>1. stop' \in BOOLEAN
    BY DEF Notify, Get, Stop, NotifyAll, Join, poolVars, IInv, TypeOK
  <2>2. mainPc' \in {"enqueue", "notify", "notifyAll", "join", "done"}
    BY DEF Notify, Get, Stop, NotifyAll, Join, poolVars, IInv, TypeOK
  <2>3. collected' \in 0..NumTasks
    BY DEF Notify, Get, Stop, NotifyAll, Join, poolVars, IInv, TypeOK
  <2> QED BY <1>1, <2>1, <2>2, <2>3 DEF IInv, TypeOK
<1>3. QueueInv' /\ HeldInv' /\ PlaceInv'
  BY <1>1, TasksInPlace
<1>4. StopInv' /\ SomeoneAwake'
  <2>1. CASE Notify
    <3>1. /\ mainPc = "notify" /\ mainPc' = "enqueue" /\ stop' = stop
      BY <2>1 DEF Notify
    <3>2. \E w \in Workers : w \notin condition'
      BY <2>1 DEF Notify, IInv, TypeOK
    <3>3. StopInv'
      BY <1>1, <3>1 DEF IInv, StopInv
    <3>4. tasks' # <<>> => \A w \in Workers : wpc[w] # "returned"
      BY <1>1 DEF IInv, StopInv
    <3> QED BY <1>1, <3>2, <3>3, <3>4 DEF SomeoneAwake
  <2>2. CASE Get
    <3>1. UNCHANGED <<mainPc, stop, condition>>
      BY <2>2 DEF Get, poolVars
    <3> QED BY <1>1, <3>1 DEF IInv, StopInv, SomeoneAwake
  <2>3. CASE Stop
    <3>1. mainPc' = "notifyAll" /\ stop' /\ condition' = condition
      BY <2>3 DEF Stop
    <3> QED BY <1>1, <3>1 DEF IInv, StopInv, SomeoneAwake
  <2>4. CASE NotifyAll
    <3>1. mainPc = "notifyAll" /\ mainPc' = "join" /\ stop' = stop /\ condition' = {}
      BY <2>4 DEF NotifyAll
    <3>2. StopInv'
      BY <1>1, <3>1 DEF IInv, StopInv
    <3>3. tasks' # <<>> => \A w \in Workers : wpc[w] # "returned"
      BY <1>1 DEF IInv, StopInv
    <3> QED BY <1>1, <3>1, <3>2, <3>3 DEF SomeoneAwake
  <2>5. CASE Join
    <3>1. /\ mainPc = "join" /\ mainPc' = "done"
          /\ stop' = stop /\ condition' = condition
          /\ \A w \in Workers : wpc[w] = "returned"
      BY <2>5 DEF Join, poolVars
    <3> QED BY <1>1, <3>1 DEF IInv, StopInv, SomeoneAwake
  <2> QED BY <2>1, <2>2, <2>3, <2>4, <2>5
<1> QED BY <1>2, <1>3, <1>4 DEF IInv

----------------------------------------------------------------------------
(* The theorems *)

(* Every step keeps the invariant. *)
LEMMA NextInv == IInv /\ [Next]_vars => IInv'
<1> SUFFICES ASSUME IInv, [Next]_vars PROVE IInv'
  OBVIOUS
<1>1. ASSUME NEW w \in Workers, TakeTask(w) PROVE IInv'
  BY <1>1, TakeTaskInv
<1>2. ASSUME NEW w \in Workers, NEW result \in {"value", "exception"}, Run(w, result)
      PROVE  IInv'
  BY <1>2, RunInv
<1>3. ASSUME NEW w \in Workers, Block(w) \/ Wake(w) \/ SpuriousWake(w) \/ Return(w)
      PROVE  IInv'
  BY <1>3, WorkerInv
<1>4. CASE Enqueue
  BY <1>4, EnqueueInv
<1>5. CASE Notify \/ Get \/ Stop \/ NotifyAll \/ Join
  BY <1>5, MainInv
<1>6. CASE UNCHANGED vars
  <2>1. UNCHANGED <<tasks, stop, condition, wpc, task, future, runs, mainPc, submitted, collected>>
    BY <1>6 DEF vars, poolVars, workVars, mainVars
  <2>2. TypeOK'
    BY <2>1 DEF IInv, TypeOK
  <2>3. QueueInv' /\ HeldInv' /\ PlaceInv'
    BY <2>1, TasksInPlace
  <2>4. StopInv' /\ SomeoneAwake'
    BY <2>1 DEF IInv, StopInv, SomeoneAwake
  <2> QED BY <2>2, <2>3, <2>4 DEF IInv
<1> QED BY <1>1, <1>2, <1>3, <1>4, <1>5, <1>6 DEF Next, WorkerStep, MainStep

(* The queue, the workers, the futures and the main thread keep their       *)
(* types: in particular a worker only ever runs a task that exists.         *)
THEOREM TypeCorrect == Spec => []TypeOK
<1>1. IInv => TypeOK
  BY DEF IInv
<1> QED BY <1>1, InitInv, NextInv, PTL DEF Spec

(* enqueue(), the loop of a worker and the packaged task: every task that   *)
(* was enqueued is queued, with a worker, or has run exactly once.          *)
THEOREM TasksRunOnce == Spec => []ExactlyOnce
<1>1. IInv => ExactlyOnce
  <2> SUFFICES ASSUME IInv, NEW t \in Tasks
               PROVE  /\ runs[t] <= 1
                      /\ (runs[t] = 1) <=> future[t] \in {"value", "exception"}
                      /\ (future[t] = "pending") => Queued(t) \/ Taken(t)
    BY DEF ExactlyOnce
  <2>1. /\ t \in Nat /\ submitted \in Nat
        /\ Len(tasks) \in Nat /\ Dequeued \in Nat
        /\ DOMAIN tasks = 1..Len(tasks)
    BY LenProperties, ThreadPoolAssumption DEF IInv, TypeOK, QueueInv, Dequeued, Tasks
  <2>2. t \in (Dequeued + 1)..submitted => Queued(t)
    <3> SUFFICES ASSUME t \in (Dequeued + 1)..submitted PROVE Queued(t)
      OBVIOUS
    <3>1. t - Dequeued \in 1..Len(tasks)
      BY <2>1 DEF Dequeued
    <3>2. tasks[t - Dequeued] = t
      BY <2>1, <3>1 DEF IInv, QueueInv
    <3> QED BY <2>1, <3>1, <3>2 DEF Queued
  <2> QED BY <2>1, <2>2 DEF IInv, PlaceInv
<1> QED BY <1>1, InitInv, NextInv, PTL DEF Spec

(* The destructor has returned: everything that was ever enqueued has run.  *)
DoneAfterAll == mainPc = "done" => \A t \in 1..submitted : runs[t] = 1

(* The destructor joins workers that return only from an empty queue, so    *)
(* that it is never done with a task queued or half run.                    *)
THEOREM DestructorDrains == Spec => []DoneAfterAll
<1>1. IInv => DoneAfterAll
  <2> SUFFICES ASSUME IInv, mainPc = "done", NEW t \in 1..submitted
               PROVE  runs[t] = 1
    BY DEF DoneAfterAll
  <2>1. \A w \in Workers : wpc[w] = "returned" /\ task[w] = 0
    BY DEF IInv, StopInv, HeldInv
  <2>2. tasks = <<>>
    BY <2>1, ThreadPoolAssumption DEF IInv, StopInv
  <2>3. Len(tasks) = 0
    BY <2>2
  <2>4. submitted \in 0..NumTasks
    BY DEF IInv, TypeOK
  <2>5. Dequeued = submitted /\ t \in Tasks
    BY <2>3, <2>4, ThreadPoolAssumption DEF Dequeued, Tasks
  <2>6. ~Taken(t) /\ t <= Dequeued
    BY <2>1, <2>4, <2>5 DEF Taken
  <2> QED BY <2>5, <2>6 DEF IInv, PlaceInv
<1> QED BY <1>1, InitInv, NextInv, PTL DEF Spec

(* notify_one() after the unlock: no wake-up is lost, so that the queue is  *)
(* never full of tasks that every worker sleeps through.                    *)
THEOREM NoLostWakeUp == Spec => []SomeoneAwake
<1>1. IInv => SomeoneAwake
  BY DEF IInv
<1> QED BY <1>1, InitInv, NextInv, PTL DEF Spec

============================================================================
