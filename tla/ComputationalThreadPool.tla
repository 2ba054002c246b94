----------------------- MODULE ComputationalThreadPool -----------------------
(***************************************************************************)
(* base::thread_pool::computational::ThreadPool                            *)
(* (base/thread_pool_computational.hpp): a queue of tasks under m_mutex, a *)
(* condition variable, and threads that run Worker.  The section under the *)
(* mutex, the notification after it and the run of a task are separate     *)
(* steps.  The thread that owns the pool constructs, stops and destroys    *)
(* it; client threads submit tasks, or call PerformParallelWorks and wait. *)
(***************************************************************************)
EXTENDS Naturals, FiniteSets, SeqOps

CONSTANTS
  Worker,    \* threads of the pool
  Client,    \* threads that submit tasks
  MaxTasks   \* bounds how many tasks a client submits

ASSUME PoolAssumption ==
  /\ IsFiniteSet(Worker) /\ Worker # {}   \* CHECK_GREATER(threadCount, 0)
  /\ MaxTasks \in Nat

\* The tasks a client submits are numbered.
Task == Client \X (1..MaxTasks)

VARIABLES
  m_done,
  m_queue,   \* tasks not yet started
  worker,    \* worker[w]: where the thread is
  task,      \* task[w]: the local variable of Worker
  future,    \* future[t]: the shared state of the future of t
  made,      \* made[c]: how many tasks c has submitted
  client,    \* client[c]: where client c is
  call,      \* call[c]: the futures that the PerformParallelWorks of c collects
  left,      \* left[c]: how many tasks that call has still to submit
  owner,     \* where the owner is
  ending,    \* the pool is gone once its threads are joined
  accepted   \* history: the tasks ever put into m_queue, in order

vars == <<m_done, m_queue, worker, task, future, made, client, call, left, owner, ending, accepted>>

\* A thread is not yet created, about to lock m_mutex, blocked in
\* m_condition.wait, running a task, or gone.
WorkerAt == {"none", "lock", "blocked", "run", "exit"}
NoTask == <<>>

Blocked == {w \in Worker : worker[w] = "blocked"}

\* m_condition.notify_one() and notify_all()
NotifyOne ==
  IF Blocked = {}
  THEN UNCHANGED worker
  ELSE \E w \in Blocked : worker' = [worker EXCEPT ![w] = "lock"]

NotifyAll ==
  worker' = [w \in Worker |-> IF w \in Blocked THEN "lock" ELSE worker[w]]

----------------------------------------------------------------------------
(* The threads of the pool: Worker *)

\* The predicate of wait is false: the thread releases the mutex and blocks.
Wait(w) ==
  /\ worker[w] = "lock"
  /\ ~m_done /\ m_queue = <<>>
  /\ worker' = [worker EXCEPT ![w] = "blocked"]
  /\ UNCHANGED <<m_done, m_queue, task, future, made, client, call, left, owner, ending, accepted>>

\* Wake-up without a notification.
SpuriousWake(w) ==
  /\ w \in Blocked
  /\ worker' = [worker EXCEPT ![w] = "lock"]
  /\ UNCHANGED <<m_done, m_queue, task, future, made, client, call, left, owner, ending, accepted>>

\* Starts the newest task.
TakeNewest(w) ==
  /\ worker[w] = "lock"
  /\ m_queue # <<>>
  /\ worker' = [worker EXCEPT ![w] = "run"]
  /\ task' = [task EXCEPT ![w] = Last(m_queue)]
  /\ m_queue' = SubSeq(m_queue, 1, Len(m_queue) - 1)
  /\ UNCHANGED <<m_done, future, made, client, call, left, owner, ending, accepted>>

\* Forgets m_queue.pop().
TakeWithoutPop(w) ==
  /\ worker[w] = "lock"
  /\ m_queue # <<>>
  /\ worker' = [worker EXCEPT ![w] = "run"]
  /\ task' = [task EXCEPT ![w] = Head(m_queue)]
  /\ UNCHANGED <<m_done, m_queue, future, made, client, call, left, owner, ending, accepted>>

\* task = std::move(m_queue.front()); m_queue.pop()
Take(w) ==
  /\ worker[w] = "lock"
  /\ m_queue # <<>>
  /\ worker' = [worker EXCEPT ![w] = "run"]
  /\ task' = [task EXCEPT ![w] = Head(m_queue)]
  /\ m_queue' = Tail(m_queue)
  /\ UNCHANGED <<m_done, future, made, client, call, left, owner, ending, accepted>>

\* task() returns; the packaged task has made its future ready.
Finish(w) ==
  /\ worker[w] = "run"
  /\ future' = [future EXCEPT ![task[w]] = "ready"]
  /\ worker' = [worker EXCEPT ![w] = "lock"]
  /\ task' = [task EXCEPT ![w] = NoTask]
  /\ UNCHANGED <<m_done, m_queue, made, client, call, left, owner, ending, accepted>>

\* Leaves when the pool is done, whatever is in the queue.
ExitEarly(w) ==
  /\ worker[w] = "lock"
  /\ m_done
  /\ worker' = [worker EXCEPT ![w] = "exit"]
  /\ UNCHANGED <<m_done, m_queue, task, future, made, client, call, left, owner, ending, accepted>>

Exit(w) ==
  /\ worker[w] = "lock"
  /\ m_done /\ m_queue = <<>>
  /\ worker' = [worker EXCEPT ![w] = "exit"]
  /\ UNCHANGED <<m_done, m_queue, task, future, made, client, call, left, owner, ending, accepted>>

----------------------------------------------------------------------------
(* Clients *)

\* The pool is constructed and its destructor has not begun.
Usable == owner # "construct" /\ ~ending

NextTask(c) == <<c, made[c] + 1>>

\* The section under the mutex without the test of m_done.
SubmitUnchecked(c, then, otherwise) ==
  /\ made[c] < MaxTasks
  /\ made' = [made EXCEPT ![c] = @ + 1]
  /\ future' = [future EXCEPT ![NextTask(c)] = "pending"]
  /\ m_queue' = Append(m_queue, NextTask(c))
  /\ accepted' = Append(accepted, NextTask(c))
  /\ client' = [client EXCEPT ![c] = then]

(***************************************************************************)
(* The section under the mutex of Submit and SubmitWork: client c goes on  *)
(* to the notification (then), or returns an invalid future from a stopped *)
(* pool (otherwise).                                                       *)
(***************************************************************************)
SubmitLocked(c, then, otherwise) ==
  /\ made[c] < MaxTasks
  /\ made' = [made EXCEPT ![c] = @ + 1]
  /\ \/ /\ m_done
        /\ future' = [future EXCEPT ![NextTask(c)] = "invalid"]
        /\ client' = [client EXCEPT ![c] = otherwise]
        /\ UNCHANGED <<m_queue, accepted>>
     \/ /\ ~m_done
        /\ future' = [future EXCEPT ![NextTask(c)] = "pending"]
        /\ m_queue' = Append(m_queue, NextTask(c))
        /\ accepted' = Append(accepted, NextTask(c))
        /\ client' = [client EXCEPT ![c] = then]

Submit(c) ==
  /\ Usable /\ client[c] = "idle"
  /\ SubmitLocked(c, "notify", "idle")
  /\ UNCHANGED <<m_done, worker, task, call, left, owner, ending>>

\* Never notifies.
SubmitNotifyForgotten(c, from, to) ==
  /\ client[c] = from
  /\ client' = [client EXCEPT ![c] = to]
  /\ UNCHANGED <<m_done, m_queue, worker, task, future, made, call, left, owner, ending, accepted>>

\* m_condition.notify_one() after the mutex is released.
SubmitNotify(c, from, to) ==
  /\ client[c] = from
  /\ NotifyOne
  /\ client' = [client EXCEPT ![c] = to]
  /\ UNCHANGED <<m_done, m_queue, task, future, made, call, left, owner, ending, accepted>>

\* PerformParallelWorks asked for n = min(max(1, hint), Size()) tasks.
PerformParallelWorks(c) ==
  /\ Usable /\ client[c] = "idle"
  /\ \E n \in 1..Cardinality(Worker) :
       /\ made[c] + n <= MaxTasks
       /\ left' = [left EXCEPT ![c] = n]
  /\ call' = [call EXCEPT ![c] = {}]
  /\ client' = [client EXCEPT ![c] = "perform"]
  /\ UNCHANGED <<m_done, m_queue, worker, task, future, made, owner, ending, accepted>>

\* One submission too many.
PerformSubmitUnbounded(c) ==
  /\ client[c] = "perform"
  /\ SubmitLocked(c, "perform_notify", "perform")
  /\ left' = [left EXCEPT ![c] = @ - 1]
  /\ call' = [call EXCEPT ![c] = @ \cup {NextTask(c)}]
  /\ UNCHANGED <<m_done, worker, task, owner, ending>>

\* workers.push_back(Submit(func))
PerformSubmit(c) ==
  /\ client[c] = "perform" /\ left[c] > 0
  /\ SubmitLocked(c, "perform_notify", "perform")
  /\ left' = [left EXCEPT ![c] = @ - 1]
  /\ call' = [call EXCEPT ![c] = @ \cup {NextTask(c)}]
  /\ UNCHANGED <<m_done, worker, task, owner, ending>>

\* wait() returns for a value and for a broken promise alike.
Waited(c) == \A t \in call[c] : future[t] \in {"ready", "broken", "invalid"}

\* Returns without waiting for the last worker.
PerformReturnEarly(c) ==
  /\ client[c] = "perform" /\ left[c] = 0
  /\ \A t \in call[c] : t[2] < made[c] => future[t] # "pending"
  /\ client' = [client EXCEPT ![c] = "idle"]
  /\ UNCHANGED <<m_done, m_queue, worker, task, future, made, call, left, owner, ending, accepted>>

\* The loop of worker.wait() ends; on an invalid future wait() throws
\* std::future_error, and nothing in PerformParallelWorks catches it.
PerformReturn(c) ==
  /\ client[c] = "perform" /\ left[c] = 0
  /\ Waited(c)
  /\ client' = [client EXCEPT ![c] =
                  IF \E t \in call[c] : future[t] = "invalid" THEN "threw" ELSE "idle"]
  /\ UNCHANGED <<m_done, m_queue, worker, task, future, made, call, left, owner, ending, accepted>>

\* m_queue.swap(empty): the promises of the dropped tasks are broken.
DropQueue ==
  /\ m_queue' = <<>>
  /\ future' = [t \in Task |-> IF t \in Elements(m_queue) THEN "broken" ELSE future[t]]

Stop(c) ==
  /\ Usable /\ client[c] = "idle"
  /\ DropQueue
  /\ m_done' = TRUE
  /\ client' = [client EXCEPT ![c] = "notify_all"]
  /\ UNCHANGED <<worker, task, made, call, left, owner, ending, accepted>>

StopNotify(c) ==
  /\ client[c] = "notify_all"
  /\ NotifyAll
  /\ client' = [client EXCEPT ![c] = "idle"]
  /\ UNCHANGED <<m_done, m_queue, task, future, made, call, left, owner, ending, accepted>>
----------------------------------------------------------------------------
(* The owner: constructor, WaitingStop, destructor *)

\* m_threads.emplace_back(&ThreadPool::Worker, this)
StartThread(w) ==
  /\ owner = "construct" /\ worker[w] = "none"
  /\ worker' = [worker EXCEPT ![w] = "lock"]
  /\ UNCHANGED <<m_done, m_queue, task, future, made, client, call, left, owner, ending, accepted>>

\* The operating system refuses a thread: the constructor stops the pool, and
\* m_joiner joins the threads that were started.
StartThreadFails ==
  /\ owner = "construct" /\ \E w \in Worker : worker[w] = "none"
  /\ DropQueue
  /\ m_done' = TRUE
  /\ owner' = "notify"
  /\ ending' = TRUE
  /\ UNCHANGED <<worker, task, made, client, call, left, accepted>>

Constructed ==
  /\ owner = "construct" /\ \A w \in Worker : worker[w] # "none"
  /\ owner' = "run"
  /\ UNCHANGED <<m_done, m_queue, worker, task, future, made, client, call, left, ending, accepted>>

WaitingStop ==
  /\ owner = "run"
  /\ m_done' = TRUE
  /\ owner' = "notify"
  /\ UNCHANGED <<m_queue, worker, task, future, made, client, call, left, ending, accepted>>

\* ~ThreadPool, when no other thread uses the pool any more.
Destroy ==
  /\ owner = "run" /\ \A c \in Client : client[c] \in {"idle", "threw"}
  /\ m_done' = TRUE
  /\ owner' = "notify"
  /\ ending' = TRUE
  /\ UNCHANGED <<m_queue, worker, task, future, made, client, call, left, accepted>>

OwnerNotify ==
  /\ owner = "notify"
  /\ NotifyAll
  /\ owner' = "join"
  /\ UNCHANGED <<m_done, m_queue, task, future, made, client, call, left, ending, accepted>>

\* ThreadsJoiner::Join
Join ==
  /\ owner = "join" /\ \A w \in Worker : worker[w] \in {"none", "exit"}
  /\ owner' = IF ending THEN "end" ELSE "run"
  /\ UNCHANGED <<m_done, m_queue, worker, task, future, made, client, call, left, ending, accepted>>

Gone == owner = "end" /\ UNCHANGED vars

----------------------------------------------------------------------------

Init ==
  /\ m_done = FALSE
  /\ m_queue = <<>>
  /\ worker = [w \in Worker |-> "none"]
  /\ task = [w \in Worker |-> NoTask]
  /\ future = [t \in Task |-> "none"]
  /\ made = [c \in Client |-> 0]
  /\ client = [c \in Client |-> "idle"]
  /\ call = [c \in Client |-> {}]
  /\ left = [c \in Client |-> 0]
  /\ owner = "construct"
  /\ ending = FALSE
  /\ accepted = <<>>

WorkerStep(w) == Wait(w) \/ Take(w) \/ Finish(w) \/ Exit(w)

\* What a client does once it has called a function of the pool.
ClientStep(c) ==
  \/ SubmitNotify(c, "notify", "idle")
  \/ PerformSubmit(c)
  \/ SubmitNotify(c, "perform_notify", "perform")
  \/ PerformReturn(c)
  \/ StopNotify(c)

OwnerStep == (\E w \in Worker : StartThread(w)) \/ Constructed \/ OwnerNotify \/ Join

Next ==
  \/ \E w \in Worker : WorkerStep(w) \/ SpuriousWake(w)
  \/ \E c \in Client : ClientStep(c) \/ Submit(c) \/ PerformParallelWorks(c) \/ Stop(c)
  \/ OwnerStep \/ StartThreadFails \/ WaitingStop \/ Destroy
  \/ Gone

\* Threads are scheduled and tasks end.  Nobody has to submit, stop or destroy.
Fairness ==
  /\ \A w \in Worker : WF_vars(WorkerStep(w))
  /\ \A c \in Client : WF_vars(ClientStep(c))
  /\ WF_vars(OwnerStep)

Spec == Init /\ [][Next]_vars /\ Fairness

----------------------------------------------------------------------------

\* Type correctness.
TypeOK ==
  /\ m_done \in BOOLEAN
  /\ m_queue \in Seq(Task)
  /\ worker \in [Worker -> WorkerAt]
  /\ task \in [Worker -> Task \cup {NoTask}]
  /\ future \in [Task -> {"none", "pending", "ready", "broken", "invalid"}]
  /\ made \in [Client -> 0..MaxTasks]
  /\ client \in [Client -> {"idle", "notify", "perform", "perform_notify",
                            "notify_all", "threw"}]
  /\ call \in [Client -> SUBSET Task]
  /\ left \in [Client -> Nat]
  /\ owner \in {"construct", "run", "notify", "join", "end"}
  /\ ending \in BOOLEAN
  /\ accepted \in Seq(Task)

\* The tasks in the hands of the threads.
RunningTasks == {task[w] : w \in {v \in Worker : worker[v] = "run"}}

\* A future is pending exactly while its task is in one place: once in the
\* queue or with one thread.  So every task runs at most once, and none is
\* lost between Submit, Worker and Stop.
PendingIsOwned ==
  /\ \A t \in Task : future[t] = "pending" <=> t \in Elements(m_queue) \cup RunningTasks
  /\ Elements(m_queue) \cap RunningTasks = {}
  /\ \A k, l \in 1..Len(m_queue) : m_queue[k] = m_queue[l] => k = l
  /\ \A v, w \in Worker :
       worker[v] = "run" /\ worker[w] = "run" /\ task[v] = task[w] => v = w

\* Tasks leave the queue in the order of submission: a task is still waiting
\* only if all later ones are.  The merge of translators, whose tasks wait for
\* earlier tasks, rests on this (generator/raw_generator.cpp:202).
StartOrder ==
  \A k, l \in 1..Len(accepted) :
    k < l /\ accepted[k] \in Elements(m_queue) => accepted[l] \in Elements(m_queue)

\* "This function will block until all runnables have been completed"
\* (thread_pool_computational.hpp:53): no future is pending when the threads
\* of a constructed pool are gone.
ExitedIsComplete ==
  owner # "construct" /\ (\A w \in Worker : worker[w] \in {"none", "exit"}) =>
    \A t \in Task : future[t] # "pending"

\* PerformParallelWorks returns only when all its works have ended, whatever
\* other clients and Stop do meanwhile.
PerformWaits ==
  \A c \in Client : client[c] \in {"idle", "threw"} =>
    \A t \in call[c] : future[t] \in {"ready", "broken", "invalid"}

\* The pool keeps the promises of TaskPool.
Abstract == INSTANCE TaskPool
  WITH Size    <- Cardinality(Worker),
       seen    <- Elements(accepted),
       todo    <- m_queue,
       running <- RunningTasks,
       closed  <- m_done

ImplementsTaskPool == Abstract!Spec

\* No wake-up is lost: again and again no future is pending.  A client submits
\* finitely many tasks, so every accepted task is run or dropped.
AcceptedEnds == []<>(\A t \in Task : future[t] # "pending")

\* WaitingStop, the destructor and a failed constructor return.
JoinReturns == []<>(owner # "join")

\* PerformParallelWorks comes to an end, also when the pool is stopped: again
\* and again no client is in one of its finitely many calls.
PerformEnds == []<>(\A c \in Client : client[c] \notin {"perform", "perform_notify"})

\* "If the thread pool is stopped then the call will be ignored"
\* (thread_pool_computational.hpp:106): the caller of PerformParallelWorks
\* never meets an exception.
StoppedCallIsIgnored == \A c \in Client : client[c] # "threw"
=============================================================================
