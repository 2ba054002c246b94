------------------- MODULE ComputationalThreadPoolProofs -------------------
(***************************************************************************)
(* Proofs about ComputationalThreadPool, for any finite set of threads,    *)
(* any clients and any number of tasks.                                    *)
(***************************************************************************)
EXTENDS ComputationalThreadPool, SequenceTheorems, FiniteSetTheorems, TLAPS

\* PendingIsOwned without sets of elements, and: a running thread has a task.
Owned ==
  /\ \A w \in Worker : worker[w] = "run" => task[w] \in Task
  /\ \A t \in Task : future[t] = "pending" <=>
       \/ \E k \in 1..Len(m_queue) : m_queue[k] = t
       \/ \E w \in Worker : worker[w] = "run" /\ task[w] = t
  /\ \A k \in 1..Len(m_queue), w \in Worker : worker[w] = "run" => m_queue[k] # task[w]
  /\ \A k, l \in 1..Len(m_queue) : m_queue[k] = m_queue[l] => k = l
  /\ \A v, w \in Worker :
       worker[v] = "run" /\ worker[w] = "run" /\ task[v] = task[w] => v = w

\* Only submitted tasks have futures; accepted tasks are different; the queue
\* is the end of the history.
History ==
  /\ \A c \in Client, k \in 1..MaxTasks : future[<<c, k>>] # "none" => k <= made[c]
  /\ \A k \in 1..Len(accepted) : future[accepted[k]] # "none"
  /\ \A k, l \in 1..Len(accepted) : accepted[k] = accepted[l] => k = l
  /\ Len(m_queue) <= Len(accepted)
  /\ \A k \in 1..Len(m_queue) : m_queue[k] = accepted[Len(accepted) - Len(m_queue) + k]

\* A thread is gone only from a finished queue; before the constructor is
\* through nobody has used the pool.
Threads ==
  /\ \A w \in Worker : worker[w] = "exit" => m_done /\ m_queue = <<>>
  /\ \A w \in Worker : worker[w] = "none" =>
       /\ m_queue = <<>>
       /\ owner = "construct" \/ ending
       /\ \A c \in Client : client[c] = "idle"

Ended == {"ready", "broken", "invalid"}

\* A client that is not in PerformParallelWorks has waited for its last call.
Calls ==
  /\ \A c \in Client : \A t \in call[c] : future[t] # "none"
  /\ \A c \in Client : client[c] \notin {"perform", "perform_notify"} =>
       \A t \in call[c] : future[t] \in Ended

\* The inductive invariant.
IInv == TypeOK /\ Owned /\ History /\ Threads /\ Calls

----------------------------------------------------------------------------

\* Types of what sequences of tasks hold.
LEMMA QueueTypes ==
  ASSUME TypeOK
  PROVE  /\ Len(m_queue) \in Nat /\ \A k \in 1..Len(m_queue) : m_queue[k] \in Task
         /\ Len(accepted) \in Nat /\ \A k \in 1..Len(accepted) : accepted[k] \in Task
<1>1. m_queue \in Seq(Task) /\ accepted \in Seq(Task)
  BY DEF TypeOK
<1> QED
  BY <1>1, LenProperties

\* A step that neither starts nor ends a task.
LEMMA DataUnchanged ==
  ASSUME Owned, History, UNCHANGED <<m_queue, task, future, made, accepted>>,
         \A w \in Worker : worker'[w] = "run" <=> worker[w] = "run"
  PROVE  Owned' /\ History'
<1>1. History'
  BY DEF History
<1>2. \A w \in Worker : worker'[w] = "run" => task'[w] \in Task
  BY DEF Owned
<1>3. ASSUME NEW t \in Task
      PROVE  future'[t] = "pending" <=>
               \/ \E k \in 1..Len(m_queue') : m_queue'[k] = t
               \/ \E w \in Worker : worker'[w] = "run" /\ task'[w] = t
  BY DEF Owned
<1>4. /\ \A k \in 1..Len(m_queue'), w \in Worker :
           worker'[w] = "run" => m_queue'[k] # task'[w]
      /\ \A k, l \in 1..Len(m_queue') : m_queue'[k] = m_queue'[l] => k = l
      /\ \A v, w \in Worker :
           worker'[v] = "run" /\ worker'[w] = "run" /\ task'[v] = task'[w] => v = w
  BY DEF Owned
<1> QED
  BY <1>1, <1>2, <1>3, <1>4 DEF Owned

\* A step that moves threads only.
LEMMA CallsUnchanged ==
  ASSUME Calls, UNCHANGED <<future, client, call>>
  PROVE  Calls'
BY DEF Calls

\* A notification moves blocked threads to the mutex and nothing else.
LEMMA NotifyMoves ==
  ASSUME TypeOK, NotifyOne \/ NotifyAll
  PROVE  /\ worker' \in [Worker -> WorkerAt]
         /\ \A w \in Worker : \/ worker'[w] = worker[w]
                              \/ worker[w] = "blocked" /\ worker'[w] = "lock"
<1>1. worker \in [Worker -> WorkerAt] /\ "lock" \in WorkerAt
  BY DEF TypeOK, WorkerAt
<1>2. CASE NotifyOne
  BY <1>1, <1>2 DEF NotifyOne, Blocked
<1>3. CASE NotifyAll
  BY <1>1, <1>3 DEF NotifyAll, Blocked
<1> QED
  BY <1>2, <1>3

\* Initially.
LEMMA InitIInv == Init => IInv
<1> SUFFICES ASSUME Init PROVE IInv
  OBVIOUS
<1>1. <<>> \in Seq(Task) /\ Len(<<>>) = 0
  BY EmptySeq
<1>2. 1..0 = {}
  OBVIOUS
<1>3. TypeOK
  <2>1. m_done \in BOOLEAN /\ ending \in BOOLEAN
    BY Zenon DEF Init
  <2>2. 0 \in 0..MaxTasks /\ 0 \in Nat
    BY PoolAssumption
  <2>3. worker \in [Worker -> WorkerAt] /\ task \in [Worker -> Task \cup {NoTask}]
    BY DEF Init, WorkerAt
  <2> QED
    BY <1>1, <2>1, <2>2, <2>3 DEF Init, TypeOK
<1>4. Owned
  BY <1>1, <1>2 DEF Init, Owned
<1>5. History
  BY <1>1, <1>2 DEF Init, History, Task
<1>6. Threads
  BY DEF Init, Threads
<1>7. Calls
  BY DEF Init, Calls
<1> QED
  BY <1>3, <1>4, <1>5, <1>6, <1>7 DEF IInv

----------------------------------------------------------------------------
(* Steps that only move threads *)

\* Wait, SpuriousWake and Exit.
LEMMA MoveKeepsIInv ==
  ASSUME IInv, NEW w \in Worker, Wait(w) \/ SpuriousWake(w) \/ Exit(w)
  PROVE  IInv'
<1>1. UNCHANGED <<m_done, m_queue, task, future, made, client, call, left, owner, ending, accepted>>
  BY DEF Wait, SpuriousWake, Exit
<1>2. PICK a \in {"lock", "blocked", "exit"} :
        /\ worker' = [worker EXCEPT ![w] = a]
        /\ worker[w] \in {"lock", "blocked"}
        /\ a = "exit" => m_done /\ m_queue = <<>>
  BY DEF Wait, SpuriousWake, Exit, Blocked
<1>3. /\ worker' \in [Worker -> WorkerAt] /\ worker'[w] = a
      /\ \A v \in Worker : v # w => worker'[v] = worker[v]
  BY <1>2 DEF IInv, TypeOK, WorkerAt
<1>4. TypeOK'
  BY <1>1, <1>3 DEF IInv, TypeOK
<1>5. Owned' /\ History'
  BY <1>1, <1>2, <1>3, DataUnchanged DEF IInv
<1>6. Threads'
  BY <1>1, <1>2, <1>3 DEF IInv, Threads
<1>7. Calls'
  BY <1>1, CallsUnchanged DEF IInv
<1> QED
  BY <1>4, <1>5, <1>6, <1>7 DEF IInv

\* The notifications of Submit and Stop.
LEMMA ClientNotifyKeepsIInv ==
  ASSUME IInv, NEW c \in Client,
         \/ SubmitNotify(c, "notify", "idle")
         \/ SubmitNotify(c, "perform_notify", "perform")
         \/ StopNotify(c)
  PROVE  IInv'
<1>1. UNCHANGED <<m_done, m_queue, task, future, made, call, left, owner, ending, accepted>>
  BY DEF SubmitNotify, StopNotify
<1>2. NotifyOne \/ NotifyAll
  BY DEF SubmitNotify, StopNotify
<1>3. /\ worker' \in [Worker -> WorkerAt]
      /\ \A w \in Worker : \/ worker'[w] = worker[w]
                           \/ worker[w] = "blocked" /\ worker'[w] = "lock"
  BY <1>2, NotifyMoves DEF IInv
<1>4. PICK a \in {"idle", "perform"} :
        /\ client' = [client EXCEPT ![c] = a]
        /\ client[c] # "idle"
        /\ a = "idle" => client[c] \notin {"perform", "perform_notify"}
  BY DEF SubmitNotify, StopNotify
<1>5. TypeOK'
  BY <1>1, <1>3, <1>4 DEF IInv, TypeOK
<1>6. Owned' /\ History'
  BY <1>1, <1>3, DataUnchanged DEF IInv
<1>7. Threads'
  BY <1>1, <1>3, <1>4 DEF IInv, Threads
<1>8. Calls'
  BY <1>1, <1>4 DEF IInv, Calls, TypeOK
<1> QED
  BY <1>5, <1>6, <1>7, <1>8 DEF IInv

\* The begin and the end of PerformParallelWorks.
LEMMA PerformKeepsIInv ==
  ASSUME IInv, NEW c \in Client, PerformParallelWorks(c) \/ PerformReturn(c)
  PROVE  IInv'
<1>1. UNCHANGED <<m_done, m_queue, worker, task, future, made, owner, ending, accepted>>
  BY DEF PerformParallelWorks, PerformReturn
<1>2. Owned' /\ History'
  BY <1>1, DataUnchanged DEF IInv
<1>3. CASE PerformParallelWorks(c)
  <2>1. PICK n \in 1..Cardinality(Worker) : left' = [left EXCEPT ![c] = n]
    BY Zenon, <1>3 DEF PerformParallelWorks
  <2>2. n \in Nat
    BY PoolAssumption, FS_CardinalityType
  <2>3. call' = [call EXCEPT ![c] = {}] /\ client' = [client EXCEPT ![c] = "perform"]
    BY <1>3 DEF PerformParallelWorks
  <2>4. TypeOK'
    BY <1>1, <2>1, <2>2, <2>3 DEF IInv, TypeOK
  <2>5. Threads'
    BY <1>1, <1>3 DEF IInv, Threads, PerformParallelWorks, Usable
  <2>6. Calls'
    BY <1>1, <2>3 DEF IInv, Calls, TypeOK
  <2> QED
    BY <1>2, <2>4, <2>5, <2>6 DEF IInv
<1>4. CASE PerformReturn(c)
  <2>1. PICK a \in {"idle", "threw"} : client' = [client EXCEPT ![c] = a]
    BY Zenon, <1>4 DEF PerformReturn
  <2>2. /\ client[c] = "perform" /\ UNCHANGED <<call, left>>
        /\ \A t \in call[c] : future[t] \in Ended
    BY <1>4 DEF PerformReturn, Waited, Ended
  <2>3. TypeOK'
    BY <1>1, <2>1, <2>2 DEF IInv, TypeOK
  <2>4. Threads'
    BY <1>1, <2>1, <2>2 DEF IInv, Threads
  <2>5. Calls'
    BY <1>1, <2>1, <2>2 DEF IInv, Calls, TypeOK
  <2> QED
    BY <1>2, <2>3, <2>4, <2>5 DEF IInv
<1> QED
  BY <1>3, <1>4

\* The owner, but for the failing constructor.
LEMMA OwnerKeepsIInv ==
  ASSUME IInv, OwnerStep \/ WaitingStop \/ Destroy
  PROVE  IInv'
<1>1. UNCHANGED <<m_queue, task, future, made, client, call, left, accepted>>
  BY DEF OwnerStep, StartThread, Constructed, OwnerNotify, Join, WaitingStop, Destroy
<1>2. /\ m_done' \in BOOLEAN
      /\ m_done => m_done'
      /\ ending' \in BOOLEAN
      /\ ending => ending'
  BY Zenon DEF IInv, TypeOK, OwnerStep, StartThread, Constructed, OwnerNotify, Join,
               WaitingStop, Destroy
<1>3. owner' \in {"construct", "run", "notify", "join", "end"}
  BY DEF IInv, TypeOK, OwnerStep, StartThread, Constructed, OwnerNotify, Join,
         WaitingStop, Destroy
<1>4. /\ worker' \in [Worker -> WorkerAt]
      /\ \A w \in Worker : \/ worker'[w] = worker[w]
                           \/ worker[w] \in {"none", "blocked"} /\ worker'[w] = "lock"
  <2>1. CASE OwnerNotify
    BY <2>1, NotifyMoves DEF OwnerNotify, IInv
  <2>2. ASSUME NEW w \in Worker, StartThread(w)
        PROVE  <1>4
    BY <2>2 DEF StartThread, IInv, TypeOK, WorkerAt
  <2>3. CASE Constructed \/ Join \/ WaitingStop \/ Destroy
    BY <2>3 DEF Constructed, Join, WaitingStop, Destroy, IInv, TypeOK
  <2> QED
    BY <2>1, <2>2, <2>3 DEF OwnerStep
<1>5. \A w \in Worker : worker'[w] = "none" => owner' = "construct" \/ ending'
  <2> SUFFICES ASSUME NEW w \in Worker, worker'[w] = "none"
               PROVE  owner' = "construct" \/ ending'
    OBVIOUS
  <2>1. worker[w] = "none" /\ (owner = "construct" \/ ending)
    BY <1>4 DEF IInv, Threads
  <2>2. CASE ending
    BY <1>2, <2>2, Zenon
  <2>3. CASE owner = "construct"
    BY <2>1, <2>3 DEF OwnerStep, StartThread, Constructed, OwnerNotify, Join, WaitingStop, Destroy
  <2> QED
    BY <2>1, <2>2, <2>3
<1>6. TypeOK'
  BY <1>1, <1>2, <1>3, <1>4, Zenon DEF IInv, TypeOK
<1>7. Owned' /\ History'
  BY <1>1, <1>4, DataUnchanged DEF IInv
<1>8. Threads'
  <2>1. ASSUME NEW w \in Worker, worker'[w] = "exit"
        PROVE  m_done' /\ m_queue' = <<>>
    <3>1. worker[w] = "exit"
      BY <1>4, <2>1
    <3> QED
      BY <1>1, <1>2, <3>1, Zenon DEF IInv, Threads
  <2>2. ASSUME NEW w \in Worker, worker'[w] = "none"
        PROVE  m_queue' = <<>> /\ \A c \in Client : client'[c] = "idle"
    <3>1. worker[w] = "none"
      BY <1>4, <2>2
    <3> QED
      BY <1>1, <3>1 DEF IInv, Threads
  <2> QED
    BY <1>5, <2>1, <2>2, Zenon DEF Threads
<1>9. Calls'
  BY <1>1, CallsUnchanged DEF IInv
<1> QED
  BY <1>6, <1>7, <1>8, <1>9 DEF IInv

----------------------------------------------------------------------------
(* Steps that start or end tasks *)

\* A task moves from the front of the queue to a thread.
LEMMA TakeKeepsIInv ==
  ASSUME IInv, NEW w \in Worker, Take(w)
  PROVE  IInv'
<1>1. /\ UNCHANGED <<m_done, future, made, client, call, left, owner, ending, accepted>>
      /\ worker[w] = "lock" /\ m_queue # <<>>
      /\ worker' = [worker EXCEPT ![w] = "run"]
      /\ task' = [task EXCEPT ![w] = Head(m_queue)]
      /\ m_queue' = Tail(m_queue)
  BY DEF Take
<1>2. /\ m_queue \in Seq(Task) /\ Len(m_queue) \in Nat \ {0}
      /\ Head(m_queue) = m_queue[1] /\ m_queue[1] \in Task
      /\ \A k \in 1..Len(m_queue) : m_queue[k] \in Task
  BY <1>1, QueueTypes, EmptySeq DEF IInv, TypeOK
<1>3. /\ m_queue' \in Seq(Task) /\ Len(m_queue') = Len(m_queue) - 1
      /\ \A k \in 1..Len(m_queue') : m_queue'[k] = m_queue[k + 1]
  BY <1>1, <1>2, HeadTailProperties
<1>4. /\ worker' \in [Worker -> WorkerAt] /\ worker'[w] = "run"
      /\ task' \in [Worker -> Task \cup {NoTask}] /\ task'[w] = m_queue[1]
      /\ \A v \in Worker : v # w => worker'[v] = worker[v] /\ task'[v] = task[v]
  BY <1>1, <1>2 DEF IInv, TypeOK, WorkerAt
<1>5. TypeOK'
  BY <1>1, <1>3, <1>4 DEF IInv, TypeOK
<1>6. Owned'
  <2>1. \A v \in Worker : worker'[v] = "run" => task'[v] \in Task
    BY <1>2, <1>4 DEF IInv, Owned
  <2>2. ASSUME NEW t \in Task
        PROVE  future'[t] = "pending" <=>
                 \/ \E k \in 1..Len(m_queue') : m_queue'[k] = t
                 \/ \E v \in Worker : worker'[v] = "run" /\ task'[v] = t
    <3>1. future'[t] = "pending" <=>
             \/ \E k \in 1..Len(m_queue) : m_queue[k] = t
             \/ \E v \in Worker : worker[v] = "run" /\ task[v] = t
      BY <1>1 DEF IInv, Owned
    <3>2. (\E k \in 1..Len(m_queue) : m_queue[k] = t) <=>
             \/ m_queue[1] = t
             \/ \E k \in 1..Len(m_queue') : m_queue'[k] = t
      <4>1. ASSUME NEW k \in 1..Len(m_queue), m_queue[k] = t, k # 1
            PROVE  k - 1 \in 1..Len(m_queue') /\ m_queue'[k - 1] = t
        BY <1>2, <1>3, <4>1
      <4>2. ASSUME NEW k \in 1..Len(m_queue'), m_queue'[k] = t
            PROVE  k + 1 \in 1..Len(m_queue) /\ m_queue[k + 1] = t
        BY <1>2, <1>3, <4>2
      <4>3. 1 \in 1..Len(m_queue)
        BY <1>2
      <4> QED
        BY <4>1, <4>2, <4>3
    <3>3. (\E v \in Worker : worker'[v] = "run" /\ task'[v] = t) <=>
             \/ m_queue[1] = t
             \/ \E v \in Worker : worker[v] = "run" /\ task[v] = t
      BY <1>1, <1>4
    <3> QED
      BY <3>1, <3>2, <3>3
  <2>3. \A k \in 1..Len(m_queue'), v \in Worker :
          worker'[v] = "run" => m_queue'[k] # task'[v]
    BY <1>2, <1>3, <1>4 DEF IInv, Owned
  <2>4. ASSUME NEW k \in 1..Len(m_queue'), NEW l \in 1..Len(m_queue'), m_queue'[k] = m_queue'[l]
        PROVE  k = l
    <3>1. /\ k + 1 \in 1..Len(m_queue) /\ l + 1 \in 1..Len(m_queue)
          /\ m_queue[k + 1] = m_queue[l + 1]
      BY <1>2, <1>3, <2>4
    <3>2. k + 1 = l + 1
      BY <3>1 DEF IInv, Owned
    <3> QED
      BY <3>2
  <2>5. \A u, v \in Worker :
          worker'[u] = "run" /\ worker'[v] = "run" /\ task'[u] = task'[v] => u = v
    BY <1>2, <1>4 DEF IInv, Owned
  <2> QED
    BY <2>1, <2>2, <2>3, <2>4, <2>5 DEF Owned
<1>7. History'
  <2>1. Len(accepted) \in Nat
    BY QueueTypes DEF IInv
  <2>2. /\ Len(m_queue') <= Len(accepted')
        /\ \A k \in 1..Len(m_queue') :
             m_queue'[k] = accepted'[Len(accepted') - Len(m_queue') + k]
    BY <1>1, <1>2, <1>3, <2>1 DEF IInv, History
  <2> QED
    BY <1>1, <2>2 DEF IInv, History
<1>8. Threads'
  BY <1>1, <1>4 DEF IInv, Threads
<1>9. Calls'
  BY <1>1, CallsUnchanged DEF IInv
<1> QED
  BY <1>5, <1>6, <1>7, <1>8, <1>9 DEF IInv

\* A thread ends its task: nobody else has it, so its future alone changes.
LEMMA FinishKeepsIInv ==
  ASSUME IInv, NEW w \in Worker, Finish(w)
  PROVE  IInv'
<1>1. /\ UNCHANGED <<m_done, m_queue, made, client, call, left, owner, ending, accepted>>
      /\ worker[w] = "run" /\ task[w] \in Task
      /\ worker' = [worker EXCEPT ![w] = "lock"]
      /\ task' = [task EXCEPT ![w] = NoTask]
      /\ future' = [future EXCEPT ![task[w]] = "ready"]
  BY DEF Finish, IInv, Owned
<1>2. /\ worker' \in [Worker -> WorkerAt] /\ worker'[w] = "lock"
      /\ task' \in [Worker -> Task \cup {NoTask}]
      /\ \A v \in Worker : v # w => worker'[v] = worker[v] /\ task'[v] = task[v]
  BY <1>1 DEF IInv, TypeOK, WorkerAt
<1>3. /\ future' \in [Task -> {"none", "pending", "ready", "broken", "invalid"}]
      /\ future'[task[w]] = "ready"
      /\ \A t \in Task : t # task[w] => future'[t] = future[t]
  BY <1>1 DEF IInv, TypeOK
<1>4. TypeOK'
  BY <1>1, <1>2, <1>3 DEF IInv, TypeOK
<1>5. Owned'
  <2>1. \A v \in Worker : worker'[v] = "run" => v # w
    BY <1>2
  <2>2. ASSUME NEW t \in Task
        PROVE  future'[t] = "pending" <=>
                 \/ \E k \in 1..Len(m_queue') : m_queue'[k] = t
                 \/ \E v \in Worker : worker'[v] = "run" /\ task'[v] = t
    <3>1. CASE t = task[w]
      <4>1. ~ \E k \in 1..Len(m_queue) : m_queue[k] = t
        BY <1>1, <3>1 DEF IInv, Owned
      <4>2. ~ \E v \in Worker : worker'[v] = "run" /\ task'[v] = t
        BY <1>1, <1>2, <2>1, <3>1 DEF IInv, Owned
      <4> QED
        BY <1>1, <1>3, <3>1, <4>1, <4>2
    <3>2. CASE t # task[w]
      <4>1. (\E v \in Worker : worker'[v] = "run" /\ task'[v] = t) <=>
              \E v \in Worker : worker[v] = "run" /\ task[v] = t
        BY <1>2, <2>1, <3>2
      <4> QED
        BY <1>1, <1>3, <3>2, <4>1 DEF IInv, Owned
    <3> QED
      BY <3>1, <3>2
  <2>3. /\ \A v \in Worker : worker'[v] = "run" => task'[v] \in Task
        /\ \A k \in 1..Len(m_queue'), v \in Worker :
             worker'[v] = "run" => m_queue'[k] # task'[v]
        /\ \A k, l \in 1..Len(m_queue') : m_queue'[k] = m_queue'[l] => k = l
        /\ \A u, v \in Worker :
             worker'[u] = "run" /\ worker'[v] = "run" /\ task'[u] = task'[v] => u = v
    BY <1>1, <1>2, <2>1 DEF IInv, Owned
  <2> QED
    BY <2>2, <2>3 DEF Owned
<1>6. \A t \in Task : /\ future'[t] = "none" <=> future[t] = "none"
                      /\ future[t] \in Ended => future'[t] \in Ended
  BY <1>1, <1>3 DEF IInv, Owned, Ended
<1>7. History'
  <2>1. \A k \in 1..Len(accepted) : accepted[k] \in Task
    BY QueueTypes DEF IInv
  <2>2. \A c \in Client, k \in 1..MaxTasks : <<c, k>> \in Task
    BY DEF Task
  <2> QED
    BY <1>1, <1>6, <2>1, <2>2 DEF IInv, History
<1>8. Threads'
  BY <1>1, <1>2 DEF IInv, Threads
<1>9. Calls'
  <2>1. \A c \in Client : call[c] \subseteq Task
    BY DEF IInv, TypeOK
  <2> QED
    BY <1>1, <1>6, <2>1 DEF IInv, Calls
<1> QED
  BY <1>4, <1>5, <1>7, <1>8, <1>9 DEF IInv

\* Submit and the submissions of PerformParallelWorks: the next task of the
\* client is new, so it disturbs nothing that is known of the others.
LEMMA SubmitKeepsIInv ==
  ASSUME IInv, NEW c \in Client, Submit(c) \/ PerformSubmit(c)
  PROVE  IInv'
<1> DEFINE t == NextTask(c)
           Perform == {"perform", "perform_notify"}
<1>1. /\ UNCHANGED <<m_done, worker, task, owner, ending>>
      /\ made[c] < MaxTasks
      /\ made' = [made EXCEPT ![c] = @ + 1]
  BY DEF Submit, PerformSubmit, SubmitLocked
<1>2. made[c] \in Nat /\ made[c] + 1 \in 1..MaxTasks
  BY <1>1, PoolAssumption DEF IInv, TypeOK
<1>3. made' \in [Client -> 0..MaxTasks] /\ \A d \in Client : made[d] <= made'[d]
  BY SMTT(40), <1>1, <1>2, PoolAssumption DEF IInv, TypeOK
<1>4. t \in Task /\ future[t] = "none"
  BY <1>2 DEF IInv, History, TypeOK, NextTask, Task
<1>5. \A w \in Worker : worker[w] # "none"
  BY DEF IInv, Threads, Submit, PerformSubmit, Usable
<1>6. PICK f \in {"pending", "invalid"} :
        /\ future' = [future EXCEPT ![t] = f]
        /\ f = "pending" => /\ ~m_done
                            /\ m_queue' = Append(m_queue, t)
                            /\ accepted' = Append(accepted, t)
        /\ f = "invalid" => UNCHANGED <<m_queue, accepted>>
  BY Zenon DEF Submit, PerformSubmit, SubmitLocked
<1>7. /\ future' \in [Task -> {"none", "pending", "ready", "broken", "invalid"}]
      /\ future'[t] = f
      /\ \A u \in Task : u # t => future'[u] = future[u]
  BY <1>4, <1>6 DEF IInv, TypeOK
<1>8. /\ client' \in [Client -> {"idle", "notify", "perform", "perform_notify",
                                 "notify_all", "threw"}]
      /\ left' \in [Client -> Nat]
      /\ call' \in [Client -> SUBSET Task]
      /\ \A d \in Client : /\ call'[d] \subseteq call[d] \cup {t}
                           /\ client'[d] \notin Perform =>
                                client[d] \notin Perform /\ call'[d] = call[d]
  <2>1. CASE Submit(c)
    BY <2>1 DEF IInv, TypeOK, Submit, SubmitLocked
  <2>2. CASE PerformSubmit(c)
    <3>1. PICK a \in Perform : client' = [client EXCEPT ![c] = a]
      BY <2>2 DEF PerformSubmit, SubmitLocked
    <3>2. left' \in [Client -> Nat]
      BY <2>2 DEF IInv, TypeOK, PerformSubmit
    <3>3. call' = [call EXCEPT ![c] = @ \cup {t}]
      BY <2>2 DEF PerformSubmit
    <3> QED
      BY SMTT(40), <1>4, <3>1, <3>2, <3>3 DEF IInv, TypeOK
  <2> QED
    BY <2>1, <2>2
<1>9. Calls'
  <2>1. \A d \in Client : call[d] \subseteq Task
    BY DEF IInv, TypeOK
  <2>2. ASSUME NEW d \in Client, NEW u \in call'[d]
        PROVE  future'[u] # "none"
    BY <1>4, <1>7, <1>8, <2>1, <2>2 DEF IInv, Calls
  <2>3. ASSUME NEW d \in Client, client'[d] \notin Perform, NEW u \in call'[d]
        PROVE  future'[u] \in Ended
    BY SMTT(40), <1>4, <1>7, <1>8, <2>1, <2>3 DEF IInv, Calls
  <2> QED
    BY <2>2, <2>3 DEF Calls
<1>10. /\ ~ \E k \in 1..Len(m_queue) : m_queue[k] = t
       /\ ~ \E w \in Worker : worker[w] = "run" /\ task[w] = t
       /\ ~ \E k \in 1..Len(accepted) : accepted[k] = t
  BY <1>4 DEF IInv, Owned, History
<1>11. \A d \in Client, k \in 1..MaxTasks : future'[<<d, k>>] # "none" => k <= made'[d]
  <2>1. \A d \in Client, k \in 1..MaxTasks :
          <<d, k>> \in Task /\ (<<d, k>> = t => d = c /\ k = made[c] + 1)
    BY <1>2 DEF Task, NextTask
  <2>2. made'[c] = made[c] + 1
    BY <1>1 DEF IInv, TypeOK
  <2>3. ASSUME NEW d \in Client, NEW k \in 1..MaxTasks, future'[<<d, k>>] # "none"
        PROVE  k <= made'[d]
    <3>1. CASE <<d, k>> = t
      BY <1>2, <2>1, <2>2, <3>1
    <3>2. CASE <<d, k>> # t
      <4>1. k <= made[d]
        BY <1>7, <2>1, <2>3, <3>2 DEF IInv, History
      <4>2. made[d] \in 0..MaxTasks /\ made'[d] \in 0..MaxTasks
        BY <1>3 DEF IInv, TypeOK
      <4> QED
        BY SMTT(40), <1>3, <4>1, <4>2, PoolAssumption
    <3> QED
      BY <3>1, <3>2
  <2> QED
    BY <2>3
<1>12. CASE f = "invalid"
  <2>1. UNCHANGED <<m_queue, accepted>>
    BY <1>6, <1>12
  <2>2. TypeOK'
    BY SMTT(40), <1>1, <1>3, <1>7, <1>8, <2>1 DEF IInv, TypeOK
  <2>3. Owned'
    <3>1. ASSUME NEW u \in Task
          PROVE  future'[u] = "pending" <=> future[u] = "pending"
      BY <1>4, <1>7, <1>12
    <3> QED
      BY <1>1, <2>1, <3>1 DEF IInv, Owned
  <2>4. History'
    <3>1. \A k \in 1..Len(accepted) : accepted[k] \in Task
      BY QueueTypes DEF IInv
    <3>2. \A k \in 1..Len(accepted') : future'[accepted'[k]] # "none"
      BY SMTT(40), <1>7, <1>12, <2>1, <3>1 DEF IInv, History
    <3> QED
      BY <1>11, <2>1, <3>2 DEF IInv, History
  <2>5. Threads'
    BY <1>1, <1>5, <2>1 DEF IInv, Threads
  <2> QED
    BY <1>9, <2>2, <2>3, <2>4, <2>5 DEF IInv
<1>13. CASE f = "pending"
  <2>1. /\ m_queue' = Append(m_queue, t) /\ accepted' = Append(accepted, t)
        /\ ~m_done
    BY SMTT(40), <1>6, <1>13
  <2>2. /\ m_queue' \in Seq(Task) /\ Len(m_queue') = Len(m_queue) + 1
        /\ m_queue'[Len(m_queue')] = t
        /\ \A k \in 1..Len(m_queue) : m_queue'[k] = m_queue[k]
        /\ Len(m_queue) \in Nat
    BY SMTT(40), <1>4, <2>1, AppendProperties, QueueTypes DEF IInv, TypeOK
  <2>3. /\ accepted' \in Seq(Task) /\ Len(accepted') = Len(accepted) + 1
        /\ accepted'[Len(accepted')] = t
        /\ \A k \in 1..Len(accepted) : accepted'[k] = accepted[k] /\ accepted[k] \in Task
        /\ Len(accepted) \in Nat
    BY SMTT(40), <1>4, <2>1, AppendProperties, QueueTypes DEF IInv, TypeOK
  <2>4. TypeOK'
    BY SMTT(40), <1>1, <1>3, <1>7, <1>8, <2>2, <2>3 DEF IInv, TypeOK
  <2>5. Owned'
    <3>1. ASSUME NEW u \in Task
          PROVE  future'[u] = "pending" <=>
                   \/ \E k \in 1..Len(m_queue') : m_queue'[k] = u
                   \/ \E w \in Worker : worker'[w] = "run" /\ task'[w] = u
      <4>1. (\E k \in 1..Len(m_queue') : m_queue'[k] = u) <=>
              u = t \/ \E k \in 1..Len(m_queue) : m_queue[k] = u
        BY <2>2
      <4> QED
        BY SMTT(40), <1>1, <1>7, <1>13, <4>1 DEF IInv, Owned
    <3>2. \A k \in 1..Len(m_queue') : m_queue'[k] = t <=> k = Len(m_queue')
      BY SMTT(40), <1>10, <2>2
    <3>3. \A k \in 1..Len(m_queue'), w \in Worker :
            worker'[w] = "run" => m_queue'[k] # task'[w]
      BY SMTT(40), <1>1, <1>10, <2>2, <3>2 DEF IInv, Owned
    <3>4. \A k, l \in 1..Len(m_queue') : m_queue'[k] = m_queue'[l] => k = l
      BY SMTT(40), <2>2, <3>2 DEF IInv, Owned
    <3>5. /\ \A w \in Worker : worker'[w] = "run" => task'[w] \in Task
          /\ \A v, w \in Worker :
               worker'[v] = "run" /\ worker'[w] = "run" /\ task'[v] = task'[w] => v = w
      BY <1>1 DEF IInv, Owned
    <3> QED
      BY SMTT(40), <3>1, <3>3, <3>4, <3>5 DEF Owned
  <2>6. History'
    <3>1. \A k \in 1..Len(accepted') : accepted'[k] = t <=> k = Len(accepted')
      BY SMTT(40), <1>10, <2>3
    <3>2. \A k \in 1..Len(accepted') : future'[accepted'[k]] # "none"
      BY SMTT(40), <1>7, <1>13, <2>3, <3>1 DEF IInv, History
    <3>3. ASSUME NEW k \in 1..Len(accepted'), NEW l \in 1..Len(accepted'),
                 accepted'[k] = accepted'[l]
          PROVE  k = l
      <4>1. CASE k = Len(accepted') \/ l = Len(accepted')
        BY SMTT(40), <2>3, <3>1, <3>3, <4>1
      <4>2. CASE k # Len(accepted') /\ l # Len(accepted')
        <5>1. k \in 1..Len(accepted) /\ l \in 1..Len(accepted)
          BY SMTT(40), <2>3, <4>2
        <5>2. accepted[k] = accepted[l]
          BY SMTT(40), <2>3, <3>3, <5>1
        <5> QED
          BY Zenon, <5>1, <5>2 DEF IInv, History
      <4> QED
        BY <4>1, <4>2
    <3>4. Len(m_queue') <= Len(accepted')
      BY <2>2, <2>3 DEF IInv, History
    <3>5. ASSUME NEW k \in 1..Len(m_queue')
          PROVE  m_queue'[k] = accepted'[Len(accepted') - Len(m_queue') + k]
      <4>1. CASE k = Len(m_queue')
        BY SMTT(40), <2>2, <2>3, <4>1
      <4>2. CASE k \in 1..Len(m_queue)
        <5>1. Len(accepted) - Len(m_queue) + k \in 1..Len(accepted)
          BY <2>2, <2>3, <4>2 DEF IInv, History
        <5> QED
          BY SMTT(40), <2>2, <2>3, <4>2, <5>1 DEF IInv, History
      <4> QED
        BY SMTT(40), <2>2, <4>1, <4>2
    <3> QED
      BY SMTT(40), <1>11, <3>2, <3>3, <3>4, <3>5 DEF History
  <2>7. \A w \in Worker : worker[w] # "exit"
    BY <2>1, Zenon DEF IInv, Threads
  <2>8. Threads'
    BY SMTT(40), <1>1, <1>5, <2>7 DEF Threads
  <2> QED
    BY SMTT(40), <1>9, <2>4, <2>5, <2>6, <2>8 DEF IInv
<1> QED
  BY <1>12, <1>13

\* Stop and the failing constructor: the dropped tasks are no longer pending,
\* and they are all of the queue.
LEMMA DropKeepsIInv ==
  ASSUME IInv, StartThreadFails \/ \E c \in Client : Stop(c)
  PROVE  IInv'
<1>1. /\ DropQueue
      /\ UNCHANGED <<worker, task, made, call, left, accepted>>
  BY DEF StartThreadFails, Stop
<1>2. /\ m_done' \in BOOLEAN /\ ending' \in BOOLEAN
      /\ m_done'
      /\ ending => ending'
  BY Zenon DEF IInv, TypeOK, StartThreadFails, Stop
<1>3. owner' \in {"construct", "run", "notify", "join", "end"}
  BY DEF IInv, TypeOK, StartThreadFails, Stop
<1>4. /\ m_queue' = <<>> /\ m_queue' \in Seq(Task) /\ Len(m_queue') = 0
      /\ 1..Len(m_queue') = {}
  BY SMTT(40), <1>1, EmptySeq DEF DropQueue
<1>5. /\ future' \in [Task -> {"none", "pending", "ready", "broken", "invalid"}]
      /\ \A u \in Task : future'[u] =
           IF \E k \in 1..Len(m_queue) : m_queue[k] = u THEN "broken" ELSE future[u]
  BY <1>1 DEF DropQueue, Elements, IInv, TypeOK
<1>6. \A u \in Task : /\ future'[u] = "none" <=> future[u] = "none"
                      /\ future[u] \in Ended => future'[u] \in Ended
  BY <1>5 DEF IInv, Owned, Ended
<1>7. /\ client' \in [Client -> {"idle", "notify", "perform", "perform_notify",
                                 "notify_all", "threw"}]
      /\ \A c \in Client : \/ client'[c] = client[c]
                           \/ client[c] = "idle" /\ client'[c] = "notify_all"
  <2>1. CASE StartThreadFails
    BY <2>1 DEF IInv, TypeOK, StartThreadFails
  <2>2. ASSUME NEW c \in Client, Stop(c)
        PROVE  <1>7
    BY <2>2 DEF IInv, TypeOK, Stop
  <2> QED
    BY <2>1, <2>2
<1>8. TypeOK'
  BY <1>1, <1>2, <1>3, <1>4, <1>5, <1>7, ZenonT(40) DEF IInv, TypeOK
<1>9. Owned'
  <2>1. ASSUME NEW u \in Task
        PROVE  future'[u] = "pending" <=>
                 \/ \E k \in 1..Len(m_queue') : m_queue'[k] = u
                 \/ \E w \in Worker : worker'[w] = "run" /\ task'[w] = u
    <3>1. CASE \E k \in 1..Len(m_queue) : m_queue[k] = u
      BY SMTT(40), <1>1, <1>4, <1>5, <3>1 DEF IInv, Owned
    <3>2. CASE ~ \E k \in 1..Len(m_queue) : m_queue[k] = u
      BY SMTT(40), <1>1, <1>4, <1>5, <3>2 DEF IInv, Owned
    <3> QED
      BY SMTT(40), <3>1, <3>2
  <2> QED
    BY SMTT(40), <1>1, <1>4, <2>1 DEF IInv, Owned
<1>10. History'
  <2>1. /\ \A k \in 1..Len(accepted) : accepted[k] \in Task
        /\ Len(accepted) \in Nat
    BY QueueTypes DEF IInv
  <2>2. \A c \in Client, k \in 1..MaxTasks : <<c, k>> \in Task
    BY DEF Task
  <2>3. \A c \in Client, k \in 1..MaxTasks : future'[<<c, k>>] # "none" => k <= made'[c]
    BY SMTT(40), <1>1, <1>6, <2>2 DEF IInv, History
  <2>4. \A k \in 1..Len(accepted') : future'[accepted'[k]] # "none"
    BY SMTT(40), <1>1, <1>6, <2>1 DEF IInv, History
  <2>5. \A k, l \in 1..Len(accepted') : accepted'[k] = accepted'[l] => k = l
    BY Zenon, <1>1 DEF IInv, History
  <2>6. Len(m_queue') <= Len(accepted')
    BY <1>1, <1>4, <2>1
  <2> QED
    BY Zenon, <1>4, <2>3, <2>4, <2>5, <2>6 DEF History
<1>11. Threads'
  <2>1. ASSUME NEW w \in Worker, worker[w] = "none"
        PROVE  owner' = "construct" \/ ending'
    <3>1. CASE StartThreadFails
      BY <3>1, Zenon DEF StartThreadFails
    <3>2. CASE \E c \in Client : Stop(c)
      <4>1. UNCHANGED owner /\ UNCHANGED ending
        BY <3>2 DEF Stop
      <4> QED
        BY <2>1, <4>1, Zenon DEF IInv, Threads
    <3> QED
      BY <3>1, <3>2
  <2>2. ASSUME NEW w \in Worker, worker[w] = "none"
        PROVE  \A c \in Client : client'[c] = "idle"
    <3>1. CASE StartThreadFails
      BY <2>2, <3>1 DEF IInv, Threads, StartThreadFails
    <3>2. CASE \E c \in Client : Stop(c)
      BY <2>2, <3>2, Zenon DEF IInv, Threads, Stop, Usable
    <3> QED
      BY <3>1, <3>2
  <2> QED
    BY <1>1, <1>2, <1>4, <2>1, <2>2, Zenon DEF Threads
<1>12. Calls'
  <2>1. \A c \in Client : call[c] \subseteq Task
    BY DEF IInv, TypeOK
  <2> QED
    BY SMTT(40), <1>1, <1>6, <1>7, <2>1 DEF IInv, Calls
<1> QED
  BY SMTT(40), <1>8, <1>9, <1>10, <1>11, <1>12 DEF IInv

----------------------------------------------------------------------------

\* Every step keeps the invariant.
LEMMA NextKeepsIInv == IInv /\ [Next]_vars => IInv'
<1> SUFFICES ASSUME IInv, [Next]_vars PROVE IInv'
  OBVIOUS
<1>1. CASE UNCHANGED vars
  <2>1. UNCHANGED <<m_done, m_queue, worker, task, future, made, client, call, left,
                    owner, ending, accepted>>
    BY <1>1 DEF vars
  <2>2. Owned' /\ History' /\ Calls'
    BY SMTT(40), <2>1, DataUnchanged, CallsUnchanged DEF IInv
  <2>3. TypeOK' /\ Threads'
    BY <2>1 DEF IInv, TypeOK, Threads
  <2> QED
    BY <2>2, <2>3 DEF IInv
<1>2. ASSUME NEW w \in Worker, WorkerStep(w) \/ SpuriousWake(w)
      PROVE  IInv'
  BY SMTT(40), <1>2, MoveKeepsIInv, TakeKeepsIInv, FinishKeepsIInv DEF WorkerStep
<1>3. ASSUME NEW c \in Client, ClientStep(c) \/ Submit(c) \/ PerformParallelWorks(c)
      PROVE  IInv'
  BY SMTT(40), <1>3, ClientNotifyKeepsIInv, PerformKeepsIInv, SubmitKeepsIInv DEF ClientStep
<1>4. CASE StartThreadFails \/ \E c \in Client : Stop(c)
  BY <1>4, DropKeepsIInv
<1>5. CASE OwnerStep \/ WaitingStop \/ Destroy
  BY <1>5, OwnerKeepsIInv
<1> QED
  BY <1>1, <1>2, <1>3, <1>4, <1>5 DEF Next, Gone

\* The strengthened invariant holds in every state.
LEMMA PoolIInv == Spec => []IInv
BY InitIInv, NextKeepsIInv, PTL DEF Spec

----------------------------------------------------------------------------
(* What follows from the invariant *)

\* The variables have their types.
THEOREM PoolTypeOK == Spec => []TypeOK
BY PoolIInv, PTL DEF IInv

\* A future is pending exactly while its task is once in the queue or with one
\* thread: Submit, Worker and Stop lose no task and run none twice.
THEOREM PoolPendingIsOwned == Spec => []PendingIsOwned
<1>1. IInv => PendingIsOwned
  BY DEF IInv, Owned, PendingIsOwned, Elements, RunningTasks
<1> QED
  BY <1>1, PoolIInv, PTL

\* Tasks are started in the order of submission.
THEOREM PoolStartOrder == Spec => []StartOrder
<1>1. ASSUME IInv, NEW k \in 1..Len(accepted), NEW l \in 1..Len(accepted),
             k < l, accepted[k] \in Elements(m_queue)
      PROVE  accepted[l] \in Elements(m_queue)
  <2> DEFINE started == Len(accepted) - Len(m_queue)
  <2>1. Len(m_queue) \in Nat /\ Len(accepted) \in Nat /\ started \in Nat
    BY <1>1, QueueTypes DEF IInv, History
  <2>2. PICK j \in 1..Len(m_queue) : accepted[k] = m_queue[j]
    BY <1>1 DEF Elements
  <2>3. started + j \in 1..Len(accepted) /\ accepted[k] = accepted[started + j]
    BY <1>1, <2>1, <2>2 DEF IInv, History
  <2>4. k = started + j
    BY Zenon, <1>1, <2>3 DEF IInv, History
  <2>5. l - started \in 1..Len(m_queue)
    BY SMTT(40), <1>1, <2>1, <2>2, <2>4
  <2>6. m_queue[l - started] = accepted[started + (l - started)]
    BY <1>1, <2>5 DEF IInv, History
  <2>7. started + (l - started) = l
    BY <2>1
  <2> QED
    BY SMTT(40), <2>5, <2>6, <2>7 DEF Elements
<1>2. IInv => StartOrder
  BY <1>1 DEF StartOrder
<1> QED
  BY <1>2, PoolIInv, PTL

\* When the threads of a pool that was constructed are gone, no future is
\* pending: WaitingStop and the destructor leave nothing behind.
THEOREM PoolExitedIsComplete == Spec => []ExitedIsComplete
<1>1. ASSUME IInv, \A w \in Worker : worker[w] \in {"none", "exit"}, NEW t \in Task
      PROVE  future[t] # "pending"
  <2>1. PICK w \in Worker : TRUE
    BY PoolAssumption
  <2>2. m_queue = <<>>
    BY <1>1, <2>1 DEF IInv, Threads
  <2>3. 1..Len(m_queue) = {}
    BY <2>2, EmptySeq
  <2> QED
    BY <1>1, <2>3 DEF IInv, Owned
<1>2. IInv => ExitedIsComplete
  BY <1>1 DEF ExitedIsComplete
<1> QED
  BY <1>2, PoolIInv, PTL

\* A client outside PerformParallelWorks waits for none of its works.
THEOREM PoolPerformWaits == Spec => []PerformWaits
<1>1. IInv => PerformWaits
  BY DEF IInv, Calls, PerformWaits, Ended
<1> QED
  BY <1>1, PoolIInv, PTL

----------------------------------------------------------------------------
(* The pool implements TaskPool *)

\* A step that TaskPool does not see.
LEMMA Unseen ==
  ASSUME UNCHANGED <<m_done, m_queue, task, accepted>>,
         \A w \in Worker : worker'[w] = "run" <=> worker[w] = "run"
  PROVE  UNCHANGED Abstract!vars
<1>1. RunningTasks' = RunningTasks
  BY DEF RunningTasks
<1>2. Elements(accepted)' = Elements(accepted)
  BY DEF Elements
<1> QED
  BY <1>1, <1>2 DEF Abstract!vars

\* A thread that is not running leaves room for another task.
LEMMA RoomForTask ==
  ASSUME NEW w \in Worker, worker[w] # "run"
  PROVE  Cardinality(RunningTasks) < Cardinality(Worker)
<1> DEFINE R == {v \in Worker : worker[v] = "run"}
           f == [v \in R |-> task[v]]
<1>1. /\ IsFiniteSet(Worker \ {w}) /\ Cardinality(Worker \ {w}) = Cardinality(Worker) - 1
      /\ Cardinality(Worker) \in Nat
  BY PoolAssumption, FS_RemoveElement, FS_CardinalityType
<1>2. R \in SUBSET (Worker \ {w})
  OBVIOUS
<1>3. IsFiniteSet(R) /\ Cardinality(R) <= Cardinality(Worker \ {w})
  BY SMTT(40), <1>1, <1>2, FS_Subset
<1>4. f \in Surjection(R, RunningTasks)
  BY DEF Surjection, RunningTasks
<1>5. IsFiniteSet(RunningTasks) /\ Cardinality(RunningTasks) <= Cardinality(R)
  <2> HIDE DEF R, f
  <2> QED
    BY <1>3, <1>4, FS_Surjection
<1>6. Cardinality(RunningTasks) \in Nat /\ Cardinality(R) \in Nat
  BY SMTT(40), <1>3, <1>5, FS_CardinalityType
<1> QED
  BY SMTT(40), <1>1, <1>3, <1>5, <1>6

\* A thread that takes a task starts it.
LEMMA TakeStarts ==
  ASSUME IInv, NEW w \in Worker, Take(w)
  PROVE  Abstract!Start
<1>1. /\ worker[w] = "lock" /\ m_queue # <<>> /\ m_queue' = Tail(m_queue)
      /\ worker' = [worker EXCEPT ![w] = "run"]
      /\ task' = [task EXCEPT ![w] = Head(m_queue)]
      /\ UNCHANGED <<m_done, accepted>>
  BY DEF Take
<1>2. RunningTasks' = RunningTasks \cup {Head(m_queue)}
  <2>1. worker \in [Worker -> WorkerAt] /\ task \in [Worker -> Task \cup {NoTask}]
    BY DEF IInv, TypeOK
  <2>2. \A v \in Worker : v # w => worker'[v] = worker[v] /\ task'[v] = task[v]
    BY <1>1, <2>1
  <2>3. worker'[w] = "run" /\ task'[w] = Head(m_queue)
    BY <1>1, <2>1
  <2> QED
    BY <1>1, <2>2, <2>3 DEF RunningTasks
<1>3. Cardinality(RunningTasks) < Cardinality(Worker)
  BY <1>1, RoomForTask
<1>4. Elements(accepted)' = Elements(accepted)
  BY <1>1 DEF Elements
<1>5. Abstract!Cardinality(RunningTasks) = Cardinality(RunningTasks)
  BY DEF Cardinality, Abstract!Cardinality
<1> QED
  BY SMTT(40), <1>1, <1>2, <1>3, <1>4, <1>5 DEF Abstract!Start

\* A thread that ends a task finishes it: no other thread runs the same one.
LEMMA FinishFinishes ==
  ASSUME IInv, NEW w \in Worker, Finish(w)
  PROVE  task[w] \in Task /\ Abstract!Finish(task[w])
<1>1. /\ worker[w] = "run" /\ task[w] \in Task
      /\ worker' = [worker EXCEPT ![w] = "lock"]
      /\ task' = [task EXCEPT ![w] = NoTask]
      /\ UNCHANGED <<m_done, m_queue, accepted>>
  BY DEF Finish, IInv, Owned
<1>2. /\ worker'[w] = "lock"
      /\ \A v \in Worker : v # w => worker'[v] = worker[v] /\ task'[v] = task[v]
  BY SMTT(40), <1>1 DEF IInv, TypeOK
<1>3. \A v \in Worker : v # w /\ worker[v] = "run" => task[v] # task[w]
  BY SMTT(40), <1>1 DEF IInv, Owned
<1>4. RunningTasks' = RunningTasks \ {task[w]}
  BY <1>2, <1>3 DEF RunningTasks
<1>5. task[w] \in RunningTasks
  BY <1>1 DEF RunningTasks
<1>6. Elements(accepted)' = Elements(accepted)
  BY <1>1 DEF Elements
<1> QED
  BY SMTT(40), <1>1, <1>4, <1>5, <1>6 DEF Abstract!Finish

\* Submit is accepted as a new task, or refused by a closed pool.
LEMMA SubmitAccepts ==
  ASSUME IInv, NEW c \in Client, Submit(c) \/ PerformSubmit(c)
  PROVE  \/ UNCHANGED Abstract!vars
         \/ NextTask(c) \in Task /\ Abstract!Accept(NextTask(c))
<1> DEFINE t == NextTask(c)
<1>1. UNCHANGED <<m_done, worker, task>> /\ made[c] < MaxTasks
  BY DEF Submit, PerformSubmit, SubmitLocked
<1>2. t \in Task /\ future[t] = "none"
  <2>1. made[c] \in Nat /\ made[c] + 1 \in 1..MaxTasks
    BY <1>1, PoolAssumption DEF IInv, TypeOK
  <2> QED
    BY <2>1 DEF IInv, History, TypeOK, NextTask, Task
<1>3. RunningTasks' = RunningTasks
  BY <1>1 DEF RunningTasks
<1>4. CASE UNCHANGED <<m_queue, accepted>>
  BY <1>1, <1>4, Unseen
<1>5. CASE ~m_done /\ m_queue' = Append(m_queue, t) /\ accepted' = Append(accepted, t)
  <2>1. t \notin Elements(accepted)
    BY SMTT(40), <1>2 DEF Elements, IInv, History
  <2>2. /\ Len(accepted') = Len(accepted) + 1 /\ accepted'[Len(accepted')] = t
        /\ \A k \in 1..Len(accepted) : accepted'[k] = accepted[k]
        /\ Len(accepted) \in Nat
    BY <1>2, <1>5, AppendProperties, QueueTypes DEF IInv, TypeOK
  <2>3. Elements(accepted)' = Elements(accepted) \cup {t}
    BY <2>2 DEF Elements
  <2> QED
    BY SMTT(40), <1>1, <1>2, <1>3, <1>5, <2>1, <2>3 DEF Abstract!Accept
<1>6. \/ UNCHANGED <<m_queue, accepted>>
      \/ ~m_done /\ m_queue' = Append(m_queue, t) /\ accepted' = Append(accepted, t)
  BY Zenon DEF Submit, PerformSubmit, SubmitLocked
<1> QED
  BY SMTT(40), <1>4, <1>5, <1>6

\* Every way to stop the pool closes it, with its waiting tasks or without.
LEMMA StopCloses ==
  ASSUME WaitingStop \/ Destroy \/ StartThreadFails \/ \E c \in Client : Stop(c)
  PROVE  Abstract!Close
<1>1. UNCHANGED <<worker, task, accepted>> /\ m_queue' \in {m_queue, <<>>}
  BY DEF WaitingStop, Destroy, StartThreadFails, Stop, DropQueue
<1>2. m_done' = TRUE
  BY Zenon DEF WaitingStop, Destroy, StartThreadFails, Stop
<1>3. RunningTasks' = RunningTasks /\ Elements(accepted)' = Elements(accepted)
  BY <1>1 DEF RunningTasks, Elements
<1> QED
  BY <1>1, <1>2, <1>3 DEF Abstract!Close

\* Every step of the pool is a step of TaskPool or one it does not see.
LEMMA StepIsAbstract ==
  ASSUME IInv, [Next]_vars
  PROVE  [Abstract!Next]_(Abstract!vars)
<1>1. CASE UNCHANGED vars
  BY <1>1, Unseen DEF vars
<1>2. ASSUME NEW w \in Worker, Wait(w) \/ SpuriousWake(w) \/ Exit(w)
      PROVE  UNCHANGED Abstract!vars
  <2>1. UNCHANGED <<m_done, m_queue, task, accepted>>
    BY SMTT(40), <1>2 DEF Wait, SpuriousWake, Exit
  <2>2. \A v \in Worker : worker'[v] = "run" <=> worker[v] = "run"
    BY <1>2 DEF Wait, SpuriousWake, Exit, Blocked, IInv, TypeOK
  <2> QED
    BY SMTT(40), <2>1, <2>2, Unseen
<1>3. ASSUME NEW w \in Worker, Take(w) \/ Finish(w)
      PROVE  Abstract!Next
  BY <1>3, TakeStarts, FinishFinishes DEF Abstract!Next
<1>4. ASSUME NEW c \in Client,
             ClientStep(c) \/ PerformParallelWorks(c), ~PerformSubmit(c)
      PROVE  UNCHANGED Abstract!vars
  <2>1. UNCHANGED <<m_done, m_queue, task, accepted>>
    BY ZenonT(40), <1>4 DEF ClientStep, SubmitNotify, PerformReturn, StopNotify, PerformParallelWorks
  <2>2. NotifyOne \/ NotifyAll \/ UNCHANGED worker
    BY Zenon, <1>4 DEF ClientStep, SubmitNotify, PerformReturn, StopNotify, PerformParallelWorks
  <2> QED
    BY <2>1, <2>2, NotifyMoves, Unseen DEF IInv
<1>5. ASSUME NEW c \in Client, Submit(c) \/ PerformSubmit(c)
      PROVE  [Abstract!Next]_(Abstract!vars)
  BY <1>5, SubmitAccepts DEF Abstract!Next
<1>6. CASE WaitingStop \/ Destroy \/ StartThreadFails \/ \E c \in Client : Stop(c)
  BY SMTT(40), <1>6, StopCloses DEF Abstract!Next
<1>7. CASE OwnerStep
  <2>1. UNCHANGED <<m_done, m_queue, task, accepted>>
    BY <1>7 DEF OwnerStep, StartThread, Constructed, OwnerNotify, Join
  <2>2. \A v \in Worker : worker'[v] = "run" <=> worker[v] = "run"
    <3>1. CASE OwnerNotify
      BY SMTT(40), <3>1, NotifyMoves DEF OwnerNotify, IInv
    <3>2. ASSUME NEW w \in Worker, StartThread(w)
          PROVE  <2>2
      BY <3>2 DEF StartThread, IInv, TypeOK
    <3>3. CASE Constructed \/ Join
      BY <3>3 DEF Constructed, Join
    <3> QED
      BY SMTT(40), <1>7, <3>1, <3>2, <3>3 DEF OwnerStep
  <2> QED
    BY SMTT(40), <2>1, <2>2, Unseen
<1> QED
  BY SMTT(40), <1>1, <1>2, <1>3, <1>4, <1>5, <1>6, <1>7 DEF Next, WorkerStep, ClientStep, Gone

\* The pool keeps the promises of TaskPool: tasks start in order of acceptance,
\* once, as many at a time as there are threads; a stopped pool accepts none.
THEOREM PoolImplementsTaskPool == Spec => ImplementsTaskPool
<1>1. Init => Abstract!Init
  BY EmptySeq DEF Init, Abstract!Init, Elements, RunningTasks
<1>2. IInv /\ [Next]_vars => [Abstract!Next]_(Abstract!vars)
  BY StepIsAbstract
<1> QED
  BY <1>1, <1>2, PoolIInv, PTL DEF Spec, ImplementsTaskPool, Abstract!Spec
=============================================================================
