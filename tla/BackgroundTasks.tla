-------------------------- MODULE BackgroundTasks --------------------------
(***************************************************************************)
(* QueueManager and TaskWorkerPool (backend/platform/background): a FIFO   *)
(* queue with a dead-letter list, and the threads of a pool that poll it.  *)
(* Each method of the queue holds its lock and is one step.  start() adds  *)
(* PoolSize threads; stop() joins each for one second only, so a thread    *)
(* at work may live on and find _running set by the next start().          *)
(***************************************************************************)
EXTENDS Integers, Sequences, FiniteSets

CONSTANTS Jobs,         \* the task dictionaries
          Threads,      \* bound on the threads that start() may create
          PoolSize,     \* num_workers
          DlqThreshold, \* dlq_threshold
          NoJob

ASSUME BackgroundAssumption ==
    /\ NoJob \notin Jobs
    /\ IsFiniteSet(Threads)
    /\ PoolSize \in Nat \ {0}
    /\ DlqThreshold \in Nat

VARIABLES jobQueue,     \* _queue
          dlq,          \* _dlq, as a set: get_dlq_tasks only copies it
          attempts,     \* task["attempts"]
          poolRunning,  \* _running
          at,           \* where each thread is
          holds,        \* the task each thread has in hand
          submitted,    \* history: tasks given to enqueue()
          executed,     \* history: tasks executor_fn returned for
          purged,       \* history: tasks clear_dlq threw away
          failures      \* history: how often executor_fn raised, by task

backVars == <<jobQueue, dlq, attempts, poolRunning, at, holds,
              submitted, executed, purged, failures>>
queueOnly == <<jobQueue, dlq, attempts, submitted, executed, purged, failures>>

BackTypeOK ==
    /\ jobQueue \in Seq(Jobs)
    /\ dlq \subseteq Jobs
    /\ attempts \in [Jobs -> Nat]
    /\ failures \in [Jobs -> Nat]
    /\ poolRunning \in BOOLEAN
    /\ at \in [Threads -> {"none", "check", "poll", "execute", "ended"}]
    /\ holds \in [Threads -> Jobs \cup {NoJob}]
    /\ submitted \subseteq Jobs
    /\ executed \subseteq Jobs
    /\ purged \subseteq Jobs

BackInit ==
    /\ jobQueue = <<>>
    /\ dlq = {}
    /\ attempts = [j \in Jobs |-> 0]
    /\ failures = [j \in Jobs |-> 0]
    /\ poolRunning = FALSE
    /\ at = [t \in Threads |-> "none"]
    /\ holds = [t \in Threads |-> NoJob]
    /\ submitted = {}
    /\ executed = {}
    /\ purged = {}

Queued(j) == \E i \in 1..Len(jobQueue) : jobQueue[i] = j
InHand(j) == \E t \in Threads : holds[t] = j
Seen(j) == Queued(j) \/ InHand(j) \/ j \in dlq \cup executed \cup purged

---------------------------------------------------------------------------
\* QueueManager.enqueue with a task of the caller's, each once.
EnqueueJob(j) ==
    /\ j \notin submitted
    /\ submitted' = submitted \cup {j}
    /\ jobQueue' = Append(jobQueue, j)
    /\ UNCHANGED <<dlq, attempts, poolRunning, at, holds, executed, purged, failures>>

\* QueueManager.clear_dlq
ClearDlq ==
    /\ dlq # {}
    /\ dlq' = {}
    /\ purged' = purged \cup dlq
    /\ UNCHANGED <<jobQueue, attempts, poolRunning, at, holds, submitted, executed, failures>>

\* TaskWorkerPool.start: nothing if it runs; else the flag, and new threads.
StartPool(new) ==
    /\ ~poolRunning
    /\ Cardinality(new) = PoolSize
    /\ \A t \in new : at[t] = "none"
    /\ poolRunning' = TRUE
    /\ at' = [t \in Threads |-> IF t \in new THEN "check" ELSE at[t]]
    /\ UNCHANGED <<holds, queueOnly>>

\* TaskWorkerPool.stop: the flag; the joins may all time out.
StopPool ==
    /\ poolRunning
    /\ poolRunning' = FALSE
    /\ UNCHANGED <<at, holds, queueOnly>>

\* _worker_loop: if not self._running: break
CheckRunning(t) ==
    /\ at[t] = "check"
    /\ at' = [at EXCEPT ![t] = IF poolRunning THEN "poll" ELSE "ended"]
    /\ UNCHANGED <<poolRunning, holds, queueOnly>>

\* dequeue() gives the oldest task ...
PollJob(t) ==
    /\ at[t] = "poll"
    /\ jobQueue # <<>>
    /\ holds' = [holds EXCEPT ![t] = Head(jobQueue)]
    /\ jobQueue' = Tail(jobQueue)
    /\ at' = [at EXCEPT ![t] = "execute"]
    /\ UNCHANGED <<dlq, attempts, poolRunning, submitted, executed, purged, failures>>

\* Faulty variant: a thread that finds the queue empty leaves.
PollNothingAndLeave(t) ==
    /\ at[t] = "poll"
    /\ jobQueue = <<>>
    /\ at' = [at EXCEPT ![t] = "ended"]
    /\ UNCHANGED <<poolRunning, holds, queueOnly>>

\* ... or None, and the thread sleeps before it looks again.
PollNothing(t) ==
    /\ at[t] = "poll"
    /\ jobQueue = <<>>
    /\ at' = [at EXCEPT ![t] = "check"]
    /\ UNCHANGED <<poolRunning, holds, queueOnly>>

Drops(t) ==
    /\ at[t] = "execute"
    /\ at' = [at EXCEPT ![t] = "check"]
    /\ holds' = [holds EXCEPT ![t] = NoJob]

\* executor_fn returns.
ExecutorReturns(t) ==
    /\ Drops(t)
    /\ executed' = executed \cup {holds[t]}
    /\ UNCHANGED <<jobQueue, dlq, attempts, poolRunning, submitted, purged, failures>>

\* Faulty variant: the threshold is compared before the attempt is counted.
HandleFailureLate(t) ==
    LET j == holds[t] IN
    /\ Drops(t)
    /\ attempts' = [attempts EXCEPT ![j] = @ + 1]
    /\ failures' = [failures EXCEPT ![j] = @ + 1]
    /\ IF attempts[j] >= DlqThreshold
       THEN dlq' = dlq \cup {j} /\ UNCHANGED jobQueue
       ELSE jobQueue' = Append(jobQueue, j) /\ UNCHANGED dlq
    /\ UNCHANGED <<poolRunning, submitted, executed, purged>>

\* executor_fn raises: handle_failure puts the task back or on the dead-letter list.
HandleFailure(t) ==
    LET j == holds[t] IN
    /\ Drops(t)
    /\ attempts' = [attempts EXCEPT ![j] = @ + 1]
    /\ failures' = [failures EXCEPT ![j] = @ + 1]
    /\ IF attempts'[j] >= DlqThreshold
       THEN dlq' = dlq \cup {j} /\ UNCHANGED jobQueue
       ELSE jobQueue' = Append(jobQueue, j) /\ UNCHANGED dlq
    /\ UNCHANGED <<poolRunning, submitted, executed, purged>>

PoolStep(t) ==
    CheckRunning(t) \/ PollJob(t) \/ PollNothing(t) \/ ExecutorReturns(t) \/ HandleFailure(t)

BackNext ==
    \/ \E j \in Jobs : EnqueueJob(j)
    \/ ClearDlq
    \/ \E new \in SUBSET Threads : StartPool(new)
    \/ StopPool
    \/ \E t \in Threads : PoolStep(t)

BackSpec == BackInit /\ [][BackNext]_backVars
BackFairness == \A t \in Threads : WF_backVars(PoolStep(t))

---------------------------------------------------------------------------
\* Whatever stop() and start() do to the threads, a task that was enqueued is
\* in exactly one place: once in the queue, in the hands of one thread,
\* carried out, on the dead-letter list, or purged from there.  It is given
\* up when it has failed DlqThreshold times (once, if that is 0), no sooner
\* and no later, and is not tried again.
Limit == IF DlqThreshold = 0 THEN 1 ELSE DlqThreshold
OneCopyEach ==
    /\ \A i, k \in 1..Len(jobQueue) : jobQueue[i] = jobQueue[k] => i = k
    /\ \A t, u \in Threads : holds[t] = holds[u] /\ holds[t] # NoJob => t = u
    /\ \A j \in Jobs : ~(Queued(j) /\ InHand(j))
    /\ \A j \in executed \cup dlq \cup purged : ~Queued(j) /\ ~InHand(j)
    /\ executed \cap dlq = {} /\ executed \cap purged = {} /\ dlq \cap purged = {}
TaskIsAccountedFor ==
    /\ OneCopyEach
    /\ \A j \in Jobs :
          /\ j \in submitted <=> Seen(j)
          /\ failures[j] <= Limit
          /\ j \in dlq \cup purged <=> failures[j] = Limit

\* Once the pool is started for good, every task in the queue is carried out
\* or given up, however often it fails and is queued again behind others, and
\* however many threads an earlier stop() left behind.
TaskIsSettled ==
    <>[]poolRunning => \A j \in Jobs : Queued(j) ~> j \in dlq \cup purged \cup executed
=============================================================================
