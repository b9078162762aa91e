--------------------------- MODULE PriorityFifo ---------------------------
(***************************************************************************)
(* What backend/distributed/distributed_queue.py promises its callers: a   *)
(* waiting line of task ids in which a task stands behind every task of    *)
(* its priority or a higher one that was there before it.  An entry stays  *)
(* in the line when its task is cancelled or is being retried; dequeue()   *)
(* throws such entries away.  Every operation runs under the queue's       *)
(* RLock, so each is one step.                                             *)
(*                                                                         *)
(* DistributedQueue.tla refines this module with the heap and the sequence *)
(* counter of the code; Cluster.tla composes it with the threads that use  *)
(* the queue.                                                              *)
(***************************************************************************)
EXTENDS ClusterModels

VARIABLES status,      \* DistributedTask.status ("new": not submitted yet)
          assigned,    \* DistributedTask.assigned_node_id
          attempts,    \* DistributedTask.attempts
          line         \* the ids in _heap, in the order heappop returns them

queueVars == <<status, assigned, attempts, line>>

FifoTypeOK ==
    /\ status \in [Tasks -> Statuses]
    /\ assigned \in [Tasks -> Nodes \cup {NoNode}]
    /\ attempts \in [Tasks -> 0..MaxRetries]
    /\ line \in Seq(Tasks)

---------------------------------------------------------------------------
\* The line with t at position i + 1, and that position for a new arrival.
InsertAfter(q, i, t) ==
    [j \in 1..(Len(q) + 1) |->
        IF j <= i THEN q[j] ELSE IF j = i + 1 THEN t ELSE q[j - 1]]

\* t has an entry in q, and does not have two.
Occurs(q, t) == \E k \in 1..Len(q) : q[k] = t
AtMostOneEntry(q, t) == \A i, j \in 1..Len(q) : q[i] = t /\ q[j] = t => i = j

IsPlaceOf(t, i) ==
    /\ i \in 0..Len(line)
    /\ \A j \in 1..Len(line) : j <= i <=> Priority[line[j]] >= Priority[t]

\* heappush of (-priority, sequence, task_id)
Push(t) == \E i \in 0..Len(line) :
               IsPlaceOf(t, i) /\ line' = InsertAfter(line, i, t)

\* enqueue(task)
Enqueue(t) ==
    /\ status' = [status EXCEPT ![t] = "queued"]
    /\ Push(t)
    /\ UNCHANGED <<assigned, attempts>>

\* Faulty variant: retried tasks are handed out again.
DequeueRetrying(t) ==
    \E k \in 1..Len(line) :
        /\ line[k] = t
        /\ status[t] \in {"queued", "retrying"}
        /\ \A j \in 1..(k - 1) : status[line[j]] \notin {"queued", "retrying"}
        /\ line' = SubSeq(line, k + 1, Len(line))
        /\ status' = [status EXCEPT ![t] = "dispatched"]
        /\ UNCHANGED <<assigned, attempts>>

\* dequeue() pops entries until one names a task that is QUEUED ...
Dequeue(t) ==
    \E k \in 1..Len(line) :
        /\ line[k] = t
        /\ status[t] = "queued"
        /\ \A j \in 1..(k - 1) : status[line[j]] # "queued"
        /\ line' = SubSeq(line, k + 1, Len(line))
        /\ status' = [status EXCEPT ![t] = "dispatched"]
        /\ UNCHANGED <<assigned, attempts>>

\* ... and returns None when the entries run out.
DequeueNone ==
    /\ \A k \in 1..Len(line) : status[line[k]] # "queued"
    /\ line' = <<>>
    /\ UNCHANGED <<status, assigned, attempts>>

\* Faulty variant: a cancel that does not look at the status.
CancelUnchecked(t) ==
    /\ status[t] # "new"
    /\ status' = [status EXCEPT ![t] = "cancelled"]
    /\ UNCHANGED <<assigned, attempts, line>>

\* cancel(task_id) that returns True
Cancel(t) ==
    /\ status[t] = "queued"
    /\ status' = [status EXCEPT ![t] = "cancelled"]
    /\ UNCHANGED <<assigned, attempts, line>>

\* Faulty variant: the retried task is QUEUED at once, so dequeue() takes it.
RequeueQueued(t) ==
    /\ status' = [status EXCEPT ![t] = "queued"]
    /\ attempts' = [attempts EXCEPT ![t] = @ + 1]
    /\ assigned' = [assigned EXCEPT ![t] = NoNode]
    /\ Push(t)

\* requeue(task)
Requeue(t) ==
    /\ status' = [status EXCEPT ![t] = "retrying"]
    /\ attempts' = [attempts EXCEPT ![t] = @ + 1]
    /\ assigned' = [assigned EXCEPT ![t] = NoNode]
    /\ Push(t)

---------------------------------------------------------------------------
(***************************************************************************)
(* The queue with the callers it has in the cluster: clients submit and    *)
(* cancel, dispatch loops take tasks, run them or put them back, and       *)
(* failover moves what it found in flight on a lost node.  All of them     *)
(* write a task's status outside of the queue's lock.  The node, which     *)
(* they write too, is nothing to the queue.                                *)
(***************************************************************************)
Submit(t) == status[t] = "new" /\ Enqueue(t)

Writes(t, s) == status' = [status EXCEPT ![t] = s] /\ UNCHANGED <<assigned, attempts, line>>

\* A loop that found no node for its task sets it QUEUED ...
NoNodeFound(t) == status[t] = "dispatched" /\ Writes(t, "queued")

\* ... and calls enqueue(), unaware of a cancel in between.
PutBack(t) == status[t] \in {"queued", "cancelled"} /\ ~Occurs(line, t) /\ Enqueue(t)

\* The statuses of a task that dequeue() has returned and nobody put back.
TakenUp == {"dispatched", "running", "retrying", "completed", "failed"}

FailOver(t) ==
    /\ status[t] \in TakenUp
    /\ attempts[t] < MaxRetries
    /\ Requeue(t)

\* What a loop writes while it executes the task, and failover for the last time.
Execute(t) == status[t] \in TakenUp /\ \E s \in {"running", "completed", "failed"} : Writes(t, s)

FifoInit ==
    /\ status = [t \in Tasks |-> "new"]
    /\ assigned = [t \in Tasks |-> NoNode]
    /\ attempts = [t \in Tasks |-> 0]
    /\ line = <<>>

FifoNext ==
    \/ \E t \in Tasks : \/ Submit(t) \/ Dequeue(t) \/ Cancel(t) \/ NoNodeFound(t)
                        \/ PutBack(t) \/ FailOver(t) \/ Execute(t)
    \/ DequeueNone

FifoSpec == FifoInit /\ [][FifoNext]_queueVars
===========================================================================
