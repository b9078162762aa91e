-------------------------- MODULE DistributedQueue --------------------------
(***************************************************************************)
(* DistributedQueue as the code implements it (distributed_queue.py): a    *)
(* heap of (-priority, sequence, task_id) and a counter that numbers the   *)
(* insertions.  heappop returns the least entry, so the heap is the set of *)
(* its entries with their order.  The module is shown to implement         *)
(* PriorityFifo, the waiting line Cluster is built on.                     *)
(***************************************************************************)
EXTENDS ClusterModels, FiniteSets, Sequences

CONSTANT MaxSequence   \* bound on the insertions of a run

ASSUME SequenceAssumption == MaxSequence \in Nat

VARIABLES status, assigned, attempts,
          heap,        \* _heap: set of [task, seq]; the priority is the task's
          sequence     \* _sequence

heapVars == <<status, assigned, attempts, heap, sequence>>
taskVars == <<status, assigned, attempts>>

Entry == [task : Tasks, seq : Nat]

\* The order of (-priority, sequence, task_id).
Before(d, e) ==
    \/ Priority[d.task] > Priority[e.task]
    \/ Priority[d.task] = Priority[e.task] /\ d.seq < e.seq

\* No number is given out twice: the order of the heap is total, and heappop
\* never compares two entries by task_id.
HeapTypeOK ==
    /\ status \in [Tasks -> Statuses]
    /\ assigned \in [Tasks -> Nodes \cup {NoNode}]
    /\ attempts \in [Tasks -> 0..MaxRetries]
    /\ heap \subseteq Entry /\ IsFiniteSet(heap)
    /\ sequence \in 0..MaxSequence
    /\ \A d, e \in heap : d.seq = e.seq => d = e
    /\ \A e \in heap : e.seq < sequence

HeapInit ==
    /\ status = [t \in Tasks |-> "new"]
    /\ assigned = [t \in Tasks |-> NoNode]
    /\ attempts = [t \in Tasks |-> 0]
    /\ heap = {}
    /\ sequence = 0

---------------------------------------------------------------------------
HeapPush(t) ==
    /\ sequence < MaxSequence
    /\ heap' = heap \cup {[task |-> t, seq |-> sequence]}
    /\ sequence' = sequence + 1

HeapEnqueue(t) ==
    /\ HeapPush(t)
    /\ status' = [status EXCEPT ![t] = "queued"]
    /\ UNCHANGED <<assigned, attempts>>

\* Faulty variant: entries of tasks that are not QUEUED are left in the heap.
HeapDequeueKeepsStale(t) ==
    \E e \in heap :
        /\ e.task = t
        /\ status[t] = "queued"
        /\ \A d \in heap : Before(d, e) => status[d.task] # "queued"
        /\ heap' = heap \ {e}
        /\ status' = [status EXCEPT ![t] = "dispatched"]
        /\ UNCHANGED <<assigned, attempts, sequence>>

\* while self._heap: heappop, until the entry's task is QUEUED
HeapDequeue(t) ==
    \E e \in heap :
        /\ e.task = t
        /\ status[t] = "queued"
        /\ \A d \in heap : Before(d, e) => status[d.task] # "queued"
        /\ heap' = {d \in heap : Before(e, d)}
        /\ status' = [status EXCEPT ![t] = "dispatched"]
        /\ UNCHANGED <<assigned, attempts, sequence>>

HeapDequeueNone ==
    /\ \A e \in heap : status[e.task] # "queued"
    /\ heap' = {}
    /\ UNCHANGED <<taskVars, sequence>>

HeapCancel(t) ==
    /\ status[t] = "queued"
    /\ status' = [status EXCEPT ![t] = "cancelled"]
    /\ UNCHANGED <<assigned, attempts, heap, sequence>>

HeapRequeue(t) ==
    /\ HeapPush(t)
    /\ status' = [status EXCEPT ![t] = "retrying"]
    /\ attempts' = [attempts EXCEPT ![t] = @ + 1]
    /\ assigned' = [assigned EXCEPT ![t] = NoNode]

\* The callers of PriorityFifo.
HeapWrites(t, s) ==
    status' = [status EXCEPT ![t] = s] /\ UNCHANGED <<assigned, attempts, heap, sequence>>

HeapNoNodeFound(t) == status[t] = "dispatched" /\ HeapWrites(t, "queued")

HeapPutBack(t) ==
    /\ status[t] \in {"queued", "cancelled"}
    /\ \A e \in heap : e.task # t
    /\ HeapEnqueue(t)

TakenUp == {"dispatched", "running", "retrying", "completed", "failed"}

HeapFailOver(t) ==
    /\ status[t] \in TakenUp
    /\ attempts[t] < MaxRetries
    /\ HeapRequeue(t)

HeapExecute(t) ==
    status[t] \in TakenUp /\ \E s \in {"running", "completed", "failed"} : HeapWrites(t, s)

HeapNext ==
    \/ \E t \in Tasks :
          \/ status[t] = "new" /\ HeapEnqueue(t)
          \/ HeapDequeue(t) \/ HeapCancel(t) \/ HeapNoNodeFound(t)
          \/ HeapPutBack(t) \/ HeapFailOver(t) \/ HeapExecute(t)
    \/ HeapDequeueNone

HeapSpec == HeapInit /\ [][HeapNext]_heapVars

---------------------------------------------------------------------------
\* What heappop returns i-th is the entry with i - 1 entries before it.
Ahead(S, e) == {d \in S : Before(d, e)}

EntryAt(S, i) == CHOOSE e \in S : Cardinality(Ahead(S, e)) = i - 1

LineOf(S) == [i \in 1..Cardinality(S) |-> EntryAt(S, i).task]

\* The heap implements the waiting line: highest priority first, and first
\* come first served among equals, with cancelled and retried entries in it.
Fifo == INSTANCE PriorityFifo WITH line <- LineOf(heap)

HeapImplementsLine == Fifo!FifoSpec
============================================================================
