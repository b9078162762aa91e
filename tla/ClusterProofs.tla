--------------------------- MODULE ClusterProofs ---------------------------
(***************************************************************************)
(* Cluster, for any tasks, nodes, priorities, retry limit, policies and    *)
(* any number of dispatch loops: the safety properties the runs check.     *)
(*                                                                         *)
(* The inductive invariant comes first, with facts about the heap's order  *)
(* (what a push and a pop do to the occurrences of each task); then one    *)
(* lemma per action of Cluster, each showing that the action keeps IInv,   *)
(* one step per conjunct; then the theorems, and the composition: what the *)
(* cluster does, seen by each of its parts.                                *)
(***************************************************************************)
EXTENDS Cluster, FiniteSetTheorems, TLAPS

---------------------------------------------------------------------------
(* The inductive invariant.  What makes the properties hold is a division  *)
(* of the tasks.  A task that was never given to a node is Untouched:      *)
(* failover cannot find it, no call of execute_fn was made for it, and it  *)
(* has at most one entry in the heap.  Only such a task is ever QUEUED or  *)
(* put back.  Once a node is written into assigned_node_id the task is on  *)
(* its way to execute_fn in one loop, and whatever failover does to its    *)
(* status, it is never QUEUED again.                                       *)
Untouched(t) == runs[t] = 0 /\ assigned[t] = NoNode /\ t \notin orphans

Holding == {"assign", "select", "putBack", "fire", "own", "execute", "release"}

LoopInv(l) ==
    /\ held[l] # NoTask <=> pc[l] \in Holding
    /\ pc[l] \in {"assign", "select"} =>
          status[held[l]] = "dispatched" /\ Untouched(held[l]) /\ ~InLine(held[l])
    /\ pc[l] = "putBack" =>
          /\ status[held[l]] \in {"queued", "cancelled"}
          /\ Untouched(held[l]) /\ ~InLine(held[l])
    /\ pc[l] \in {"fire", "own"} =>
          /\ status[held[l]] \in {"dispatched", "running", "retrying", "failed"}
          /\ runs[held[l]] = 0 /\ pick[l] \in Nodes
    /\ pc[l] = "own" => status[held[l]] # "dispatched"
    /\ pc[l] \in {"execute", "release"} =>
          /\ status[held[l]] \in {"running", "retrying", "failed", "completed"}
          /\ runs[held[l]] = 1
    /\ pc[l] = "release" => status[held[l]] # "running"

TaskInv(t) ==
    /\ status[t] = "new" =>
          Untouched(t) /\ ~InLine(t) /\ \A l \in Loops : held[l] # t
    /\ status[t] = "queued" =>
          /\ Untouched(t) /\ AtMostOneEntry(line, t)
          /\ \A l \in Loops : held[l] = t => pc[l] = "putBack"
          /\ InLine(t) \/ \E l \in Loops : held[l] = t
    /\ status[t] \in {"dispatched", "running"} => \E l \in Loops : held[l] = t
    /\ runs[t] <= 1

MonitorInv ==
    /\ PassOK
    /\ mpc # "callback" => orphans = {}

IInv ==
    /\ TypeOK
    /\ \A l \in Loops : LoopInv(l)
    /\ \A t \in Tasks : TaskInv(t)
    /\ HeldByOneLoop
    /\ ActiveIsExecuting
    /\ MonitorInv

---------------------------------------------------------------------------
\* A push puts one entry of t into the line and keeps those of the others.
LEMMA PushFacts ==
    ASSUME line \in Seq(Tasks), NEW t \in Tasks, Push(t)
    PROVE  /\ line' \in Seq(Tasks)
           /\ Occurs(line', t)
           /\ ~Occurs(line, t) => AtMostOneEntry(line', t)
           /\ \A u \in Tasks \ {t} :
                 /\ Occurs(line', u) <=> Occurs(line, u)
                 /\ AtMostOneEntry(line, u) => AtMostOneEntry(line', u)
<1>1. PICK i \in 0..Len(line) : line' = InsertAfter(line, i, t)
    BY DEF Push
<1> DEFINE n == Len(line)
<1>2. n \in Nat /\ \A j \in 1..n : line[j] \in Tasks
    OBVIOUS
<1>3. \A j \in 1..(n + 1) : (IF j <= i THEN line[j] ELSE IF j = i + 1 THEN t ELSE line[j - 1]) \in Tasks
    BY <1>2
<1>4. line' \in Seq(Tasks) /\ Len(line') = n + 1
    BY <1>1, <1>2, <1>3 DEF InsertAfter
<1>5. \A j \in 1..(n + 1) :
         line'[j] = IF j <= i THEN line[j] ELSE IF j = i + 1 THEN t ELSE line[j - 1]
    BY <1>1, <1>2 DEF InsertAfter
<1>6. Occurs(line', t)
  <2>1. i + 1 \in 1..(n + 1) /\ line'[i + 1] = t
      BY <1>2, <1>5
  <2>2. QED
      BY <2>1, <1>4 DEF Occurs
<1>7. ASSUME ~Occurs(line, t) PROVE AtMostOneEntry(line', t)
  <2>1. ASSUME NEW j \in 1..(n + 1), line'[j] = t PROVE j = i + 1
    <3>1. \A k \in 1..n : line[k] # t
        BY <1>7 DEF Occurs
    <3>2. QED
        BY <2>1, <3>1, <1>2, <1>5
  <2>2. QED
      BY <2>1, <1>4 DEF AtMostOneEntry
<1>8. ASSUME NEW u \in Tasks \ {t} PROVE Occurs(line', u) <=> Occurs(line, u)
  <2>1. ASSUME NEW k \in 1..n, line[k] = u PROVE Occurs(line', u)
    <3>1. CASE k <= i
        BY <3>1, <2>1, <1>2, <1>4, <1>5 DEF Occurs
    <3>2. CASE k > i
      <4>1. k + 1 \in 1..(n + 1) /\ line'[k + 1] = line[k]
          BY <3>2, <1>2, <1>5
      <4>2. QED
          BY <4>1, <2>1, <1>4 DEF Occurs
    <3>3. QED
        BY <3>1, <3>2, <1>2
  <2>2. ASSUME NEW k \in 1..(n + 1), line'[k] = u PROVE Occurs(line, u)
      BY <2>2, <1>2, <1>5 DEF Occurs
  <2>3. QED
      BY <2>1, <2>2, <1>4 DEF Occurs
<1>9. ASSUME NEW u \in Tasks \ {t}, AtMostOneEntry(line, u)
      PROVE  AtMostOneEntry(line', u)
  <2> SUFFICES ASSUME NEW j \in 1..(n + 1), NEW k \in 1..(n + 1),
                      line'[j] = u, line'[k] = u
               PROVE  j = k
      BY <1>4 DEF AtMostOneEntry
  <2> DEFINE Back(x) == IF x <= i THEN x ELSE x - 1
  <2>1. /\ j # i + 1 /\ Back(j) \in 1..n /\ line[Back(j)] = u
        /\ k # i + 1 /\ Back(k) \in 1..n /\ line[Back(k)] = u
      BY <1>2, <1>5
  <2>2. Back(j) = Back(k)
      BY <2>1, <1>9 DEF AtMostOneEntry
  <2>3. QED
      BY <2>1, <2>2
<1>10. QED
    BY <1>4, <1>6, <1>7, <1>8, <1>9

\* A task without an entry does not have two.
LEMMA NoEntry == ASSUME NEW q, NEW t, ~Occurs(q, t) PROVE AtMostOneEntry(q, t)
BY DEF Occurs, AtMostOneEntry

\* The rest of the line after its k-th entry.
LEMMA RestFacts ==
    ASSUME NEW q \in Seq(Tasks), NEW k \in 1..Len(q)
    PROVE  LET r == SubSeq(q, k + 1, Len(q))
           IN  /\ r \in Seq(Tasks)
               /\ \A u \in Tasks :
                     /\ Occurs(r, u) => Occurs(q, u)
                     /\ Occurs(q, u) /\ (\A j \in 1..k : q[j] # u) => Occurs(r, u)
                     /\ AtMostOneEntry(q, u) => AtMostOneEntry(r, u)
                     /\ AtMostOneEntry(q, u) /\ q[k] = u => ~Occurs(r, u)
<1> DEFINE r == SubSeq(q, k + 1, Len(q))
<1>1. /\ r \in Seq(Tasks) /\ Len(r) = Len(q) - k
      /\ \A j \in 1..Len(r) : r[j] = q[k + j]
    OBVIOUS
<1>2. ASSUME NEW u \in Tasks, Occurs(q, u), \A j \in 1..k : q[j] # u PROVE Occurs(r, u)
  <2>1. PICK j \in 1..Len(q) : q[j] = u
      BY <1>2 DEF Occurs
  <2>2. j - k \in 1..Len(r) /\ r[j - k] = u
      BY <2>1, <1>1, <1>2
  <2>3. QED
      BY <2>2 DEF Occurs
<1>3. ASSUME NEW u \in Tasks, Occurs(r, u)
      PROVE  Occurs(q, u) /\ (AtMostOneEntry(q, u) => q[k] # u)
  <2>1. PICK j \in 1..Len(r) : r[j] = u
      BY <1>3 DEF Occurs
  <2>2. k + j \in 1..Len(q) /\ q[k + j] = u /\ k + j # k
      BY <2>1, <1>1
  <2>3. QED
      BY <2>2 DEF Occurs, AtMostOneEntry
<1>4. ASSUME NEW u \in Tasks, AtMostOneEntry(q, u) PROVE AtMostOneEntry(r, u)
  <2> SUFFICES ASSUME NEW i \in 1..Len(r), NEW j \in 1..Len(r), r[i] = u, r[j] = u
               PROVE  i = j
      BY DEF AtMostOneEntry
  <2>1. k + i \in 1..Len(q) /\ k + j \in 1..Len(q) /\ q[k + i] = u /\ q[k + j] = u
      BY <1>1
  <2>2. k + i = k + j
      BY <2>1, <1>4 DEF AtMostOneEntry
  <2>3. QED
      BY <2>2, <1>1
<1>5. QED
    BY <1>1, <1>2, <1>3, <1>4

\* dequeue() returning t takes t out of the line, if it was in it once, and no
\* other QUEUED task.
LEMMA DequeueFacts ==
    ASSUME line \in Seq(Tasks), NEW t \in Tasks, Dequeue(t)
    PROVE  /\ line' \in Seq(Tasks)
           /\ Occurs(line, t)
           /\ status[t] = "queued" /\ status' = [status EXCEPT ![t] = "dispatched"]
           /\ UNCHANGED <<assigned, attempts>>
           /\ AtMostOneEntry(line, t) => ~Occurs(line', t)
           /\ \A u \in Tasks :
                 /\ Occurs(line', u) => Occurs(line, u)
                 /\ AtMostOneEntry(line, u) => AtMostOneEntry(line', u)
                 /\ u # t /\ status[u] = "queued" /\ Occurs(line, u) => Occurs(line', u)
<1>1. PICK k \in 1..Len(line) :
         /\ line[k] = t /\ status[t] = "queued"
         /\ \A j \in 1..(k - 1) : status[line[j]] # "queued"
         /\ line' = SubSeq(line, k + 1, Len(line))
         /\ status' = [status EXCEPT ![t] = "dispatched"]
         /\ UNCHANGED <<assigned, attempts>>
    BY DEF Dequeue
<1>2. /\ line' \in Seq(Tasks)
      /\ \A u \in Tasks :
            /\ Occurs(line', u) => Occurs(line, u)
            /\ Occurs(line, u) /\ (\A j \in 1..k : line[j] # u) => Occurs(line', u)
            /\ AtMostOneEntry(line, u) => AtMostOneEntry(line', u)
            /\ AtMostOneEntry(line, u) /\ line[k] = u => ~Occurs(line', u)
  <2> DEFINE r == SubSeq(line, k + 1, Len(line))
  <2>1. /\ r \in Seq(Tasks)
        /\ \A u \in Tasks :
              /\ Occurs(r, u) => Occurs(line, u)
              /\ Occurs(line, u) /\ (\A j \in 1..k : line[j] # u) => Occurs(r, u)
              /\ AtMostOneEntry(line, u) => AtMostOneEntry(r, u)
              /\ AtMostOneEntry(line, u) /\ line[k] = u => ~Occurs(r, u)
      BY RestFacts
  <2>2. line' = r
      BY <1>1
  <2> HIDE DEF r
  <2>3. QED
      BY <2>1, <2>2
<1>3. ASSUME NEW u \in Tasks, u # t, status[u] = "queued" PROVE \A j \in 1..k : line[j] # u
    BY <1>1, <1>3
<1>4. Occurs(line, t)
    BY <1>1 DEF Occurs
<1>5. QED
    BY <1>1, <1>2, <1>3, <1>4

\* dequeue() returning None: no QUEUED task was in the line, and none is.
LEMMA DequeueNoneFacts ==
    ASSUME DequeueNone
    PROVE  /\ line' \in Seq(Tasks)
           /\ \A u \in Tasks : /\ status[u] = "queued" => ~Occurs(line, u)
                              /\ ~Occurs(line', u) /\ AtMostOneEntry(line', u)
           /\ UNCHANGED <<status, assigned, attempts>>
BY DEF DequeueNone, Occurs, AtMostOneEntry

\* A submitted task was new, so nothing has it in hand.
LEMMA SubmitTaskStep == ASSUME IInv, NEW t \in Tasks, SubmitTask(t) PROVE IInv'
<1> USE ModelsAssumption, ClusterAssumption DEF IInv, SubmitTask, Submit, Enqueue, queueVars, memberVars, monitorVars, loopVars, dispatchVars
<1>1. TypeOK'
    BY PushFacts DEF TypeOK, FifoTypeOK, MembershipTypeOK, LoopStates, Statuses, NodeStatuses, LoopInv, Holding, MonitorInv
<1>2. ASSUME NEW m \in Loops PROVE LoopInv(m)'
    BY PushFacts DEF TypeOK, FifoTypeOK, MembershipTypeOK, LoopInv, TaskInv, HeldByOneLoop, Untouched, Holding, InLine, MonitorInv
<1>3. ASSUME NEW u \in Tasks PROVE TaskInv(u)'
    BY PushFacts DEF TypeOK, FifoTypeOK, MembershipTypeOK, LoopInv, TaskInv, HeldByOneLoop, Untouched, Holding, InLine, MonitorInv
<1>4. HeldByOneLoop'
    BY PushFacts DEF TypeOK, LoopInv, HeldByOneLoop, Holding, TaskInv
<1>5. ActiveIsExecuting'
    BY PushFacts DEF TypeOK, LoopInv, HeldByOneLoop, ActiveIsExecuting, Holding
<1>6. MonitorInv'
    BY PushFacts DEF TypeOK, MembershipTypeOK, MonitorInv, PassOK
<1>7. QED
    BY <1>1, <1>2, <1>3, <1>4, <1>5, <1>6

\* Only a QUEUED task is cancelled; it stays Untouched.
LEMMA CancelTaskStep == ASSUME IInv, NEW t \in Tasks, CancelTask(t) PROVE IInv'
<1> USE ModelsAssumption, ClusterAssumption DEF IInv, CancelTask, Cancel, queueVars, memberVars, monitorVars, loopVars, dispatchVars
<1>1. TypeOK'
    BY DEF TypeOK, FifoTypeOK, MembershipTypeOK, LoopStates, Statuses, NodeStatuses, LoopInv, Holding, MonitorInv
<1>2. ASSUME NEW m \in Loops PROVE LoopInv(m)'
    BY DEF TypeOK, FifoTypeOK, MembershipTypeOK, LoopInv, TaskInv, HeldByOneLoop, Untouched, Holding, InLine, MonitorInv
<1>3. ASSUME NEW u \in Tasks PROVE TaskInv(u)'
    BY DEF TypeOK, FifoTypeOK, MembershipTypeOK, LoopInv, TaskInv, HeldByOneLoop, Untouched, Holding, InLine, MonitorInv
<1>4. HeldByOneLoop'
    BY DEF TypeOK, LoopInv, HeldByOneLoop, Holding, TaskInv
<1>5. ActiveIsExecuting'
    BY DEF TypeOK, LoopInv, HeldByOneLoop, ActiveIsExecuting, Holding
<1>6. MonitorInv'
    BY DEF TypeOK, MembershipTypeOK, MonitorInv, PassOK
<1>7. QED
    BY <1>1, <1>2, <1>3, <1>4, <1>5, <1>6

\* Calls of workers touch the membership only.
LEMMA WorkerStep == ASSUME IInv, Worker PROVE IInv'
<1> USE ModelsAssumption, ClusterAssumption DEF IInv, Worker, queueVars, memberVars, monitorVars, loopVars, dispatchVars
<1>1. TypeOK'
    BY WorkerCallTypes DEF TypeOK, FifoTypeOK, MembershipTypeOK, LoopStates, Statuses, NodeStatuses, LoopInv, Holding, MonitorInv
<1>2. ASSUME NEW m \in Loops PROVE LoopInv(m)'
    BY WorkerCallTypes DEF TypeOK, FifoTypeOK, MembershipTypeOK, LoopInv, TaskInv, HeldByOneLoop, Untouched, Holding, InLine, MonitorInv
<1>3. ASSUME NEW u \in Tasks PROVE TaskInv(u)'
    BY WorkerCallTypes DEF TypeOK, FifoTypeOK, MembershipTypeOK, LoopInv, TaskInv, HeldByOneLoop, Untouched, Holding, InLine, MonitorInv
<1>4. HeldByOneLoop'
    BY WorkerCallTypes DEF TypeOK, LoopInv, HeldByOneLoop, Holding, TaskInv
<1>5. ActiveIsExecuting'
    BY WorkerCallTypes DEF TypeOK, LoopInv, HeldByOneLoop, ActiveIsExecuting, Holding
<1>6. MonitorInv'
    BY WorkerCallTypes DEF TypeOK, MembershipTypeOK, MonitorInv, PassOK
<1>7. QED
    BY <1>1, <1>2, <1>3, <1>4, <1>5, <1>6

\* A policy change touches no task.
LEMMA SetPolicyStep == ASSUME IInv, NEW p \in Policies, SetPolicy(p) PROVE IInv'
<1> USE ModelsAssumption, ClusterAssumption DEF IInv, SetPolicy, queueVars, memberVars, monitorVars, loopVars, dispatchVars
<1>1. TypeOK'
    BY DEF TypeOK, FifoTypeOK, MembershipTypeOK, LoopStates, Statuses, NodeStatuses, LoopInv, Holding, MonitorInv
<1>2. ASSUME NEW m \in Loops PROVE LoopInv(m)'
    BY DEF TypeOK, FifoTypeOK, MembershipTypeOK, LoopInv, TaskInv, HeldByOneLoop, Untouched, Holding, InLine, MonitorInv
<1>3. ASSUME NEW u \in Tasks PROVE TaskInv(u)'
    BY DEF TypeOK, FifoTypeOK, MembershipTypeOK, LoopInv, TaskInv, HeldByOneLoop, Untouched, Holding, InLine, MonitorInv
<1>4. HeldByOneLoop'
    BY DEF TypeOK, LoopInv, HeldByOneLoop, Holding, TaskInv
<1>5. ActiveIsExecuting'
    BY DEF TypeOK, LoopInv, HeldByOneLoop, ActiveIsExecuting, Holding
<1>6. MonitorInv'
    BY DEF TypeOK, MembershipTypeOK, MonitorInv, PassOK
<1>7. QED
    BY <1>1, <1>2, <1>3, <1>4, <1>5, <1>6

\* A new loop holds nothing.
LEMMA StartStep == ASSUME IInv, NEW e \in Loops, Start(e) PROVE IInv'
<1> USE ModelsAssumption, ClusterAssumption DEF IInv, Start, Move, queueVars, memberVars, monitorVars, loopVars, dispatchVars
<1>1. TypeOK'
    BY DEF TypeOK, FifoTypeOK, MembershipTypeOK, LoopStates, Statuses, NodeStatuses, LoopInv, Holding, MonitorInv
<1>2. ASSUME NEW m \in Loops PROVE LoopInv(m)'
    BY DEF TypeOK, FifoTypeOK, MembershipTypeOK, LoopInv, TaskInv, HeldByOneLoop, Untouched, Holding, InLine, MonitorInv
<1>3. ASSUME NEW u \in Tasks PROVE TaskInv(u)'
    BY DEF TypeOK, FifoTypeOK, MembershipTypeOK, LoopInv, TaskInv, HeldByOneLoop, Untouched, Holding, InLine, MonitorInv
<1>4. HeldByOneLoop'
    BY DEF TypeOK, LoopInv, HeldByOneLoop, Holding, TaskInv
<1>5. ActiveIsExecuting'
    BY DEF TypeOK, LoopInv, HeldByOneLoop, ActiveIsExecuting, Holding
<1>6. MonitorInv'
    BY DEF TypeOK, MembershipTypeOK, MonitorInv, PassOK
<1>7. QED
    BY <1>1, <1>2, <1>3, <1>4, <1>5, <1>6

\* stop() clears a flag only.
LEMMA StopStep == ASSUME IInv, Stop PROVE IInv'
<1> USE ModelsAssumption, ClusterAssumption DEF IInv, Stop, queueVars, memberVars, monitorVars, loopVars, dispatchVars
<1>1. TypeOK'
    BY DEF TypeOK, FifoTypeOK, MembershipTypeOK, LoopStates, Statuses, NodeStatuses, LoopInv, Holding, MonitorInv
<1>2. ASSUME NEW m \in Loops PROVE LoopInv(m)'
    BY DEF TypeOK, FifoTypeOK, MembershipTypeOK, LoopInv, TaskInv, HeldByOneLoop, Untouched, Holding, InLine, MonitorInv
<1>3. ASSUME NEW u \in Tasks PROVE TaskInv(u)'
    BY DEF TypeOK, FifoTypeOK, MembershipTypeOK, LoopInv, TaskInv, HeldByOneLoop, Untouched, Holding, InLine, MonitorInv
<1>4. HeldByOneLoop'
    BY DEF TypeOK, LoopInv, HeldByOneLoop, Holding, TaskInv
<1>5. ActiveIsExecuting'
    BY DEF TypeOK, LoopInv, HeldByOneLoop, ActiveIsExecuting, Holding
<1>6. MonitorInv'
    BY DEF TypeOK, MembershipTypeOK, MonitorInv, PassOK
<1>7. QED
    BY <1>1, <1>2, <1>3, <1>4, <1>5, <1>6

\* The loop reads the flag and holds nothing.
LEMMA LoopTopStep == ASSUME IInv, NEW e \in Loops, LoopTop(e) PROVE IInv'
<1> USE ModelsAssumption, ClusterAssumption DEF IInv, LoopTop, Move, queueVars, memberVars, monitorVars, loopVars, dispatchVars
<1>1. TypeOK'
    BY DEF TypeOK, FifoTypeOK, MembershipTypeOK, LoopStates, Statuses, NodeStatuses, LoopInv, Holding, MonitorInv
<1>2. ASSUME NEW m \in Loops PROVE LoopInv(m)'
    BY DEF TypeOK, FifoTypeOK, MembershipTypeOK, LoopInv, TaskInv, HeldByOneLoop, Untouched, Holding, InLine, MonitorInv
<1>3. ASSUME NEW u \in Tasks PROVE TaskInv(u)'
    BY DEF TypeOK, FifoTypeOK, MembershipTypeOK, LoopInv, TaskInv, HeldByOneLoop, Untouched, Holding, InLine, MonitorInv
<1>4. HeldByOneLoop'
    BY DEF TypeOK, LoopInv, HeldByOneLoop, Holding, TaskInv
<1>5. ActiveIsExecuting'
    BY DEF TypeOK, LoopInv, HeldByOneLoop, ActiveIsExecuting, Holding
<1>6. MonitorInv'
    BY DEF TypeOK, MembershipTypeOK, MonitorInv, PassOK
<1>7. QED
    BY <1>1, <1>2, <1>3, <1>4, <1>5, <1>6

\* The task taken was QUEUED: it is Untouched and its one entry is gone.
LEMMA TakeTaskStep == ASSUME IInv, NEW e \in Loops, TakeTask(e) PROVE IInv'
<1> USE ModelsAssumption, ClusterAssumption DEF IInv, TakeTask, Move, queueVars, memberVars, monitorVars, loopVars, dispatchVars
<1>t. PICK t \in Tasks : Dequeue(t) /\ held' = [held EXCEPT ![e] = t]
    OBVIOUS
<1>d. /\ line' \in Seq(Tasks)
      /\ Occurs(line, t)
      /\ status[t] = "queued" /\ status' = [status EXCEPT ![t] = "dispatched"]
      /\ UNCHANGED <<assigned, attempts>>
      /\ AtMostOneEntry(line, t) => ~Occurs(line', t)
      /\ \A u \in Tasks :
            /\ Occurs(line', u) => Occurs(line, u)
            /\ AtMostOneEntry(line, u) => AtMostOneEntry(line', u)
            /\ u # t /\ status[u] = "queued" /\ Occurs(line, u) => Occurs(line', u)
    BY <1>t, DequeueFacts DEF TypeOK, FifoTypeOK
<1>h. \A l \in Loops : held[l] # t
  <2>1. ASSUME NEW l \in Loops, held[l] = t PROVE FALSE
    <3>1. pc[l] = "putBack"
        BY <1>d, <2>1 DEF TaskInv
    <3>2. ~Occurs(line, t)
        BY <3>1, <2>1 DEF LoopInv, InLine
    <3>3. QED
        BY <3>2, <1>d
  <2>2. QED
      BY <2>1
<1>1. TypeOK'
    BY <1>t, <1>d, <1>h DEF TypeOK, FifoTypeOK, MembershipTypeOK, LoopStates, Statuses, NodeStatuses, LoopInv, Holding, MonitorInv
<1>2. ASSUME NEW m \in Loops PROVE LoopInv(m)'
    BY <1>t, <1>d, <1>h DEF TypeOK, FifoTypeOK, MembershipTypeOK, LoopInv, TaskInv, HeldByOneLoop, Untouched, Holding, InLine, MonitorInv
<1>3. ASSUME NEW u \in Tasks PROVE TaskInv(u)'
  <2> TypeOK /\ FifoTypeOK /\ held[e] = NoTask /\ pc[e] = "take"
      BY DEF TypeOK, LoopInv, Holding
  <2>1. CASE u = t
      BY <2>1, <1>t, <1>d DEF TypeOK, FifoTypeOK, TaskInv, Untouched
  <2>2. CASE u # t
    <3>1. /\ status'[u] = status[u]
          /\ \A l \in Loops : held[l] = u <=> held'[l] = u
          /\ \A l \in Loops : held[l] = u => pc'[l] = pc[l]
        BY <2>2, <1>t, <1>d, <1>h DEF TypeOK, FifoTypeOK
    <3>2. QED
        BY <2>2, <3>1, <1>t, <1>d DEF TypeOK, FifoTypeOK, TaskInv, Untouched, InLine
  <2>3. QED
      BY <2>1, <2>2
<1>4. HeldByOneLoop'
    BY <1>t, <1>d, <1>h DEF TypeOK, LoopInv, HeldByOneLoop, Holding, TaskInv
<1>5. ActiveIsExecuting'
    BY <1>t, <1>d, <1>h DEF TypeOK, LoopInv, HeldByOneLoop, ActiveIsExecuting, Holding
<1>6. MonitorInv'
    BY <1>t, <1>d, <1>h DEF TypeOK, MembershipTypeOK, MonitorInv, PassOK
<1>7. QED
    BY <1>1, <1>2, <1>3, <1>4, <1>5, <1>6

\* Only entries of tasks that are not QUEUED are thrown away.
LEMMA TakeNoneStep == ASSUME IInv, NEW e \in Loops, TakeNone(e) PROVE IInv'
<1> USE ModelsAssumption, ClusterAssumption DEF IInv, TakeNone, Move, queueVars, memberVars, monitorVars, loopVars, dispatchVars
<1>1. TypeOK'
    BY DequeueNoneFacts DEF TypeOK, FifoTypeOK, MembershipTypeOK, LoopStates, Statuses, NodeStatuses, LoopInv, Holding, MonitorInv
<1>2. ASSUME NEW m \in Loops PROVE LoopInv(m)'
    BY DequeueNoneFacts DEF TypeOK, FifoTypeOK, MembershipTypeOK, LoopInv, TaskInv, HeldByOneLoop, Untouched, Holding, InLine, MonitorInv
<1>3. ASSUME NEW u \in Tasks PROVE TaskInv(u)'
    BY DequeueNoneFacts DEF TypeOK, FifoTypeOK, MembershipTypeOK, LoopInv, TaskInv, HeldByOneLoop, Untouched, Holding, InLine, MonitorInv
<1>4. HeldByOneLoop'
    BY DequeueNoneFacts DEF TypeOK, LoopInv, HeldByOneLoop, Holding, TaskInv
<1>5. ActiveIsExecuting'
    BY DequeueNoneFacts DEF TypeOK, LoopInv, HeldByOneLoop, ActiveIsExecuting, Holding
<1>6. MonitorInv'
    BY DequeueNoneFacts DEF TypeOK, MembershipTypeOK, MonitorInv, PassOK
<1>7. QED
    BY <1>1, <1>2, <1>3, <1>4, <1>5, <1>6

\* The snapshot of online nodes touches no task.
LEMMA SnapshotStep == ASSUME IInv, NEW e \in Loops, Snapshot(e) PROVE IInv'
<1> USE ModelsAssumption, ClusterAssumption DEF IInv, Snapshot, Online, Move, queueVars, memberVars, monitorVars, loopVars, dispatchVars
<1>1. TypeOK'
    BY DEF TypeOK, FifoTypeOK, MembershipTypeOK, LoopStates, Statuses, NodeStatuses, LoopInv, Holding, MonitorInv
<1>2. ASSUME NEW m \in Loops PROVE LoopInv(m)'
    BY DEF TypeOK, FifoTypeOK, MembershipTypeOK, LoopInv, TaskInv, HeldByOneLoop, Untouched, Holding, InLine, MonitorInv
<1>3. ASSUME NEW u \in Tasks PROVE TaskInv(u)'
    BY DEF TypeOK, FifoTypeOK, MembershipTypeOK, LoopInv, TaskInv, HeldByOneLoop, Untouched, Holding, InLine, MonitorInv
<1>4. HeldByOneLoop'
    BY DEF TypeOK, LoopInv, HeldByOneLoop, Holding, TaskInv
<1>5. ActiveIsExecuting'
    BY DEF TypeOK, LoopInv, HeldByOneLoop, ActiveIsExecuting, Holding
<1>6. MonitorInv'
    BY DEF TypeOK, MembershipTypeOK, MonitorInv, PassOK
<1>7. QED
    BY <1>1, <1>2, <1>3, <1>4, <1>5, <1>6

\* The held task leaves the Untouched ones; failover may find it from here on.
LEMMA SelectNodeStep == ASSUME IInv, NEW e \in Loops, SelectNode(e) PROVE IInv'
<1> USE ModelsAssumption, ClusterAssumption DEF IInv, SelectNode, Eligible, Move, queueVars, memberVars, monitorVars, loopVars, dispatchVars
<1>1. TypeOK'
    BY DEF TypeOK, FifoTypeOK, MembershipTypeOK, LoopStates, Statuses, NodeStatuses, LoopInv, Holding, MonitorInv
<1>2. ASSUME NEW m \in Loops PROVE LoopInv(m)'
    BY DEF TypeOK, FifoTypeOK, MembershipTypeOK, LoopInv, TaskInv, HeldByOneLoop, Untouched, Holding, InLine, MonitorInv
<1>3. ASSUME NEW u \in Tasks PROVE TaskInv(u)'
    BY DEF TypeOK, FifoTypeOK, MembershipTypeOK, LoopInv, TaskInv, HeldByOneLoop, Untouched, Holding, InLine, MonitorInv
<1>4. HeldByOneLoop'
    BY DEF TypeOK, LoopInv, HeldByOneLoop, Holding, TaskInv
<1>5. ActiveIsExecuting'
    BY DEF TypeOK, LoopInv, HeldByOneLoop, ActiveIsExecuting, Holding
<1>6. MonitorInv'
    BY DEF TypeOK, MembershipTypeOK, MonitorInv, PassOK
<1>7. QED
    BY <1>1, <1>2, <1>3, <1>4, <1>5, <1>6

\* A task without a node is QUEUED again and still Untouched.
LEMMA SelectNoneStep == ASSUME IInv, NEW e \in Loops, SelectNone(e) PROVE IInv'
<1> USE ModelsAssumption, ClusterAssumption DEF IInv, SelectNone, Move, queueVars, memberVars, monitorVars, loopVars, dispatchVars
<1>1. TypeOK'
    BY DEF TypeOK, FifoTypeOK, MembershipTypeOK, LoopStates, Statuses, NodeStatuses, LoopInv, Holding, MonitorInv
<1>2. ASSUME NEW m \in Loops PROVE LoopInv(m)'
    BY DEF TypeOK, FifoTypeOK, MembershipTypeOK, LoopInv, TaskInv, HeldByOneLoop, Untouched, Holding, InLine, MonitorInv
<1>3. ASSUME NEW u \in Tasks PROVE TaskInv(u)'
  <2>1. CASE u = held[e]
      BY <2>1, NoEntry DEF TypeOK, FifoTypeOK, LoopInv, TaskInv, HeldByOneLoop, Untouched, Holding, InLine
  <2>2. CASE u # held[e]
    <3>1. status'[u] = status[u] /\ \A l \in Loops : held[l] = u => held'[l] = u /\ pc'[l] = pc[l]
        BY <2>2 DEF TypeOK, FifoTypeOK
    <3>2. \A l \in Loops : held'[l] = u => held[l] = u
        BY <2>2 DEF TypeOK
    <3>3. QED
        BY <3>1, <3>2 DEF TypeOK, FifoTypeOK, TaskInv, Untouched, InLine
  <2>3. QED
      BY <2>1, <2>2
<1>4. HeldByOneLoop'
    BY DEF TypeOK, LoopInv, HeldByOneLoop, Holding, TaskInv
<1>5. ActiveIsExecuting'
    BY DEF TypeOK, LoopInv, HeldByOneLoop, ActiveIsExecuting, Holding
<1>6. MonitorInv'
    BY DEF TypeOK, MembershipTypeOK, MonitorInv, PassOK
<1>7. QED
    BY <1>1, <1>2, <1>3, <1>4, <1>5, <1>6

\* enqueue() gives the held task its one entry and lets go of it.
LEMMA PutTaskBackStep == ASSUME IInv, NEW e \in Loops, PutTaskBack(e) PROVE IInv'
<1> USE ModelsAssumption, ClusterAssumption DEF IInv, PutTaskBack, Enqueue, Move, queueVars, memberVars, monitorVars, loopVars, dispatchVars
<1>1. TypeOK'
    BY PushFacts DEF TypeOK, FifoTypeOK, MembershipTypeOK, LoopStates, Statuses, NodeStatuses, LoopInv, Holding, MonitorInv
<1>2. ASSUME NEW m \in Loops PROVE LoopInv(m)'
    BY PushFacts DEF TypeOK, FifoTypeOK, MembershipTypeOK, LoopInv, TaskInv, HeldByOneLoop, Untouched, Holding, InLine, MonitorInv
<1>3. ASSUME NEW u \in Tasks PROVE TaskInv(u)'
    BY PushFacts DEF TypeOK, FifoTypeOK, MembershipTypeOK, LoopInv, TaskInv, HeldByOneLoop, Untouched, Holding, InLine, MonitorInv
<1>4. HeldByOneLoop'
    BY PushFacts DEF TypeOK, LoopInv, HeldByOneLoop, Holding, TaskInv
<1>5. ActiveIsExecuting'
    BY PushFacts DEF TypeOK, LoopInv, HeldByOneLoop, ActiveIsExecuting, Holding
<1>6. MonitorInv'
    BY PushFacts DEF TypeOK, MembershipTypeOK, MonitorInv, PassOK
<1>7. QED
    BY <1>1, <1>2, <1>3, <1>4, <1>5, <1>6

\* Whatever failover wrote, the status becomes RUNNING in the loop's hands.
LEMMA FireStep == ASSUME IInv, NEW e \in Loops, Fire(e) PROVE IInv'
<1> USE ModelsAssumption, ClusterAssumption DEF IInv, Fire, Move, queueVars, memberVars, monitorVars, loopVars, dispatchVars
<1>1. TypeOK'
    BY DEF TypeOK, FifoTypeOK, MembershipTypeOK, LoopStates, Statuses, NodeStatuses, LoopInv, Holding, MonitorInv
<1>2. ASSUME NEW m \in Loops PROVE LoopInv(m)'
    BY DEF TypeOK, FifoTypeOK, MembershipTypeOK, LoopInv, TaskInv, HeldByOneLoop, Untouched, Holding, InLine, MonitorInv
<1>3. ASSUME NEW u \in Tasks PROVE TaskInv(u)'
    BY DEF TypeOK, FifoTypeOK, MembershipTypeOK, LoopInv, TaskInv, HeldByOneLoop, Untouched, Holding, InLine, MonitorInv
<1>4. HeldByOneLoop'
    BY DEF TypeOK, LoopInv, HeldByOneLoop, Holding, TaskInv
<1>5. ActiveIsExecuting'
    BY DEF TypeOK, LoopInv, HeldByOneLoop, ActiveIsExecuting, Holding
<1>6. MonitorInv'
    BY DEF TypeOK, MembershipTypeOK, MonitorInv, PassOK
<1>7. QED
    BY <1>1, <1>2, <1>3, <1>4, <1>5, <1>6

\* The one call of execute_fn for the held task.
LEMMA OwnStep == ASSUME IInv, NEW e \in Loops, Own(e) PROVE IInv'
<1> USE ModelsAssumption, ClusterAssumption DEF IInv, Own, Move, queueVars, memberVars, monitorVars, loopVars, dispatchVars
<1>1. TypeOK'
    BY DEF TypeOK, FifoTypeOK, MembershipTypeOK, LoopStates, Statuses, NodeStatuses, LoopInv, Holding, MonitorInv
<1>2. ASSUME NEW m \in Loops PROVE LoopInv(m)'
    BY DEF TypeOK, FifoTypeOK, MembershipTypeOK, LoopInv, TaskInv, HeldByOneLoop, Untouched, Holding, InLine, MonitorInv
<1>3. ASSUME NEW u \in Tasks PROVE TaskInv(u)'
    BY DEF TypeOK, FifoTypeOK, MembershipTypeOK, LoopInv, TaskInv, HeldByOneLoop, Untouched, Holding, InLine, MonitorInv
<1>4. HeldByOneLoop'
    BY DEF TypeOK, LoopInv, HeldByOneLoop, Holding, TaskInv
<1>5. ActiveIsExecuting'
    BY DEF TypeOK, LoopInv, HeldByOneLoop, ActiveIsExecuting, Holding
<1>6. MonitorInv'
    BY DEF TypeOK, MembershipTypeOK, MonitorInv, PassOK
<1>7. QED
    BY <1>1, <1>2, <1>3, <1>4, <1>5, <1>6

\* The result is written while the loop still holds the task.
LEMMA FinishStep == ASSUME IInv, NEW e \in Loops, Finish(e) PROVE IInv'
<1> USE ModelsAssumption, ClusterAssumption DEF IInv, Finish, Move, queueVars, memberVars, monitorVars, loopVars, dispatchVars
<1>1. TypeOK'
    BY DEF TypeOK, FifoTypeOK, MembershipTypeOK, LoopStates, Statuses, NodeStatuses, LoopInv, Holding, MonitorInv
<1>2. ASSUME NEW m \in Loops PROVE LoopInv(m)'
    BY DEF TypeOK, FifoTypeOK, MembershipTypeOK, LoopInv, TaskInv, HeldByOneLoop, Untouched, Holding, InLine, MonitorInv
<1>3. ASSUME NEW u \in Tasks PROVE TaskInv(u)'
    BY DEF TypeOK, FifoTypeOK, MembershipTypeOK, LoopInv, TaskInv, HeldByOneLoop, Untouched, Holding, InLine, MonitorInv
<1>4. HeldByOneLoop'
    BY DEF TypeOK, LoopInv, HeldByOneLoop, Holding, TaskInv
<1>5. ActiveIsExecuting'
    BY DEF TypeOK, LoopInv, HeldByOneLoop, ActiveIsExecuting, Holding
<1>6. MonitorInv'
    BY DEF TypeOK, MembershipTypeOK, MonitorInv, PassOK
<1>7. QED
    BY <1>1, <1>2, <1>3, <1>4, <1>5, <1>6

\* The task let go is no longer in flight.
LEMMA ReleaseStep == ASSUME IInv, NEW e \in Loops, Release(e) PROVE IInv'
<1> USE ModelsAssumption, ClusterAssumption DEF IInv, Release, Move, queueVars, memberVars, monitorVars, loopVars, dispatchVars
<1>1. TypeOK'
    BY DEF TypeOK, FifoTypeOK, MembershipTypeOK, LoopStates, Statuses, NodeStatuses, LoopInv, Holding, MonitorInv
<1>2. ASSUME NEW m \in Loops PROVE LoopInv(m)'
    BY DEF TypeOK, FifoTypeOK, MembershipTypeOK, LoopInv, TaskInv, HeldByOneLoop, Untouched, Holding, InLine, MonitorInv
<1>3. ASSUME NEW u \in Tasks PROVE TaskInv(u)'
  <2>1. CASE u = held[e]
      BY <2>1, NoEntry DEF TypeOK, FifoTypeOK, LoopInv, TaskInv, HeldByOneLoop, Untouched, Holding, InLine
  <2>2. CASE u # held[e]
    <3>1. status'[u] = status[u] /\ \A l \in Loops : held[l] = u => held'[l] = u /\ pc'[l] = pc[l]
        BY <2>2 DEF TypeOK, FifoTypeOK
    <3>2. \A l \in Loops : held'[l] = u => held[l] = u
        BY <2>2 DEF TypeOK
    <3>3. QED
        BY <3>1, <3>2 DEF TypeOK, FifoTypeOK, TaskInv, Untouched, InLine
  <2>3. QED
      BY <2>1, <2>2
<1>4. HeldByOneLoop'
    BY DEF TypeOK, LoopInv, HeldByOneLoop, Holding, TaskInv
<1>5. ActiveIsExecuting'
    BY DEF TypeOK, LoopInv, HeldByOneLoop, ActiveIsExecuting, Holding
<1>6. MonitorInv'
    BY DEF TypeOK, MembershipTypeOK, MonitorInv, PassOK
<1>7. QED
    BY <1>1, <1>2, <1>3, <1>4, <1>5, <1>6

\* An eviction touches the membership only.
LEMMA EvictStep == ASSUME IInv, Evict PROVE IInv'
<1> USE ModelsAssumption, ClusterAssumption DEF IInv, Evict, MarkOffline, Registered, queueVars, memberVars, monitorVars, loopVars, dispatchVars
<1>1. TypeOK'
    BY DEF TypeOK, FifoTypeOK, MembershipTypeOK, LoopStates, Statuses, NodeStatuses, LoopInv, Holding, MonitorInv
<1>2. ASSUME NEW m \in Loops PROVE LoopInv(m)'
    BY DEF TypeOK, FifoTypeOK, MembershipTypeOK, LoopInv, TaskInv, HeldByOneLoop, Untouched, Holding, InLine, MonitorInv
<1>3. ASSUME NEW u \in Tasks PROVE TaskInv(u)'
    BY DEF TypeOK, FifoTypeOK, MembershipTypeOK, LoopInv, TaskInv, HeldByOneLoop, Untouched, Holding, InLine, MonitorInv
<1>4. HeldByOneLoop'
    BY DEF TypeOK, LoopInv, HeldByOneLoop, Holding, TaskInv
<1>5. ActiveIsExecuting'
    BY DEF TypeOK, LoopInv, HeldByOneLoop, ActiveIsExecuting, Holding
<1>6. MonitorInv'
    BY DEF TypeOK, MembershipTypeOK, MonitorInv, PassOK
<1>7. QED
    BY <1>1, <1>2, <1>3, <1>4, <1>5, <1>6

\* The tasks failover finds carry a node id, so none of them is QUEUED.
LEMMA FindOrphansStep == ASSUME IInv, FindOrphans PROVE IInv'
<1> USE ModelsAssumption, ClusterAssumption DEF IInv, FindOrphans, CallbackDone, queueVars, memberVars, monitorVars, loopVars, dispatchVars
<1>1. TypeOK'
    BY DEF TypeOK, FifoTypeOK, MembershipTypeOK, LoopStates, Statuses, NodeStatuses, LoopInv, Holding, MonitorInv
<1>2. ASSUME NEW m \in Loops PROVE LoopInv(m)'
    BY DEF TypeOK, FifoTypeOK, MembershipTypeOK, LoopInv, TaskInv, HeldByOneLoop, Untouched, Holding, InLine, MonitorInv, PassOK
<1>3. ASSUME NEW u \in Tasks PROVE TaskInv(u)'
    BY DEF TypeOK, FifoTypeOK, MembershipTypeOK, LoopInv, TaskInv, HeldByOneLoop, Untouched, Holding, InLine, MonitorInv
<1>4. HeldByOneLoop'
    BY DEF TypeOK, LoopInv, HeldByOneLoop, Holding, TaskInv
<1>5. ActiveIsExecuting'
    BY DEF TypeOK, LoopInv, HeldByOneLoop, ActiveIsExecuting, Holding
<1>6. MonitorInv'
    BY DEF TypeOK, MembershipTypeOK, MonitorInv, PassOK
<1>7. QED
    BY <1>1, <1>2, <1>3, <1>4, <1>5, <1>6

\* A task failover moves is RETRYING or FAILED, never QUEUED.
LEMMA MoveOrphanStep == ASSUME IInv, NEW t \in Tasks, MoveOrphan(t) PROVE IInv'
<1> USE ModelsAssumption, ClusterAssumption DEF IInv, MoveOrphan, Requeued, PermanentlyFailed, Requeue, CallbackDone, queueVars, memberVars, monitorVars, loopVars, dispatchVars
<1>1. TypeOK'
  <2>1. FifoTypeOK'
    <3>1. CASE Requeued(t)
        BY <3>1, PushFacts DEF TypeOK, FifoTypeOK, Statuses
    <3>2. CASE PermanentlyFailed(t)
        BY <3>2 DEF TypeOK, FifoTypeOK, Statuses
    <3>3. QED
        BY <3>1, <3>2
  <2>2. MembershipTypeOK'
      BY CallbackDoneTypes DEF TypeOK, MembershipTypeOK, MonitorInv
  <2>3. QED
      BY <2>1, <2>2 DEF TypeOK
<1>2. ASSUME NEW m \in Loops PROVE LoopInv(m)'
    BY PushFacts DEF TypeOK, FifoTypeOK, MembershipTypeOK, LoopInv, TaskInv, HeldByOneLoop, Untouched, Holding, InLine, MonitorInv
<1>3. ASSUME NEW u \in Tasks PROVE TaskInv(u)'
  <2>1. CASE u = t
      BY <2>1 DEF TypeOK, FifoTypeOK, TaskInv
  <2>2. CASE u # t
    <3>1. /\ status'[u] = status[u] /\ (assigned[u] = NoNode <=> assigned'[u] = NoNode)
          /\ u \in orphans' => u \in orphans
        BY <2>2 DEF TypeOK, FifoTypeOK
    <3>2. /\ Occurs(line', u) <=> Occurs(line, u)
          /\ AtMostOneEntry(line, u) => AtMostOneEntry(line', u)
        BY <2>2, PushFacts DEF TypeOK, FifoTypeOK
    <3>3. QED
        BY <3>1, <3>2 DEF TypeOK, TaskInv, Untouched, InLine
  <2>3. QED
      BY <2>1, <2>2
<1>4. HeldByOneLoop'
    BY PushFacts DEF TypeOK, LoopInv, HeldByOneLoop, Holding, TaskInv
<1>5. ActiveIsExecuting'
    BY PushFacts DEF TypeOK, LoopInv, HeldByOneLoop, ActiveIsExecuting, Holding
<1>6. MonitorInv'
    BY PushFacts DEF TypeOK, MembershipTypeOK, MonitorInv, PassOK
<1>7. QED
    BY <1>1, <1>2, <1>3, <1>4, <1>5, <1>6

\* The rest of a monitor's pass touches the membership only.
LEMMA PassStepKeeps == ASSUME IInv, PassStep PROVE IInv'
<1> USE ModelsAssumption, ClusterAssumption DEF IInv, PassStep, StartPass, FinishPass, CheckNode, queueVars, memberVars, monitorVars, loopVars, dispatchVars
<1>1. TypeOK'
  <2>1. MembershipTypeOK'
      BY StartPassTypes, FinishPassTypes, CheckNodeTypes DEF TypeOK, MonitorInv
  <2>2. QED
      BY <2>1, NoEntry DEF TypeOK, FifoTypeOK
<1>2. ASSUME NEW m \in Loops PROVE LoopInv(m)'
    BY DEF TypeOK, FifoTypeOK, MembershipTypeOK, LoopInv, TaskInv, HeldByOneLoop, Untouched, Holding, InLine, MonitorInv
<1>3. ASSUME NEW u \in Tasks PROVE TaskInv(u)'
    BY DEF TypeOK, FifoTypeOK, MembershipTypeOK, LoopInv, TaskInv, HeldByOneLoop, Untouched, Holding, InLine, MonitorInv
<1>4. HeldByOneLoop'
    BY DEF TypeOK, LoopInv, HeldByOneLoop, Holding, TaskInv
<1>5. ActiveIsExecuting'
    BY DEF TypeOK, LoopInv, HeldByOneLoop, ActiveIsExecuting, Holding
<1>6. MonitorInv'
    BY DEF TypeOK, MembershipTypeOK, MonitorInv, PassOK
<1>7. QED
    BY <1>1, <1>2, <1>3, <1>4, <1>5, <1>6

---------------------------------------------------------------------------
\* Every task is new, no loop runs and no pass has begun.
LEMMA InitInv == Init => IInv
<1> SUFFICES ASSUME Init PROVE IInv
    OBVIOUS
<1> USE ModelsAssumption, ClusterAssumption DEF Init, FifoInit, MembershipInit
<1>1. TypeOK /\ MonitorInv
  <2>1. FifoTypeOK
      BY DEF FifoTypeOK, Statuses
  <2>2. MembershipTypeOK /\ MonitorInv
      BY DEF MembershipTypeOK, NodeStatuses, MonitorInv, PassOK
  <2>3. QED
      BY <2>1, <2>2 DEF TypeOK, LoopStates
<1>2. ASSUME NEW l \in Loops PROVE LoopInv(l)
    BY DEF LoopInv, Holding
<1>3. ASSUME NEW t \in Tasks PROVE TaskInv(t)
    BY DEF TaskInv, Untouched, InLine, Occurs
<1>4. HeldByOneLoop /\ ActiveIsExecuting
    BY DEF HeldByOneLoop, ActiveIsExecuting
<1>5. QED
    BY <1>1, <1>2, <1>3, <1>4 DEF IInv

\* A step that changes nothing.
LEMMA StutterStep == ASSUME IInv, UNCHANGED vars PROVE IInv'
<1> USE DEF IInv, vars, queueVars, memberVars, monitorVars, loopVars, dispatchVars
<1>1. TypeOK' /\ MonitorInv'
    BY DEF TypeOK, FifoTypeOK, MembershipTypeOK, MonitorInv, PassOK
<1>2. ASSUME NEW l \in Loops PROVE LoopInv(l)'
    BY DEF LoopInv, Untouched, InLine
<1>3. ASSUME NEW t \in Tasks PROVE TaskInv(t)'
    BY DEF TaskInv, Untouched, InLine
<1>4. HeldByOneLoop' /\ ActiveIsExecuting'
    BY DEF HeldByOneLoop, ActiveIsExecuting
<1>5. QED
    BY <1>1, <1>2, <1>3, <1>4

\* Every step of the cluster preserves the invariant.
LEMMA NextInv == IInv /\ [Next]_vars => IInv'
<1> SUFFICES ASSUME IInv, [Next]_vars PROVE IInv'
    OBVIOUS
<1>1. ASSUME NEW t \in Tasks, SubmitTask(t) \/ CancelTask(t) \/ MoveOrphan(t) PROVE IInv'
    BY <1>1, SubmitTaskStep, CancelTaskStep, MoveOrphanStep
<1>2. ASSUME NEW l \in Loops, Start(l) PROVE IInv'
    BY <1>2, StartStep
<1>3. ASSUME NEW l \in Loops, LoopStep(l) PROVE IInv'
    BY <1>3, LoopTopStep, TakeTaskStep, TakeNoneStep, SnapshotStep, SelectNodeStep, SelectNoneStep,
       PutTaskBackStep, FireStep, OwnStep, FinishStep, ReleaseStep DEF LoopStep
<1>4. ASSUME NEW p \in Policies, SetPolicy(p) PROVE IInv'
    BY <1>4, SetPolicyStep
<1>5. QED
    BY <1>1, <1>2, <1>3, <1>4, WorkerStep, StopStep, PassStepKeeps, EvictStep, FindOrphansStep,
       StutterStep DEF Next, Monitor

\* The division of the tasks (IInv) holds in every reachable state.
THEOREM ClusterInvariance == Spec => []IInv
BY InitInv, NextInv, PTL DEF Spec

\* The types of the cluster's state hold for good.
THEOREM ClusterTypeCorrect == Spec => []TypeOK
<1>1. IInv => TypeOK
    BY DEF IInv
<1>2. QED
    BY <1>1, ClusterInvariance, PTL

\* distributed_queue.py and the loop's put-back together never lose a QUEUED
\* task: it is in the heap, or in the hands of the loop about to push it; and a
\* task in flight is in the hands of a loop.
THEOREM TasksAreNotStranded == Spec => []NoTaskIsStranded
<1>1. IInv => QueuedIsReachable
    BY DEF IInv, TaskInv, QueuedIsReachable, HeldBy
<1>2. IInv => InFlightIsHeld
    BY DEF IInv, TaskInv, InFlightIsHeld, HeldBy
<1>3. IInv => NoTaskIsStranded
    BY <1>1, <1>2 DEF NoTaskIsStranded
<1>4. QED
    BY <1>3, ClusterInvariance, PTL

\* Any number of dispatch loops: no task is in two of them.
THEOREM OneLoopPerTask == Spec => []HeldByOneLoop
<1>1. IInv => HeldByOneLoop
    BY DEF IInv
<1>2. QED
    BY <1>1, ClusterInvariance, PTL

\* execute_fn is called at most once for a task.
THEOREM ExecutedOnce == Spec => []AtMostOnce
<1>1. IInv => AtMostOnce
    BY DEF IInv, TaskInv, AtMostOnce
<1>2. QED
    BY <1>1, ClusterInvariance, PTL

\* list_active_tasks() is accurate.
THEOREM ActiveTasksExecuting == Spec => []ActiveIsExecuting
<1>1. IInv => ActiveIsExecuting
    BY DEF IInv
<1>2. QED
    BY <1>1, ClusterInvariance, PTL

---------------------------------------------------------------------------
\* Who writes a task's status: the queue's operations, the loop that holds it,
\* and the failover that has it in hand.
LEMMA StatusWriters ==
    ASSUME IInv, [Next]_vars, NEW t \in Tasks, status'[t] # status[t]
    PROVE  status[t] \in {"new", "queued"} \/ HeldBy(t) # {} \/ t \in orphans
<1> USE DEF IInv, TypeOK, FifoTypeOK, queueVars, memberVars, monitorVars, loopVars, dispatchVars
<1>1. ASSUME NEW u \in Tasks, SubmitTask(u) \/ CancelTask(u) PROVE status[t] \in {"new", "queued"}
    BY <1>1 DEF SubmitTask, Submit, Enqueue, CancelTask, Cancel
<1>2. ASSUME NEW u \in Tasks, MoveOrphan(u) PROVE t \in orphans
    BY <1>2 DEF MoveOrphan, Requeued, PermanentlyFailed, Requeue
<1>3. ASSUME NEW l \in Loops, Start(l) PROVE FALSE
    BY <1>3 DEF Start
<1>4. ASSUME NEW l \in Loops, LoopStep(l) PROVE status[t] = "queued" \/ held[l] = t
  <2>1. CASE TakeTask(l)
      BY <2>1 DEF TakeTask, Dequeue
  <2>2. CASE LoopTop(l) \/ TakeNone(l) \/ Snapshot(l) \/ SelectNode(l) \/ Own(l) \/ Release(l)
      BY <2>2 DEF LoopTop, TakeNone, DequeueNone, Snapshot, SelectNode, Own, Release
  <2>3. CASE SelectNone(l) \/ PutTaskBack(l) \/ Fire(l) \/ Finish(l)
      BY <2>3 DEF SelectNone, PutTaskBack, Enqueue, Fire, Finish
  <2>4. QED
      BY <1>4, <2>1, <2>2, <2>3 DEF LoopStep
<1>5. CASE UNCHANGED status
    BY <1>5
<1>6. CASE Worker \/ Stop \/ PassStep \/ Evict \/ FindOrphans \/ \E p \in Policies : SetPolicy(p)
    BY <1>6 DEF Worker, Stop, PassStep, Evict, FindOrphans, SetPolicy
<1>7. CASE UNCHANGED vars
    BY <1>7 DEF vars
<1>8. QED
    BY <1>1, <1>2, <1>3, <1>4, <1>6, <1>7 DEF Next, Monitor, HeldBy

\* Once nothing has a finished task in hand, its status is final.
THEOREM SettledForGood == Spec => SettledStaysSettled
<1>1. ASSUME IInv, [Next]_vars, NEW t \in Tasks,
             status[t] \in {"completed", "failed", "cancelled"}, HeldBy(t) = {}, t \notin orphans
      PROVE  status'[t] = status[t]
    BY <1>1, StatusWriters
<1>2. IInv /\ [Next]_vars =>
         [\A t \in Tasks :
             /\ status[t] \in {"completed", "failed", "cancelled"}
             /\ HeldBy(t) = {} /\ t \notin orphans
             => status'[t] = status[t]]_vars
    BY <1>1
<1>3. QED
    BY <1>2, ClusterInvariance, PTL DEF Spec, SettledStaysSettled

---------------------------------------------------------------------------
(* The cluster implements TaskExecution. *)

\* A loop about to call execute_fn finds a place inside free.
LEMMA PlaceFree ==
    ASSUME IInv, NEW l \in Loops, pc[l] # "execute"
    PROVE  Cardinality(Executing) < Cardinality(Loops)
<1> DEFINE S == {m \in Loops : pc[m] = "execute"}
           f == [m \in S |-> held[m]]
<1>1. /\ IsFiniteSet(Loops \ {l}) /\ Cardinality(Loops \ {l}) = Cardinality(Loops) - 1
      /\ Cardinality(Loops) \in Nat
    BY ClusterAssumption, FS_RemoveElement, FS_CardinalityType
<1>2. IsFiniteSet(S) /\ Cardinality(S) <= Cardinality(Loops) - 1
  <2>1. S \in SUBSET (Loops \ {l})
      OBVIOUS
  <2>2. QED
      BY <2>1, <1>1, FS_Subset
<1>3. f \in Surjection(S, Executing)
    BY DEF Surjection, Executing
<1>4. Cardinality(Executing) <= Cardinality(S) /\ IsFiniteSet(Executing)
    BY <1>2, <1>3, FS_Surjection
<1>5. Cardinality(Executing) \in Nat /\ Cardinality(S) \in Nat
    BY <1>2, <1>4, FS_CardinalityType
<1>6. QED
    BY <1>1, <1>2, <1>4, <1>5

\* Only Own puts a task into execute_fn, and only Finish takes it out.
LEMMA OwnEnters ==
    ASSUME IInv, NEW l \in Loops, Own(l) PROVE Execution!Enter(held[l])
<1> USE DEF IInv, Own, Move, Executing
<1>1. /\ held[l] \in Tasks /\ runs[held[l]] = 0 /\ pc[l] = "own"
      /\ \A m \in Loops : pc[m] = "execute" => held[m] # held[l] /\ held[m] \in Tasks
    BY ClusterAssumption DEF TypeOK, LoopInv, HeldByOneLoop, Holding
<1>2. Executing' = Executing \cup {held[l]}
    BY <1>1 DEF TypeOK
<1>3. {t \in Tasks : runs[t] > 0}' = {t \in Tasks : runs[t] > 0} \cup {held[l]}
    BY <1>1 DEF TypeOK
<1>4. held[l] \notin Executing
    BY <1>1
<1> HIDE DEF Executing
<1>5. ({t \in Tasks : runs[t] > 0} \ Executing)' = {t \in Tasks : runs[t] > 0} \ Executing
    BY <1>1, <1>2, <1>3
<1>6. Cardinality(Executing) < Cardinality(Loops)
    BY <1>1, PlaceFree
<1>7. held[l] \in Tasks \ (Executing \cup ({t \in Tasks : runs[t] > 0} \ Executing))
    BY <1>1, <1>4
<1> HIDE DEF IInv, Own, Move
<1>8. Execution!Cardinality(Executing) = Cardinality(Executing)
    BY DEF Execution!Cardinality, Cardinality
<1>9. QED
    BY <1>2, <1>5, <1>6, <1>7, <1>8 DEF Execution!Enter

\* Finish takes the held task out of execute_fn for good.
LEMMA FinishLeaves ==
    ASSUME IInv, NEW l \in Loops, Finish(l) PROVE Execution!Leave(held[l])
<1> USE DEF IInv, Finish, Move, Executing
<1>1. /\ held[l] \in Tasks /\ runs[held[l]] = 1 /\ pc[l] = "execute"
      /\ \A m \in Loops : pc[m] = "execute" /\ m # l => held[m] # held[l]
    BY ClusterAssumption DEF TypeOK, LoopInv, HeldByOneLoop, Holding
<1>2. Executing' = Executing \ {held[l]} /\ held[l] \in Executing
    BY <1>1 DEF TypeOK
<1>3. {t \in Tasks : runs[t] > 0}' = {t \in Tasks : runs[t] > 0} /\ runs[held[l]] > 0
    BY <1>1
<1> HIDE DEF Executing
<1>4. QED
    BY <1>1, <1>2, <1>3 DEF Execution!Leave

\* No other step touches the set or a count.
LEMMA OthersStutter ==
    ASSUME IInv, [Next]_vars,
           \A l \in Loops : ~Own(l) /\ ~Finish(l)
    PROVE  Executing' = Executing /\ runs' = runs
<1> USE DEF IInv, Executing, queueVars, memberVars, monitorVars, loopVars, dispatchVars
<1>1. ASSUME NEW l \in Loops, Start(l) PROVE Executing' = Executing /\ runs' = runs
    BY <1>1 DEF Start, Move, TypeOK
<1>2. ASSUME NEW l \in Loops, LoopStep(l) PROVE Executing' = Executing /\ runs' = runs
  <2>1. CASE LoopTop(l) \/ TakeNone(l) \/ Snapshot(l) \/ SelectNode(l) \/ SelectNone(l) \/ Fire(l)
      BY <2>1 DEF LoopTop, TakeNone, Snapshot, SelectNode, SelectNone, Fire, Move, TypeOK
  <2>2. CASE TakeTask(l) \/ PutTaskBack(l) \/ Release(l)
      BY <2>2 DEF TakeTask, PutTaskBack, Release, Move, TypeOK
  <2>3. QED
      BY <1>2, <2>1, <2>2 DEF LoopStep
<1>3. ASSUME NEW t \in Tasks, SubmitTask(t) \/ CancelTask(t) \/ MoveOrphan(t)
      PROVE Executing' = Executing /\ runs' = runs
    BY <1>3 DEF SubmitTask, CancelTask, MoveOrphan
<1>4. CASE Worker \/ Stop \/ PassStep \/ Evict \/ FindOrphans \/ \E p \in Policies : SetPolicy(p)
    BY <1>4 DEF Worker, Stop, PassStep, Evict, FindOrphans, SetPolicy
<1>5. CASE UNCHANGED vars
    BY <1>5 DEF vars
<1>6. QED
    BY <1>1, <1>2, <1>3, <1>4, <1>5 DEF Next, Monitor

\* The dispatch loops together implement the at-most-once execution of
\* TaskExecution.
THEOREM ClusterImplementsExecution == Spec => Execution!Spec
<1>1. Init => Execution!Init
    BY DEF Init, FifoInit, Execution!Init, Executing
<1>2. IInv /\ [Next]_vars => [Execution!Next]_(Execution!executionVars)
  <2> SUFFICES ASSUME IInv, [Next]_vars PROVE [Execution!Next]_(Execution!executionVars)
      OBVIOUS
  <2>1. ASSUME NEW l \in Loops, Own(l) \/ Finish(l) PROVE Execution!Next
    <3>1. held[l] \in Tasks
        BY <2>1, ClusterAssumption DEF IInv, TypeOK, LoopInv, Own, Finish, Move, Holding
    <3>2. CASE Own(l)
        BY <3>1, <3>2, OwnEnters DEF Execution!Next
    <3>3. CASE Finish(l)
      <4>1. Execution!Leave(held[l])
          BY <3>3, FinishLeaves
      <4>2. QED
          BY <3>1, <4>1 DEF Execution!Next, Execution!Leave
    <3>4. QED
        BY <2>1, <3>2, <3>3, <3>3 DEF Execution!Next
  <2>2. CASE \A l \in Loops : ~Own(l) /\ ~Finish(l)
    <3>1. Executing' = Executing /\ runs' = runs
        BY <2>2, OthersStutter
    <3>2. QED
        BY <3>1 DEF Execution!executionVars
  <2>3. QED
      BY <2>1, <2>2
<1>3. QED
    BY <1>1, <1>2, ClusterInvariance, PTL DEF Spec, Execution!Spec

---------------------------------------------------------------------------
(* The cluster's use of the queue keeps to PriorityFifo, and of the        *)
(* registry and the monitor to Membership.                                 *)

\* Failover has only tasks in hand that were taken up: nobody cancels them and
\* no loop puts them back meanwhile.
OrphansTakenUp == \A t \in orphans : status[t] \in TakenUp

LEMMA OrphansStayTakenUp ==
    ASSUME IInv, OrphansTakenUp, [Next]_vars
    PROVE  OrphansTakenUp'
<1> SUFFICES ASSUME NEW t \in orphans' PROVE status'[t] \in TakenUp
    BY DEF OrphansTakenUp
<1> USE DEF IInv, TypeOK, FifoTypeOK, queueVars, memberVars, monitorVars, loopVars, dispatchVars
<1>1. ASSUME FindOrphans PROVE status'[t] \in TakenUp
    BY <1>1 DEF FindOrphans, TakenUp
<1>2. ASSUME t \in orphans, orphans' \subseteq orphans, status'[t] = status[t]
      PROVE  status'[t] \in TakenUp
    BY <1>2 DEF OrphansTakenUp
<1>t. t \in orphans => t \in Tasks /\ status[t] \in TakenUp /\ status[t] \notin {"new", "queued"}
    BY DEF OrphansTakenUp, TakenUp
<1>3. ASSUME NEW u \in Tasks, SubmitTask(u) \/ CancelTask(u) PROVE status'[t] \in TakenUp
    BY <1>3, <1>t DEF SubmitTask, Submit, Enqueue, CancelTask, Cancel
<1>4. ASSUME NEW u \in Tasks, MoveOrphan(u) PROVE status'[t] \in TakenUp
    BY <1>4, <1>t DEF MoveOrphan, Requeued, PermanentlyFailed, Requeue
<1>5. ASSUME NEW l \in Loops, Start(l) PROVE status'[t] \in TakenUp
    BY <1>5, <1>t DEF Start
<1>6. ASSUME NEW l \in Loops, LoopStep(l) PROVE status'[t] \in TakenUp
  <2>0. /\ t \in orphans
        /\ pc[l] \in {"select", "putBack"} => held[l] # t
      BY <1>6 DEF LoopStep, LoopTop, TakeTask, TakeNone, Snapshot, SelectNode, SelectNone, PutTaskBack,
             Fire, Own, Finish, Release, LoopInv, Untouched
  <2>1. CASE TakeTask(l)
      BY <2>0, <2>1, <1>t DEF TakeTask, Dequeue
  <2>2. CASE LoopTop(l) \/ TakeNone(l) \/ Snapshot(l) \/ SelectNode(l) \/ Own(l) \/ Release(l)
      BY <2>0, <2>2, <1>t DEF LoopTop, TakeNone, DequeueNone, Snapshot, SelectNode, Own, Release
  <2>3. CASE SelectNone(l) \/ PutTaskBack(l)
      BY <2>0, <2>3, <1>t DEF SelectNone, PutTaskBack, Enqueue, Move
  <2>4. CASE Fire(l) \/ Finish(l)
      BY <2>0, <2>4, <1>t DEF Fire, Finish, TakenUp
  <2>5. QED
      BY <1>6, <2>1, <2>2, <2>3, <2>4 DEF LoopStep
<1>7. CASE Worker \/ Stop \/ PassStep \/ Evict \/ \E p \in Policies : SetPolicy(p)
    BY <1>7, <1>t DEF Worker, Stop, PassStep, Evict, SetPolicy
<1>8. CASE UNCHANGED vars
    BY <1>8, <1>t DEF vars
<1>9. QED
    BY <1>1, <1>3, <1>4, <1>5, <1>6, <1>7, <1>8 DEF Next, Monitor

\* The definitions of the line are about nothing that the mapping hides.
LEMMA SameLine ==
    ASSUME NEW t
    PROVE  /\ Queue!Push(t) <=> Push(t)
           /\ Queue!Occurs(line, t) <=> Occurs(line, t)
           /\ Queue!TakenUp = TakenUp
  BY DEF Queue!Push, Push, Queue!IsPlaceOf, IsPlaceOf, Queue!InsertAfter, InsertAfter,
         Queue!Occurs, Occurs, Queue!TakenUp, TakenUp

LEMMA HiddenNodes == ASSUME NEW t \in Tasks
                     PROVE  [[u \in Tasks |-> NoNode] EXCEPT ![t] = NoNode] = [u \in Tasks |-> NoNode]
  OBVIOUS

\* A step of the cluster is one the queue's callers may take, or none of theirs.
LEMMA QueueSteps ==
    ASSUME IInv, OrphansTakenUp, [Next]_vars
    PROVE  [Queue!FifoNext]_(Queue!queueVars)
<1> USE DEF IInv, TypeOK, FifoTypeOK, queueVars, memberVars, monitorVars, loopVars, dispatchVars
<1>1. ASSUME NEW t \in Tasks, SubmitTask(t) PROVE Queue!FifoNext
  <2>1. Queue!Submit(t)
      BY <1>1, SameLine DEF SubmitTask, Submit, Enqueue, Queue!Submit, Queue!Enqueue
  <2> QED
      BY <2>1 DEF Queue!FifoNext
<1>2. ASSUME NEW t \in Tasks, CancelTask(t) PROVE Queue!FifoNext
  <2>1. Queue!Cancel(t)
      BY <1>2 DEF CancelTask, Cancel, Queue!Cancel
  <2> QED
      BY <2>1 DEF Queue!FifoNext
<1>3. ASSUME NEW t \in Tasks, MoveOrphan(t) PROVE Queue!FifoNext
  <2>1. status[t] \in TakenUp
      BY <1>3 DEF MoveOrphan, OrphansTakenUp
  <2>2. CASE Requeued(t)
    <3>1. Queue!FailOver(t)
        BY <2>1, <2>2, SameLine, HiddenNodes DEF Requeued, Requeue, Queue!FailOver, Queue!Requeue
    <3> QED
        BY <3>1 DEF Queue!FifoNext
  <2>3. CASE PermanentlyFailed(t)
    <3>1. Queue!Execute(t)
        BY <2>1, <2>3, SameLine DEF PermanentlyFailed, Queue!Execute, Queue!Writes
    <3> QED
        BY <3>1 DEF Queue!FifoNext
  <2> QED
      BY <1>3, <2>2, <2>3 DEF MoveOrphan
<1>4. ASSUME NEW l \in Loops, LoopStep(l) PROVE [Queue!FifoNext]_(Queue!queueVars)
  <2>1. CASE TakeTask(l)
    <3>1. PICK t \in Tasks : Dequeue(t)
        BY <2>1 DEF TakeTask
    <3>2. Queue!Dequeue(t)
        BY <3>1 DEF Dequeue, Queue!Dequeue
    <3> QED
        BY <3>2 DEF Queue!FifoNext
  <2>2. CASE TakeNone(l)
    <3>1. Queue!DequeueNone
        BY <2>2 DEF TakeNone, DequeueNone, Queue!DequeueNone
    <3> QED
        BY <3>1 DEF Queue!FifoNext
  <2>3. CASE LoopTop(l) \/ Snapshot(l) \/ SelectNode(l) \/ Own(l) \/ Release(l)
      BY <2>3 DEF LoopTop, Snapshot, SelectNode, Own, Release, Queue!queueVars
  <2>4. CASE SelectNone(l)
    <3>1. held[l] \in Tasks /\ status[held[l]] = "dispatched"
        BY <2>4, ClusterAssumption DEF SelectNone, Move, LoopInv, Holding
    <3>2. Queue!NoNodeFound(held[l])
        BY <2>4, <3>1 DEF SelectNone, Queue!NoNodeFound, Queue!Writes
    <3> QED
        BY <3>1, <3>2 DEF Queue!FifoNext
  <2>5. CASE PutTaskBack(l)
    <3>1. held[l] \in Tasks /\ status[held[l]] \in {"queued", "cancelled"} /\ ~Occurs(line, held[l])
        BY <2>5, ClusterAssumption DEF PutTaskBack, Move, LoopInv, Holding, InLine
    <3>2. Queue!PutBack(held[l])
        BY <2>5, <3>1, SameLine DEF PutTaskBack, Enqueue, Queue!PutBack, Queue!Enqueue
    <3> QED
        BY <3>1, <3>2 DEF Queue!FifoNext
  <2>6. CASE Fire(l) \/ Finish(l)
    <3>1. held[l] \in Tasks /\ status[held[l]] \in TakenUp
        BY <2>6, ClusterAssumption DEF Fire, Finish, Move, LoopInv, Holding, TakenUp
    <3>2. Queue!Execute(held[l])
        BY <2>6, <3>1, SameLine DEF Fire, Finish, Queue!Execute, Queue!Writes
    <3> QED
        BY <3>1, <3>2 DEF Queue!FifoNext
  <2> QED
      BY <1>4, <2>1, <2>2, <2>3, <2>4, <2>5, <2>6 DEF LoopStep
<1>5. ASSUME NEW l \in Loops, Start(l) PROVE UNCHANGED Queue!queueVars
    BY <1>5 DEF Start, Queue!queueVars
<1>6. CASE Worker \/ Stop \/ PassStep \/ Evict \/ FindOrphans \/ \E p \in Policies : SetPolicy(p)
    BY <1>6 DEF Worker, Stop, PassStep, Evict, FindOrphans, SetPolicy, Queue!queueVars
<1>7. CASE UNCHANGED vars
    BY <1>7 DEF vars, Queue!queueVars
<1> QED
    BY <1>1, <1>2, <1>3, <1>4, <1>5, <1>6, <1>7 DEF Next, Monitor

\* So what DistributedQueue's heap and PriorityFifo are shown to be to their
\* callers, they are to the cluster's threads.
THEOREM ClusterKeepsToTheQueue == Spec => Queue!FifoSpec
<1>1. Init => Queue!FifoInit /\ OrphansTakenUp
    BY DEF Init, FifoInit, Queue!FifoInit, OrphansTakenUp
<1>2. IInv /\ OrphansTakenUp /\ [Next]_vars => OrphansTakenUp'
    BY OrphansStayTakenUp
<1>3. IInv /\ OrphansTakenUp /\ [Next]_vars => [Queue!FifoNext]_(Queue!queueVars)
    BY QueueSteps
<1> QED
    BY <1>1, <1>2, <1>3, ClusterInvariance, PTL DEF Spec, Queue!FifoSpec

\* The nodes see workers and a monitor that are at work by themselves: the
\* failover in the monitor's callback only delays its return.
THEOREM ClusterKeepsToMembership == Spec => MembershipSpec
<1> USE DEF queueVars, memberVars, monitorVars, loopVars, dispatchVars
<1>1. Init => MembershipInit
    BY DEF Init
<1>2. [Next]_vars => [WorkerCall \/ MonitorStep]_memberVars
  <2> SUFFICES ASSUME [Next]_vars PROVE [WorkerCall \/ MonitorStep]_memberVars
      OBVIOUS
  <2>1. ASSUME NEW t \in Tasks, SubmitTask(t) \/ CancelTask(t) \/ MoveOrphan(t)
        PROVE  [WorkerCall \/ MonitorStep]_memberVars
      BY <2>1 DEF SubmitTask, CancelTask, MoveOrphan, MonitorStep
  <2>2. ASSUME NEW l \in Loops, Start(l) \/ LoopStep(l) PROVE UNCHANGED memberVars
    <3>1. CASE Start(l) \/ LoopTop(l) \/ TakeTask(l) \/ TakeNone(l) \/ Snapshot(l) \/ SelectNode(l)
        BY <3>1 DEF Start, LoopTop, TakeTask, TakeNone, Snapshot, SelectNode
    <3>2. CASE SelectNone(l) \/ PutTaskBack(l) \/ Fire(l) \/ Own(l) \/ Finish(l) \/ Release(l)
        BY <3>2 DEF SelectNone, PutTaskBack, Fire, Own, Finish, Release
    <3> QED
        BY <2>2, <3>1, <3>2 DEF LoopStep
  <2>3. CASE Worker \/ PassStep \/ Evict \/ FindOrphans
      BY <2>3 DEF Worker, PassStep, Evict, FindOrphans, MonitorStep
  <2>4. CASE Stop \/ \E p \in Policies : SetPolicy(p)
      BY <2>4 DEF Stop, SetPolicy
  <2>5. CASE UNCHANGED vars
      BY <2>5 DEF vars
  <2> QED
      BY <2>1, <2>2, <2>3, <2>4, <2>5 DEF Next, Monitor
<1> QED
    BY <1>1, <1>2, PTL DEF Spec, MembershipSpec

\* Queue, membership and execution each keep to their specification.
THEOREM ClusterComposes == Spec => PartsKeepTheirSpecs
BY ClusterImplementsExecution, ClusterKeepsToTheQueue, ClusterKeepsToMembership, PTL
   DEF PartsKeepTheirSpecs
===========================================================================
