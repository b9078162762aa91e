-------------------------- MODULE DistributedProofs --------------------------
(***************************************************************************)
(* Three parts of the distributed runtime, each for any constants: the     *)
(* membership of the workers (WorkerSilence), the tracking of workflows    *)
(* (WorkflowTracking) and the heap of the queue (DistributedQueue).        *)
(***************************************************************************)
EXTENDS WorkerSilence, WorkflowTracking, DistributedQueue, FiniteSetTheorems, TLAPS

---------------------------------------------------------------------------
(* The monitor picks a node on evidence that still holds.                  *)
(*                                                                         *)
(* The invariant adds to PastIsLate that a node on the monitor's list whose*)
(* object is the registered one is in the registry: RegisterWorker would   *)
(* otherwise refresh the timer of a node whose old object is on the list.  *)

ListIsRegistered == \A n \in todo \ detached : Registered(n)

SilenceInv == MembershipTypeOK /\ PassOK /\ PastIsLate /\ ListIsRegistered

\* Calls of workers keep the monitor's list and its evidence together.
LEMMA WorkerCallEvidence ==
    ASSUME SilenceInv, WorkerCall PROVE SilenceInv'
<1>1. PICK n \in Nodes : \/ RegisterWorker(n) \/ Heartbeat(n) \/ DrainWorker(n)
                         \/ RemoveWorker(n) \/ Lapse(n)
    BY DEF WorkerCall
<1>2. MembershipTypeOK' /\ PassOK'
    BY WorkerCallTypes DEF SilenceInv, PassOK
<1> USE DEF SilenceInv, MembershipTypeOK, PastIsLate, ListIsRegistered, Registered, monitorVars
<1>3. CASE RegisterWorker(n)
    BY <1>2, <1>3 DEF RegisterWorker
<1>4. CASE Heartbeat(n)
    BY <1>2, <1>4 DEF Heartbeat
<1>5. CASE DrainWorker(n)
    BY <1>2, <1>5 DEF DrainWorker
<1>6. CASE RemoveWorker(n)
    BY <1>2, <1>6 DEF RemoveWorker
<1>7. CASE Lapse(n)
    BY <1>2, <1>7 DEF Lapse
<1>8. QED
    BY <1>1, <1>3, <1>4, <1>5, <1>6, <1>7

\* So does the monitor.
LEMMA MonitorEvidence ==
    ASSUME SilenceInv, MonitorStep PROVE SilenceInv'
<1>1. MembershipTypeOK' /\ PassOK'
    BY StartPassTypes, CheckNodeTypes, FinishPassTypes, MarkOfflineTypes, CallbackDoneTypes
       DEF SilenceInv, MonitorStep
<1> USE DEF SilenceInv, MembershipTypeOK, PastIsLate, ListIsRegistered, Registered
<1>2. CASE StartPass
    BY <1>1, <1>2 DEF StartPass, Online
<1>3. ASSUME NEW n \in Nodes, CheckNode(n) PROVE SilenceInv'
    BY <1>1, <1>3 DEF CheckNode
<1>4. CASE FinishPass \/ CallbackDone
    BY <1>1, <1>4 DEF FinishPass, CallbackDone
<1>5. CASE MarkOffline
    BY <1>1, <1>5 DEF MarkOffline
<1>6. QED
    BY <1>2, <1>3, <1>4, <1>5 DEF MonitorStep

\* No pass has begun.
LEMMA InitEvidence == SilenceInit => SilenceInv
BY DEF SilenceInit, MembershipInit, SilenceInv, MembershipTypeOK, NodeStatuses, PassOK, PastIsLate,
       ListIsRegistered

\* Every step preserves the evidence invariant.
LEMMA NextEvidence == SilenceInv /\ [SilenceNext]_silenceVars => SilenceInv'
<1> SUFFICES ASSUME SilenceInv, [SilenceNext]_silenceVars PROVE SilenceInv'
    OBVIOUS
<1>1. CASE UNCHANGED silenceVars
    BY <1>1 DEF silenceVars, memberVars, SilenceInv, MembershipTypeOK, PassOK, PastIsLate,
                ListIsRegistered, Registered
<1>2. CASE SilenceNext
  <2>1. WorkerCall \/ MonitorStep
      BY <1>2 DEF SilenceNext, WorkerCall, MonitorTurn
  <2>2. QED
      BY <2>1, WorkerCallEvidence, MonitorEvidence
<1>3. QED
    BY <1>1, <1>2

\* The monitor's list is backed by evidence in every reachable state.
THEOREM EvidenceInvariance == SilenceSpec => []SilenceInv
BY InitEvidence, NextEvidence, PTL DEF SilenceSpec

\* _check_nodes never picks a node that was heard from since the cutoff, unless
\* the object it looks at has left the registry.
THEOREM EvictionsHaveEvidence == SilenceSpec => EvictionHasEvidence
<1>1. ASSUME SilenceInv, SilenceNext, mpc = "check", mpc' = "evict"
      PROVE  suspect' \in late \cup detached
  <2>1. PICK n \in Nodes : CheckNode(n)
    <3>1. MonitorStep
        BY <1>1, WorkerCallTypes DEF SilenceInv, SilenceNext, WorkerCall, MonitorTurn
    <3>2. QED
        BY <1>1, <3>1 DEF MonitorStep, StartPass, FinishPass, MarkOffline, CallbackDone
  <2>2. QED
      BY <1>1, <2>1 DEF CheckNode, SilenceInv, PastIsLate
<1>2. SilenceInv /\ [SilenceNext]_silenceVars =>
         [mpc = "check" /\ mpc' = "evict" => suspect' \in late \cup detached]_silenceVars
    BY <1>1
<1>3. QED
    BY <1>2, EvidenceInvariance, PTL DEF SilenceSpec, EvictionHasEvidence

---------------------------------------------------------------------------
(* What the race between the check and the registration of a workflow can  *)
(* and cannot do.                                                          *)
(*                                                                         *)
(* The invariant follows the registrations of a workflow.  A call that     *)
(* found it tracked did so after some other call had registered it         *)
(* (Preceded), a state always belongs to a call that has just registered it*)
(* or that is in it (Owned), and a task that was wiped out was wiped out   *)
(* by a second registration.                                               *)

Missed(c, w) == c \in Calls /\ WorkflowOf[c] = w /\ found[c] = "missing"

PlaceInv(c) ==
    /\ at[c] = "check" <=> found[c] = "nothing yet"
    /\ at[c] = "register" => found[c] = "missing"
    /\ at[c] \in {"add", "enqueue", "returned"} => Tracked(WorkflowOf[c])

Preceded(c) ==
    found[c] = "tracked" =>
        \E d \in Calls : Missed(d, WorkflowOf[c]) /\ at[d] \in {"add", "enqueue", "returned"}

Owned(w) ==
    Tracked(w) => \E d \in Calls :
                      /\ Missed(d, w)
                      /\ \/ at[d] = "add"
                         \/ at[d] \in {"enqueue", "returned"} /\ d \in workflows[w].tasks

LostInARace(c) ==
    Lost(c) => \E d, e \in Calls : d # e /\ Missed(d, WorkflowOf[c]) /\ Missed(e, WorkflowOf[c])

TrackingInv ==
    /\ TrackingTypeOK
    /\ \A c \in Calls : PlaceInv(c) /\ Preceded(c) /\ LostInARace(c)
    /\ \A w \in Workflows : Owned(w)

---------------------------------------------------------------------------
\* No call has begun.
LEMMA TrackingStarts == TrackingInit => TrackingInv
BY TrackingAssumption
   DEF TrackingInit, TrackingInv, TrackingTypeOK, PlaceInv, Preceded, Owned, LostInARace, Tracked, Lost

\* NoState is not a state.
LEMMA StaysTracked ==
    ASSUME NEW s \in States PROVE s # NoState
<1>1. s.tasks \in SUBSET Calls /\ s.status \in {"pending", "running"}
      /\ s = [tasks |-> s.tasks, status |-> s.status]
    BY DEF States
<1>2. QED
    BY <1>1, TrackingAssumption

\* A step of one call: what it does to where the calls are.
LEMMA CallMoves ==
    ASSUME TrackingTypeOK, NEW e \in Calls, NEW from,
           NEW to \in {"register", "add", "enqueue", "returned"}, Step(e, from, to)
    PROVE  /\ at[e] = from /\ at'[e] = to
           /\ \A c \in Calls : c # e => at'[c] = at[c]
           /\ at' \in [Calls -> {"check", "register", "add", "enqueue", "returned"}]
BY DEF TrackingTypeOK, Step

\* The unlocked check: the call now believes the workflow missing or not.
LEMMA CheckKeeps == ASSUME TrackingInv, NEW e \in Calls, Check(e) PROVE TrackingInv'
<1> DEFINE w == WorkflowOf[e]
<1> USE DEF TrackingInv, Check
<1>1. /\ w \in Workflows /\ at[e] = "check" /\ found[e] = "nothing yet"
      /\ workflows' = workflows
      /\ \A v : Tracked(v)' <=> Tracked(v)
      /\ \A c \in Calls : c # e => at'[c] = at[c] /\ found'[c] = found[c]
      /\ \/ Tracked(w) /\ at'[e] = "add" /\ found'[e] = "tracked"
         \/ ~Tracked(w) /\ at'[e] = "register" /\ found'[e] = "missing"
    BY TrackingAssumption DEF TrackingTypeOK, Step, PlaceInv, Tracked
<1>2. TrackingTypeOK'
    BY DEF TrackingTypeOK, Step
<1>3. \A d, v : Missed(d, v) => Missed(d, v)' /\ d # e
    BY <1>1 DEF Missed
<1>4. ASSUME NEW c \in Calls PROVE PlaceInv(c)' /\ Preceded(c)' /\ LostInARace(c)'
  <2>1. PlaceInv(c)'
      BY <1>1 DEF PlaceInv
  <2>2. Preceded(c)'
    <3>1. CASE c = e
        BY <3>1, <1>1, <1>3 DEF Preceded, Owned
    <3>2. CASE c # e
        BY <3>2, <1>1, <1>3 DEF Preceded
    <3>3. QED
        BY <3>1, <3>2
  <2>3. LostInARace(c)'
      BY <1>1, <1>3 DEF LostInARace, Lost
  <2>4. QED
      BY <2>1, <2>2, <2>3
<1>5. ASSUME NEW v \in Workflows PROVE Owned(v)'
    BY <1>1, <1>3 DEF Owned
<1>6. QED
    BY <1>2, <1>4, <1>5

\* A registration replaces the state and remembers what it wiped out.
LEMMA RegisterKeeps == ASSUME TrackingInv, NEW e \in Calls, RegisterWorkflow(e) PROVE TrackingInv'
<1> DEFINE w == WorkflowOf[e]
           fresh == [tasks |-> {}, status |-> "pending"]
<1> USE DEF TrackingInv, RegisterWorkflow
<1>1. fresh \in States /\ fresh # NoState /\ w \in Workflows
    BY StaysTracked, TrackingAssumption DEF States
<1>2. /\ at[e] = "register" /\ at'[e] = "add" /\ found' = found /\ found[e] = "missing"
      /\ \A c \in Calls : c # e => at'[c] = at[c]
      /\ \A v \in Workflows : workflows'[v] = IF v = w THEN fresh ELSE workflows[v]
    BY <1>1 DEF TrackingTypeOK, Step, PlaceInv
<1>3. \A v \in Workflows : Tracked(v)' <=> (v = w \/ Tracked(v))
    BY <1>1, <1>2 DEF Tracked
<1>4. TrackingTypeOK'
    BY <1>1 DEF TrackingTypeOK, Step
<1>5. \A d, v : Missed(d, v)' <=> Missed(d, v)
    BY <1>2 DEF Missed
<1>6. ASSUME NEW c \in Calls PROVE PlaceInv(c)' /\ Preceded(c)' /\ LostInARace(c)'
  <2>1. WorkflowOf[c] \in Workflows
      BY TrackingAssumption
  <2>2. PlaceInv(c)'
      BY <2>1, <1>2, <1>3 DEF PlaceInv
  <2>3. Preceded(c)'
      BY <1>2, <1>5 DEF Preceded
  <2>4. LostInARace(c)'
    <3> SUFFICES ASSUME Lost(c)'
                 PROVE  \E d, f \in Calls : d # f /\ Missed(d, WorkflowOf[c]) /\ Missed(f, WorkflowOf[c])
        BY <1>5 DEF LostInARace
    <3>1. CASE WorkflowOf[c] # w
        BY <3>1, <2>1, <1>2 DEF Lost, LostInARace
    <3>2. CASE WorkflowOf[c] = w
      <4>1. c # e /\ at[c] \in {"enqueue", "returned"} /\ Missed(e, w)
          BY <3>2, <1>2 DEF Lost, Missed
      <4>2. CASE found[c] = "missing"
          BY <4>1, <4>2, <3>2 DEF Missed
      <4>3. CASE found[c] = "tracked"
          BY <4>1, <4>3, <3>2, <1>2 DEF Preceded
      <4>4. QED
          BY <4>1, <4>2, <4>3 DEF PlaceInv, TrackingTypeOK
    <3>3. QED
        BY <3>1, <3>2
  <2>5. QED
      BY <2>2, <2>3, <2>4
<1>7. ASSUME NEW v \in Workflows PROVE Owned(v)'
  <2>1. CASE v = w
      BY <2>1, <1>2, <1>5 DEF Owned, Missed
  <2>2. CASE v # w
    <3>1. \A d \in Calls : Missed(d, v) => d # e
        BY <2>2 DEF Missed
    <3>2. QED
        BY <2>2, <3>1, <1>2, <1>3, <1>5 DEF Owned
  <2>3. QED
      BY <2>1, <2>2
<1>8. QED
    BY <1>4, <1>6, <1>7

\* The task joins the state stored at that moment.
LEMMA AddKeeps == ASSUME TrackingInv, NEW e \in Calls, AddTask(e) PROVE TrackingInv'
<1> DEFINE w == WorkflowOf[e]
<1> USE DEF TrackingInv, AddTask
<1>1. /\ w \in Workflows /\ Tracked(w) /\ workflows[w] \in States
      /\ at[e] = "add" /\ at'[e] = "enqueue" /\ found' = found
      /\ \A c \in Calls : c # e => at'[c] = at[c]
    BY TrackingAssumption DEF TrackingTypeOK, Step, PlaceInv, Tracked
<1> DEFINE grown == [workflows[w] EXCEPT !.tasks = @ \cup {e}]
<1>2. grown \in States /\ grown.tasks = workflows[w].tasks \cup {e} /\ grown # NoState
    BY <1>1, StaysTracked DEF States
<1>3. workflows' = [workflows EXCEPT ![w] = grown]
    BY <1>1
<1>4. \A v \in Workflows : workflows'[v] = IF v = w THEN grown ELSE workflows[v]
    BY <1>1, <1>3 DEF TrackingTypeOK
<1>5. \A v \in Workflows : Tracked(v)' <=> Tracked(v)
    BY <1>1, <1>2, <1>4 DEF Tracked
<1>6. TrackingTypeOK'
    BY <1>2, <1>3 DEF TrackingTypeOK, Step
<1>7. \A d, v : Missed(d, v)' <=> Missed(d, v)
    BY <1>1 DEF Missed
<1> HIDE DEF grown
<1>8. ASSUME NEW c \in Calls PROVE PlaceInv(c)' /\ Preceded(c)' /\ LostInARace(c)'
  <2>1. WorkflowOf[c] \in Workflows
      BY TrackingAssumption
  <2>2. PlaceInv(c)'
      BY <2>1, <1>1, <1>5 DEF PlaceInv
  <2>3. Preceded(c)'
      BY <1>1, <1>7 DEF Preceded
  <2>4. Lost(c)' => Lost(c)
      BY <2>1, <1>1, <1>2, <1>4 DEF Lost
  <2>5. QED
      BY <2>2, <2>3, <2>4, <1>7 DEF LostInARace
<1>9. ASSUME NEW v \in Workflows PROVE Owned(v)'
    BY <1>1, <1>2, <1>4, <1>5, <1>7 DEF Owned, Missed
<1>10. QED
    BY <1>6, <1>8, <1>9

\* The call ends with its task in the queue.
LEMMA EnqueueKeeps == ASSUME TrackingInv, NEW e \in Calls, EnqueueTask(e) PROVE TrackingInv'
<1> USE DEF TrackingInv, EnqueueTask
<1>1. /\ at[e] = "enqueue" /\ at'[e] = "returned" /\ found' = found /\ workflows' = workflows
      /\ \A c \in Calls : c # e => at'[c] = at[c]
    BY DEF TrackingTypeOK, Step
<1>2. TrackingTypeOK'
    BY DEF TrackingTypeOK, Step
<1>3. \A d, v : (Missed(d, v)' <=> Missed(d, v)) /\ (Tracked(v)' <=> Tracked(v))
    BY <1>1 DEF Missed, Tracked
<1>4. ASSUME NEW c \in Calls PROVE PlaceInv(c)' /\ Preceded(c)' /\ LostInARace(c)'
  <2>1. PlaceInv(c)'
      BY <1>1, <1>3 DEF PlaceInv
  <2>2. Preceded(c)'
      BY <1>1, <1>3 DEF Preceded
  <2>3. Lost(c)' => Lost(c)
      BY <1>1 DEF Lost
  <2>4. QED
      BY <2>1, <2>2, <2>3, <1>3 DEF LostInARace
<1>5. ASSUME NEW v \in Workflows PROVE Owned(v)'
    BY <1>1, <1>3 DEF Owned
<1>6. QED
    BY <1>2, <1>4, <1>5

\* A status update touches no membership of tasks.
LEMMA UpdateKeeps ==
    ASSUME TrackingInv, NEW w \in Workflows, NEW s \in {"pending", "running"}, UpdateStatus(w, s)
    PROVE  TrackingInv'
<1> USE DEF TrackingInv, UpdateStatus
<1> DEFINE updated == [workflows[w] EXCEPT !.status = s]
<1>1. workflows[w] \in States /\ at' = at /\ found' = found /\ Tracked(w)
    BY DEF TrackingTypeOK, Tracked
<1>2. updated \in States /\ updated.tasks = workflows[w].tasks /\ updated # NoState
    BY <1>1, StaysTracked DEF States
<1>3. workflows' = [workflows EXCEPT ![w] = updated]
    OBVIOUS
<1>4. \A v \in Workflows : workflows'[v] = IF v = w THEN updated ELSE workflows[v]
    BY <1>3 DEF TrackingTypeOK
<1>5. TrackingTypeOK'
    BY <1>2, <1>3 DEF TrackingTypeOK
<1> HIDE DEF updated
<1>6. \A v \in Workflows : /\ Tracked(v)' <=> Tracked(v)
                           /\ workflows'[v].tasks = workflows[v].tasks
    BY <1>1, <1>2, <1>4 DEF Tracked
<1>7. \A d, v : Missed(d, v)' <=> Missed(d, v)
    BY <1>1 DEF Missed
<1>8. ASSUME NEW c \in Calls PROVE PlaceInv(c)' /\ Preceded(c)' /\ LostInARace(c)'
  <2>1. WorkflowOf[c] \in Workflows
      BY TrackingAssumption
  <2>2. PlaceInv(c)'
      BY <2>1, <1>1, <1>6 DEF PlaceInv
  <2>3. Preceded(c)'
      BY <1>1, <1>7 DEF Preceded
  <2>4. Lost(c)' => Lost(c)
      BY <2>1, <1>1, <1>6 DEF Lost
  <2>5. QED
      BY <2>2, <2>3, <2>4, <1>7 DEF LostInARace
<1>9. ASSUME NEW v \in Workflows PROVE Owned(v)'
    BY <1>1, <1>6, <1>7 DEF Owned
<1>10. QED
    BY <1>5, <1>8, <1>9

\* Every step of a call preserves the invariant.
LEMMA TrackingSteps == TrackingInv /\ [TrackingNext]_trackingVars => TrackingInv'
<1> SUFFICES ASSUME TrackingInv, [TrackingNext]_trackingVars PROVE TrackingInv'
    OBVIOUS
<1>1. CASE UNCHANGED trackingVars
  <2>1. /\ TrackingTypeOK'
        /\ \A c \in Calls : PlaceInv(c)' /\ Preceded(c)'
      BY <1>1 DEF trackingVars, TrackingInv, TrackingTypeOK, PlaceInv, Preceded, Tracked, Missed
  <2>2. /\ \A c \in Calls : LostInARace(c)'
        /\ \A w \in Workflows : Owned(w)'
      BY <1>1 DEF trackingVars, TrackingInv, LostInARace, Lost, Owned, Tracked, Missed
  <2>3. QED
      BY <2>1, <2>2 DEF TrackingInv
<1>2. CASE TrackingNext
    BY <1>2, CheckKeeps, RegisterKeeps, AddKeeps, EnqueueKeeps, UpdateKeeps DEF TrackingNext
<1>3. QED
    BY <1>1, <1>2

\* The strengthened invariant holds in every reachable state.
THEOREM TrackingInvariance == TrackingSpec => []TrackingInv
BY TrackingStarts, TrackingSteps, PTL DEF TrackingSpec

\* The coordinator's state keeps its type.
THEOREM TrackingTypeCorrect == TrackingSpec => []TrackingTypeOK
<1>1. TrackingInv => TrackingTypeOK
    BY DEF TrackingInv
<1>2. QED
    BY <1>1, TrackingInvariance, PTL

\* submit_task loses a task from its workflow only when two calls race to
\* register it; and when all calls for a workflow have returned, a call that
\* registered it is tracked in it.
THEOREM LossNeedsARace == TrackingSpec => []TrackingKeepsTasks
<1>1. TrackingInv => OnlyARaceLosesTasks
    BY DEF TrackingInv, LostInARace, OnlyARaceLosesTasks, FoundMissing, CallsFor, Missed
<1>2. TrackingInv => LastRegistrationIsTracked
  <2> SUFFICES ASSUME TrackingInv, NEW w \in Workflows, NEW c \in CallsFor(w),
                      \A d \in CallsFor(w) : at[d] = "returned"
               PROVE  Tracked(w) /\ workflows[w].tasks \cap FoundMissing(w) # {}
      BY DEF LastRegistrationIsTracked
  <2>1. Tracked(w)
      BY DEF TrackingInv, PlaceInv, CallsFor
  <2>2. PICK d \in Calls : Missed(d, w) /\ (at[d] = "returned" => d \in workflows[w].tasks)
      BY <2>1 DEF TrackingInv, Owned
  <2>3. d \in CallsFor(w) /\ d \in FoundMissing(w)
      BY <2>2 DEF Missed, CallsFor, FoundMissing
  <2>4. QED
      BY <2>1, <2>2, <2>3
<1>3. TrackingInv => TrackingKeepsTasks
    BY <1>1, <1>2 DEF TrackingKeepsTasks
<1>4. QED
    BY <1>3, TrackingInvariance, PTL

---------------------------------------------------------------------------
(* The heap gives no number out twice. *)

LEMMA HeapTypesKept == HeapTypeOK /\ [HeapNext]_heapVars => HeapTypeOK'
<1> SUFFICES ASSUME HeapTypeOK, [HeapNext]_heapVars PROVE HeapTypeOK'
  OBVIOUS
<1> USE SequenceAssumption, ModelsAssumption DEF HeapTypeOK, Entry, Statuses
<1>1. ASSUME NEW t \in Tasks, HeapEnqueue(t) PROVE HeapTypeOK'
  <2>1. IsFiniteSet(heap')
    BY <1>1, FS_AddElement DEF HeapEnqueue, HeapPush
  <2> QED BY <1>1, <2>1 DEF HeapEnqueue, HeapPush
<1>2. ASSUME NEW t \in Tasks, HeapDequeue(t) PROVE HeapTypeOK'
  <2>1. heap' \subseteq heap
    BY <1>2 DEF HeapDequeue
  <2>2. IsFiniteSet(heap')
    BY <2>1, FS_Subset
  <2> QED BY <1>2, <2>1, <2>2 DEF HeapDequeue
<1>3. ASSUME NEW t \in Tasks, HeapCancel(t) PROVE HeapTypeOK'
  BY <1>3 DEF HeapCancel
<1>4. ASSUME NEW t \in Tasks, HeapFailOver(t) PROVE HeapTypeOK'
  <2>1. IsFiniteSet(heap')
    BY <1>4, FS_AddElement DEF HeapFailOver, HeapRequeue, HeapPush
  <2> QED BY <1>4, <2>1 DEF HeapFailOver, HeapRequeue, HeapPush
<1>5. ASSUME NEW t \in Tasks, HeapExecute(t) PROVE HeapTypeOK'
  BY <1>5 DEF HeapExecute, HeapWrites
<1>6. ASSUME NEW t \in Tasks, HeapNoNodeFound(t) PROVE HeapTypeOK'
  BY <1>6 DEF HeapNoNodeFound, HeapWrites
<1>7. CASE HeapDequeueNone
  BY <1>7, FS_EmptySet DEF HeapDequeueNone, taskVars
<1>8. CASE UNCHANGED heapVars
  BY <1>8 DEF heapVars
<1> QED BY <1>1, <1>2, <1>3, <1>4, <1>5, <1>6, <1>7, <1>8 DEF HeapNext, HeapPutBack

\* The counter numbers the insertions without repetition, so that heappop never
\* has to compare two entries by their task.
THEOREM HeapNumbersUnique == HeapSpec => []HeapTypeOK
<1>1. HeapInit => HeapTypeOK
  BY SequenceAssumption, ModelsAssumption, FS_EmptySet DEF HeapInit, HeapTypeOK, Entry, Statuses
<1> QED BY <1>1, HeapTypesKept, PTL DEF HeapSpec

---------------------------------------------------------------------------
(* The heap implements the waiting line.                                   *)
(*                                                                         *)
(* LineOf lists the entries by how many are ahead of each.  The lemmas say *)
(* that this numbers them without gaps, and what an insertion and a        *)
(* dequeue do to the numbers; the rest is that every action of the heap is *)
(* the action of the line of the same name.                                *)

Numbered(S) ==
    /\ S \subseteq Entry /\ IsFiniteSet(S)
    /\ \A d, e \in S : d.seq = e.seq => d = e

Position(S, e) == Cardinality(Ahead(S, e)) + 1

\* The order of the heap is total on entries with different numbers.
LEMMA BeforeOrders ==
    ASSUME NEW S, Numbered(S)
    PROVE  /\ \A d \in S : ~Before(d, d)
           /\ \A d, e \in S : d = e \/ Before(d, e) \/ Before(e, d)
           /\ \A d, e \in S : ~(Before(d, e) /\ Before(e, d))
           /\ \A d, e, f \in S : Before(d, e) /\ Before(e, f) => Before(d, f)
<1>1. \A d \in S : d \in S /\ d.seq \in Nat /\ Priority[d.task] \in Int
    BY ModelsAssumption DEF Numbered, Entry
<1>2. \A d, e \in S : d.seq = e.seq => d = e
    BY DEF Numbered
<1> QED
    BY <1>1, <1>2 DEF Before

LEMMA AheadIsFinite ==
    ASSUME NEW S, Numbered(S), NEW e \in S
    PROVE  /\ IsFiniteSet(Ahead(S, e)) /\ Ahead(S, e) \subseteq S
           /\ Position(S, e) \in 1..Cardinality(S)
           /\ Cardinality(Ahead(S, e)) = Position(S, e) - 1
<1>1. IsFiniteSet(S) /\ Cardinality(S) \in Nat
    BY FS_CardinalityType DEF Numbered
<1>2. Ahead(S, e) \subseteq S \ {e}
    BY BeforeOrders DEF Ahead
<1>3. IsFiniteSet(S \ {e}) /\ Cardinality(S \ {e}) = Cardinality(S) - 1
    BY <1>1, FS_RemoveElement
<1>4. IsFiniteSet(Ahead(S, e)) /\ Cardinality(Ahead(S, e)) <= Cardinality(S) - 1
    BY <1>2, <1>3, FS_Subset
<1>5. Cardinality(Ahead(S, e)) \in Nat
    BY <1>4, FS_CardinalityType
<1> QED
    BY <1>1, <1>2, <1>4, <1>5 DEF Position

\* Who is before another has the smaller position.
LEMMA PositionsFollowOrder ==
    ASSUME NEW S, Numbered(S), NEW d \in S, NEW e \in S
    PROVE  Before(d, e) <=> Position(S, d) < Position(S, e)
<1>1. ASSUME NEW a \in S, NEW b \in S, Before(a, b) PROVE Position(S, a) < Position(S, b)
    <2>1. Ahead(S, a) \subseteq Ahead(S, b) /\ a \in Ahead(S, b) /\ a \notin Ahead(S, a)
        BY <1>1, BeforeOrders DEF Ahead
    <2>2. /\ IsFiniteSet(Ahead(S, a)) /\ IsFiniteSet(Ahead(S, b))
          /\ Position(S, a) \in Nat /\ Position(S, b) \in Nat
          /\ Cardinality(Ahead(S, a)) = Position(S, a) - 1
          /\ Cardinality(Ahead(S, b)) = Position(S, b) - 1
        BY AheadIsFinite
    <2>3. /\ Cardinality(Ahead(S, a)) <= Cardinality(Ahead(S, b))
          /\ Cardinality(Ahead(S, b)) = Cardinality(Ahead(S, a)) => Ahead(S, b) = Ahead(S, a)
        BY <2>1, <2>2, FS_Subset
    <2> QED
        BY <2>1, <2>2, <2>3
<1>2. Position(S, d) \in Nat /\ Position(S, e) \in Nat
    BY AheadIsFinite
<1> QED
    BY <1>1, <1>2, BeforeOrders

\* The positions are taken once each, from 1 to the number of entries.
LEMMA EntriesAreInPlace ==
    ASSUME NEW S, Numbered(S)
    PROVE  /\ \A e \in S : EntryAt(S, Position(S, e)) = e
           /\ \A i \in 1..Cardinality(S) : EntryAt(S, i) \in S /\ Position(S, EntryAt(S, i)) = i
<1> DEFINE N == Cardinality(S)
           place == [e \in S |-> Position(S, e)]
<1>1. IsFiniteSet(S) /\ N \in Nat
    BY FS_CardinalityType DEF Numbered
<1>2. \A e \in S : /\ Position(S, e) \in 1..N
                   /\ \A i \in Int : Cardinality(Ahead(S, e)) = i - 1 <=> Position(S, e) = i
    BY AheadIsFinite
<1>3. \A d, e \in S : Position(S, d) = Position(S, e) => d = e
    <2> SUFFICES ASSUME NEW d \in S, NEW e \in S, Position(S, d) = Position(S, e), d # e
                 PROVE  FALSE
        OBVIOUS
    <2>1. Before(d, e) \/ Before(e, d)
        BY BeforeOrders
    <2> QED
        BY <2>1, <1>2, PositionsFollowOrder
<1>4. place \in Injection(S, 1..N)
    BY <1>2, <1>3 DEF Injection, IsInjective
<1>5. IsFiniteSet(1..N) /\ Cardinality(1..N) = N
    BY <1>1, FS_Interval
<1>6. place \in Surjection(S, 1..N)
    BY <1>4, <1>5, FS_Injection
<1>7. \A i \in 1..N : \E e \in S : Position(S, e) = i
    BY <1>6 DEF Surjection
<1>8. ASSUME NEW i \in 1..N PROVE EntryAt(S, i) \in S /\ Position(S, EntryAt(S, i)) = i
    <2>1. PICK e \in S : Cardinality(Ahead(S, e)) = i - 1
        BY <1>2, <1>7
    <2>2. EntryAt(S, i) \in S /\ Cardinality(Ahead(S, EntryAt(S, i))) = i - 1
        BY <2>1 DEF EntryAt
    <2> QED
        BY <2>2, <1>2
<1>9. ASSUME NEW e \in S PROVE EntryAt(S, Position(S, e)) = e
    BY <1>2, <1>3, <1>8
<1> QED
    BY <1>8, <1>9

LEMMA LineIsTyped ==
    ASSUME NEW S, Numbered(S)
    PROVE  /\ LineOf(S) \in Seq(Tasks) /\ Len(LineOf(S)) = Cardinality(S)
           /\ \A i \in 1..Cardinality(S) : LineOf(S)[i] = EntryAt(S, i).task
           /\ \A e \in S : LineOf(S)[Position(S, e)] = e.task
<1>1. Cardinality(S) \in Nat
    BY FS_CardinalityType DEF Numbered
<1>2. \A i \in 1..Cardinality(S) : EntryAt(S, i).task \in Tasks
    BY EntriesAreInPlace DEF Numbered, Entry
<1>3. LineOf(S) \in [1..Cardinality(S) -> Tasks]
    BY <1>2 DEF LineOf
<1>4. \A i \in 1..Cardinality(S) : LineOf(S)[i] = EntryAt(S, i).task
    BY DEF LineOf
<1>5. \A e \in S : Position(S, e) \in 1..Cardinality(S) /\ EntryAt(S, Position(S, e)) = e
    BY AheadIsFinite, EntriesAreInPlace
<1> QED
    BY <1>1, <1>3, <1>4, <1>5

\* A new entry e goes behind those before it; those behind it move by one.
LEMMA InsertionMovesPlaces ==
    ASSUME NEW S, NEW e, e \notin S, Numbered(S), Numbered(S \cup {e})
    PROVE  /\ Cardinality(S \cup {e}) = Cardinality(S) + 1
           /\ Position(S \cup {e}, e) - 1 \in 0..Cardinality(S)
           /\ \A d \in S : /\ Before(d, e) <=> Position(S, d) < Position(S \cup {e}, e)
                           /\ Position(S \cup {e}, d) =
                                IF Before(d, e) THEN Position(S, d) ELSE Position(S, d) + 1
<1> DEFINE T == S \cup {e}
<1>1. IsFiniteSet(S) /\ Cardinality(S) \in Nat /\ Cardinality(T) = Cardinality(S) + 1
    BY FS_CardinalityType, FS_AddElement DEF Numbered
<1>2. Position(T, e) - 1 \in 0..Cardinality(S)
    BY <1>1, AheadIsFinite
<1>3. ASSUME NEW d \in S
      PROVE  Position(T, d) = IF Before(d, e) THEN Position(S, d) ELSE Position(S, d) + 1
    <2>1. IsFiniteSet(Ahead(S, d)) /\ e \notin Ahead(S, d) /\ Position(S, d) \in Nat
        BY AheadIsFinite
    <2>2. CASE Before(d, e)
        <3>1. ~Before(e, d)
            BY <2>2, BeforeOrders
        <3>2. Ahead(T, d) = Ahead(S, d)
            BY <3>1 DEF Ahead
        <3> QED
            BY <2>2, <3>2 DEF Position
    <2>3. CASE ~Before(d, e)
        <3>1. Before(e, d)
            BY <2>3, BeforeOrders
        <3>2. Ahead(T, d) = Ahead(S, d) \cup {e}
            BY <3>1 DEF Ahead
        <3>3. Cardinality(Ahead(T, d)) = Cardinality(Ahead(S, d)) + 1
            BY <2>1, <3>2, FS_AddElement
        <3>4. Cardinality(Ahead(S, d)) = Position(S, d) - 1
            BY AheadIsFinite
        <3> QED
            BY <2>3, <2>1, <3>3, <3>4 DEF Position
    <2> QED
        BY <2>2, <2>3
<1>4. ASSUME NEW d \in S
      PROVE  Before(d, e) <=> Position(S, d) < Position(T, e)
    <2>1. /\ Before(d, e) <=> Position(T, d) < Position(T, e)
          /\ Position(T, d) = Position(T, e) => d = e
        <3>1. EntryAt(T, Position(T, d)) = d /\ EntryAt(T, Position(T, e)) = e
            BY EntriesAreInPlace
        <3> QED
            BY <3>1, PositionsFollowOrder
    <2>2. Position(S, d) \in Nat /\ Position(T, e) \in Nat /\ Position(T, d) \in Nat
        BY AheadIsFinite
    <2> QED
        BY <1>3, <2>1, <2>2
<1> QED
    BY <1>1, <1>2, <1>3, <1>4

\* So the line with the new entry is the line with its task inserted.
LEMMA InsertionInLine ==
    ASSUME NEW S, NEW e, e \notin S, Numbered(S), Numbered(S \cup {e})
    PROVE  \E i \in 0..Len(LineOf(S)) :
              /\ i = Position(S \cup {e}, e) - 1
              /\ LineOf(S \cup {e}) = Fifo!InsertAfter(LineOf(S), i, e.task)
<1> DEFINE T == S \cup {e}
           N == Cardinality(S)
           i == Position(T, e) - 1
           q == LineOf(S)
<1>1. /\ N \in Nat /\ Cardinality(T) = N + 1 /\ i \in 0..N /\ Position(T, e) = i + 1
      /\ \A d \in S : /\ Before(d, e) <=> Position(S, d) < Position(T, e)
                      /\ Position(T, d) = IF Before(d, e) THEN Position(S, d) ELSE Position(S, d) + 1
  <2>1. N \in Nat /\ Position(T, e) \in Int
    BY FS_CardinalityType, AheadIsFinite DEF Numbered
  <2>2. Cardinality(S \cup {e}) = N + 1 /\ Position(S \cup {e}, e) - 1 \in 0..N
    BY InsertionMovesPlaces
  <2>3. \A d \in S : /\ Before(d, e) <=> Position(S, d) < Position(S \cup {e}, e)
                     /\ Position(S \cup {e}, d) =
                          IF Before(d, e) THEN Position(S, d) ELSE Position(S, d) + 1
    BY InsertionMovesPlaces
  <2> QED
    BY <2>1, <2>2, <2>3
<1>2. q \in Seq(Tasks) /\ Len(q) = N /\ \A j \in 1..N : q[j] = EntryAt(S, j).task
    BY LineIsTyped
<1>3. /\ \A d \in S : LineOf(T)[Position(T, d)] = d.task
      /\ LineOf(T)[Position(T, e)] = e.task
    BY LineIsTyped
<1>4. \A j \in 1..N : EntryAt(S, j) \in S /\ Position(S, EntryAt(S, j)) = j
    BY EntriesAreInPlace
<1> HIDE DEF i, q, N, T
<1>5. ASSUME NEW j \in 1..(N + 1)
      PROVE  LineOf(T)[j] = IF j <= i THEN q[j] ELSE IF j = i + 1 THEN e.task ELSE q[j - 1]
    <2>1. CASE j <= i
        <3>1. j \in 1..N
            BY <1>1, <2>1
        <3>2. EntryAt(S, j) \in S /\ Position(T, EntryAt(S, j)) = j
            BY <1>1, <1>4, <2>1, <3>1
        <3> QED
            BY <1>2, <1>3, <2>1, <3>1, <3>2
    <2>2. CASE j = i + 1
        <3>1. j = Position(T, e)
            BY <1>1, <2>2
        <3> QED
            BY <1>1, <1>3, <2>2, <3>1
    <2>3. CASE j > i + 1
        <3>1. j - 1 \in 1..N
            BY <1>1, <2>3
        <3>2. EntryAt(S, j - 1) \in S /\ Position(S, EntryAt(S, j - 1)) = j - 1
            BY <1>4, <3>1
        <3>3. Position(T, EntryAt(S, j - 1)) = j
            BY <1>1, <2>3, <3>2
        <3> QED
            BY <1>1, <1>2, <1>3, <2>3, <3>1, <3>2, <3>3
    <2> QED
        BY <1>1, <2>1, <2>2, <2>3
<1>6. LineOf(T) = [j \in 1..(N + 1) |-> LineOf(T)[j]]
    BY <1>1 DEF LineOf, N
<1>7. LineOf(T) = Fifo!InsertAfter(q, i, e.task)
    BY <1>1, <1>2, <1>5, <1>6 DEF Fifo!InsertAfter
<1> QED
    BY <1>1, <1>2, <1>7 DEF i, q, N, T

\* A push of the heap is a push of the line: the new entry has the greatest
\* number, and so the entries before it are those of its priority or a higher.
LEMMA PushesAgree ==
    ASSUME HeapTypeOK, HeapTypeOK', NEW t \in Tasks, HeapPush(t)
    PROVE  Fifo!Push(t)
<1> DEFINE e == [task |-> t, seq |-> sequence]
<1>1. /\ Numbered(heap) /\ Numbered(heap \cup {e}) /\ e \notin heap
      /\ heap' = heap \cup {e} /\ sequence \in Nat
      /\ \A d \in heap : d.seq \in Nat /\ d.seq < sequence /\ d.task \in Tasks
    BY SequenceAssumption DEF HeapTypeOK, HeapPush, Numbered, Entry
<1> HIDE DEF e
<1>2. PICK i \in 0..Len(LineOf(heap)) :
         /\ i = Position(heap \cup {e}, e) - 1
         /\ LineOf(heap \cup {e}) = Fifo!InsertAfter(LineOf(heap), i, e.task)
    BY <1>1, InsertionInLine
<1>3. e.task = t /\ e.seq = sequence
    BY DEF e
<1>4. \A d \in heap : Before(d, e) <=> Priority[d.task] >= Priority[t]
    <2>1. \A d \in heap : Priority[d.task] \in Int /\ Priority[t] \in Int
        BY <1>1, ModelsAssumption
    <2> QED
        BY <1>1, <1>3, <2>1 DEF Before
<1>5. /\ Len(LineOf(heap)) = Cardinality(heap) /\ Cardinality(heap) \in Nat
      /\ \A j \in 1..Cardinality(heap) : LineOf(heap)[j] = EntryAt(heap, j).task
    BY <1>1, LineIsTyped, FS_CardinalityType DEF Numbered
<1>6. ASSUME NEW j \in 1..Len(LineOf(heap))
      PROVE  j <= i <=> Priority[LineOf(heap)[j]] >= Priority[t]
    <2>1. EntryAt(heap, j) \in heap /\ Position(heap, EntryAt(heap, j)) = j
        BY <1>1, <1>5, EntriesAreInPlace
    <2>2. \A d \in heap : Before(d, e) <=> Position(heap, d) < Position(heap \cup {e}, e)
        BY <1>1, InsertionMovesPlaces
    <2>3. Before(EntryAt(heap, j), e) <=> j < Position(heap \cup {e}, e)
        BY <2>1, <2>2
    <2>4. Position(heap \cup {e}, e) \in Int
        BY <1>1, AheadIsFinite
    <2> QED
        BY <1>2, <1>4, <1>5, <2>1, <2>3, <2>4
<1>7. Fifo!IsPlaceOf(t, i)
    BY <1>6 DEF Fifo!IsPlaceOf
<1>8. LineOf(heap)' = Fifo!InsertAfter(LineOf(heap), i, t)
    BY <1>1, <1>2, <1>3
<1> QED
    BY <1>7, <1>8 DEF Fifo!Push

\* A dequeue that hands out e takes e and all before it out: the others move up.
LEMMA RemovalMovesPlaces ==
    ASSUME NEW S, NEW e \in S, Numbered(S)
    PROVE  LET R == {d \in S : Before(e, d)}
               k == Position(S, e)
           IN  /\ Numbered(R) /\ Cardinality(R) = Cardinality(S) - k
               /\ \A d \in R : Position(R, d) = Position(S, d) - k
<1> DEFINE R == {d \in S : Before(e, d)}
           k == Position(S, e)
           F == Ahead(S, e) \cup {e}
<1>1. IsFiniteSet(S) /\ Cardinality(S) \in Nat
    BY FS_CardinalityType DEF Numbered
<1>2. Numbered(R)
    BY FS_Subset DEF Numbered
<1>3. IsFiniteSet(F) /\ Cardinality(F) = k /\ k \in Nat /\ IsFiniteSet(R) /\ Cardinality(R) \in Nat
    <2>1. IsFiniteSet(Ahead(S, e)) /\ e \notin Ahead(S, e)
        BY AheadIsFinite, BeforeOrders DEF Ahead
    <2>2. Cardinality(Ahead(S, e)) = k - 1 /\ k \in Nat
        BY AheadIsFinite
    <2>3. IsFiniteSet(F) /\ Cardinality(F) = Cardinality(Ahead(S, e)) + 1
        BY <2>1, FS_AddElement
    <2>4. IsFiniteSet(R) /\ Cardinality(R) \in Nat
        BY <1>2, FS_CardinalityType DEF Numbered
    <2> HIDE DEF F, R
    <2> QED
        BY <2>2, <2>3, <2>4
<1>4. Cardinality(R) = Cardinality(S) - k
    <2>1. S = F \cup R /\ F \cap R = {}
        BY BeforeOrders DEF Ahead
    <2>2. Cardinality(F \cup R) = Cardinality(F) + Cardinality(R) - Cardinality(F \cap R)
        BY <1>3, FS_Union
    <2> HIDE DEF F, R, k
    <2> QED
        BY <1>1, <1>3, <2>1, <2>2, FS_EmptySet
<1>5. ASSUME NEW d \in R PROVE Position(R, d) = Position(S, d) - k
    <2>1. Ahead(S, d) = F \cup Ahead(R, d) /\ F \cap Ahead(R, d) = {}
        BY <1>5, BeforeOrders DEF Ahead
    <2>2. /\ IsFiniteSet(Ahead(R, d)) /\ Cardinality(Ahead(R, d)) = Position(R, d) - 1
          /\ Position(R, d) \in Int
        BY <1>2, AheadIsFinite
    <2>3. Cardinality(F \cup Ahead(R, d)) =
              Cardinality(F) + Cardinality(Ahead(R, d)) - Cardinality(F \cap Ahead(R, d))
        BY <1>3, <2>2, FS_Union
    <2>4. Cardinality(Ahead(S, d)) = Position(S, d) - 1 /\ Position(S, d) \in Int
        BY AheadIsFinite
    <2>5. Cardinality(F \cap Ahead(R, d)) = 0 /\ k \in Int
        BY <1>3, <2>1, FS_EmptySet
    <2> HIDE DEF F, R, k
    <2> QED
        BY <1>3, <2>1, <2>2, <2>3, <2>4, <2>5
<1> QED
    BY <1>2, <1>4, <1>5

LEMMA RemovalInLine ==
    ASSUME NEW S, NEW e \in S, Numbered(S)
    PROVE  LineOf({d \in S : Before(e, d)}) =
               SubSeq(LineOf(S), Position(S, e) + 1, Len(LineOf(S)))
<1> DEFINE R == {d \in S : Before(e, d)}
           k == Position(S, e)
           N == Cardinality(S)
           q == LineOf(S)
<1>1. /\ N \in Nat /\ k \in 1..N /\ Numbered(R) /\ Cardinality(R) = N - k
      /\ \A d \in R : Position(R, d) = Position(S, d) - k
    BY FS_CardinalityType, AheadIsFinite, RemovalMovesPlaces DEF Numbered
<1>2. q \in Seq(Tasks) /\ Len(q) = N /\ \A d \in S : q[Position(S, d)] = d.task
    BY LineIsTyped
<1>3. /\ LineOf(R) \in Seq(Tasks) /\ Len(LineOf(R)) = Cardinality(R)
      /\ \A i \in 1..Cardinality(R) : LineOf(R)[i] = EntryAt(R, i).task
    BY <1>1, LineIsTyped
<1>4. \A i \in 1..Cardinality(R) : EntryAt(R, i) \in R /\ Position(R, EntryAt(R, i)) = i
    BY <1>1, EntriesAreInPlace
<1>5. R \subseteq S /\ \A d \in R : Position(S, d) \in Int
    BY AheadIsFinite
<1> HIDE DEF R, k, N, q
<1>6. ASSUME NEW i \in 1..(N - k) PROVE LineOf(R)[i] = q[i + k]
    <2>1. EntryAt(R, i) \in R /\ Position(S, EntryAt(R, i)) = i + k
        BY <1>1, <1>4, <1>5
    <2> QED
        BY <1>1, <1>2, <1>3, <1>5, <2>1
<1>7. /\ SubSeq(q, k + 1, N) \in Seq(Tasks) /\ Len(SubSeq(q, k + 1, N)) = N - k
      /\ \A i \in 1..(N - k) : SubSeq(q, k + 1, N)[i] = q[i + k]
    BY <1>1, <1>2
<1>8. LineOf(R) = SubSeq(q, k + 1, N)
    BY <1>1, <1>3, <1>6, <1>7
<1> QED
    BY <1>2, <1>8 DEF R, k, N, q

LEMMA DequeuesAgree ==
    ASSUME HeapTypeOK, NEW t \in Tasks, HeapDequeue(t)
    PROVE  Fifo!Dequeue(t)
<1>1. Numbered(heap)
    BY DEF HeapTypeOK, Numbered
<1>2. PICK e \in heap :
         /\ e.task = t /\ status[t] = "queued"
         /\ \A d \in heap : Before(d, e) => status[d.task] # "queued"
         /\ heap' = {d \in heap : Before(e, d)}
         /\ status' = [status EXCEPT ![t] = "dispatched"]
         /\ UNCHANGED <<assigned, attempts, sequence>>
    BY DEF HeapDequeue
<1> DEFINE k == Position(heap, e)
           q == LineOf(heap)
<1>3. /\ Len(q) = Cardinality(heap) /\ k \in 1..Len(q) /\ q[k] = t
      /\ \A j \in 1..Len(q) : q[j] = EntryAt(heap, j).task
    BY <1>1, <1>2, LineIsTyped, AheadIsFinite
<1>4. ASSUME NEW j \in 1..(k - 1) PROVE status[q[j]] # "queued"
    <2>1. j \in 1..Cardinality(heap) /\ j < k
        BY <1>3
    <2>2. EntryAt(heap, j) \in heap /\ Position(heap, EntryAt(heap, j)) = j
        BY <1>1, <2>1, EntriesAreInPlace
    <2>3. Before(EntryAt(heap, j), e)
        BY <1>1, <2>1, <2>2, PositionsFollowOrder
    <2> QED
        BY <1>2, <1>3, <2>1, <2>2, <2>3
<1>5. LineOf(heap)' = SubSeq(q, k + 1, Len(q))
    BY <1>1, <1>2, RemovalInLine
<1> HIDE DEF k, q
<1>6. /\ q[k] = t /\ k \in 1..Len(q) /\ status[t] = "queued"
      /\ \A j \in 1..(k - 1) : status[q[j]] # "queued"
      /\ LineOf(heap)' = SubSeq(q, k + 1, Len(q))
      /\ status' = [status EXCEPT ![t] = "dispatched"]
      /\ UNCHANGED <<assigned, attempts>>
    BY <1>2, <1>3, <1>4, <1>5
<1> QED
    BY <1>6 DEF Fifo!Dequeue, q

LEMMA EmptyLine == LineOf({}) = <<>>
<1>1. Numbered({}) /\ Cardinality({}) = 0
    BY FS_EmptySet DEF Numbered
<1> QED
    BY <1>1, LineIsTyped

\* What dequeue() returns None for in the heap it returns None for in the line.
LEMMA EmptyDequeuesAgree ==
    ASSUME HeapTypeOK, HeapDequeueNone
    PROVE  Fifo!DequeueNone
<1>1. Numbered(heap)
    BY DEF HeapTypeOK, Numbered
<1>2. \A j \in 1..Len(LineOf(heap)) : status[LineOf(heap)[j]] # "queued"
    BY <1>1, LineIsTyped, EntriesAreInPlace DEF HeapDequeueNone
<1>3. LineOf(heap)' = <<>>
    BY EmptyLine DEF HeapDequeueNone
<1> QED
    BY <1>2, <1>3 DEF Fifo!DequeueNone, HeapDequeueNone, taskVars

\* Every step of the heap is a step of the line, or leaves it as it is.
LEMMA HeapStepsAreLineSteps ==
    HeapTypeOK /\ HeapTypeOK' /\ [HeapNext]_heapVars => [Fifo!FifoNext]_(Fifo!queueVars)
<1> SUFFICES ASSUME HeapTypeOK, HeapTypeOK', [HeapNext]_heapVars
             PROVE  [Fifo!FifoNext]_(Fifo!queueVars)
    OBVIOUS
<1>1. ASSUME NEW t \in Tasks, HeapEnqueue(t), status[t] = "new" \/ HeapPutBack(t)
      PROVE  Fifo!FifoNext
    <2>1. Fifo!Push(t)
        BY <1>1, PushesAgree DEF HeapEnqueue
    <2>2. Fifo!Enqueue(t)
        BY <1>1, <2>1 DEF HeapEnqueue, Fifo!Enqueue
    <2>3. CASE status[t] = "new"
        BY <2>2, <2>3 DEF Fifo!FifoNext, Fifo!Submit
    <2>4. CASE HeapPutBack(t)
      <3>1. Numbered(heap)
          BY DEF HeapTypeOK, Numbered
      <3>2. ~Fifo!Occurs(LineOf(heap), t)
          BY <2>4, <3>1, LineIsTyped, EntriesAreInPlace DEF HeapPutBack, Fifo!Occurs
      <3> QED
          BY <2>2, <2>4, <3>2 DEF HeapPutBack, Fifo!FifoNext, Fifo!PutBack
    <2> QED
        BY <1>1, <2>3, <2>4
<1>2. ASSUME NEW t \in Tasks, HeapDequeue(t) PROVE Fifo!FifoNext
    BY <1>2, DequeuesAgree DEF Fifo!FifoNext
<1>3. ASSUME NEW t \in Tasks, HeapCancel(t) PROVE Fifo!FifoNext
    BY <1>3 DEF HeapCancel, Fifo!Cancel, Fifo!FifoNext
<1>4. ASSUME NEW t \in Tasks, HeapFailOver(t) PROVE Fifo!FifoNext
    <2>1. Fifo!Push(t)
        BY <1>4, PushesAgree DEF HeapFailOver, HeapRequeue
    <2>2. Fifo!FailOver(t)
        BY <1>4, <2>1 DEF HeapFailOver, HeapRequeue, Fifo!FailOver, Fifo!Requeue, TakenUp, Fifo!TakenUp
    <2> QED
        BY <2>2 DEF Fifo!FifoNext
<1>5. ASSUME NEW t \in Tasks, HeapExecute(t) PROVE Fifo!FifoNext
    <2>1. Fifo!Execute(t)
        BY <1>5 DEF HeapExecute, HeapWrites, Fifo!Execute, Fifo!Writes, TakenUp, Fifo!TakenUp
    <2> QED
        BY <2>1 DEF Fifo!FifoNext
<1>6. ASSUME NEW t \in Tasks, HeapNoNodeFound(t) PROVE Fifo!FifoNext
    <2>1. Fifo!NoNodeFound(t)
        BY <1>6 DEF HeapNoNodeFound, HeapWrites, Fifo!NoNodeFound, Fifo!Writes
    <2> QED
        BY <2>1 DEF Fifo!FifoNext
<1>7. CASE HeapDequeueNone
    BY <1>7, EmptyDequeuesAgree DEF Fifo!FifoNext
<1>8. CASE UNCHANGED heapVars
    BY <1>8 DEF heapVars, Fifo!queueVars
<1> QED
    BY <1>1, <1>2, <1>3, <1>4, <1>5, <1>6, <1>7, <1>8 DEF HeapNext, HeapPutBack

\* For any tasks, priorities and numbers of retries and insertions, heap and
\* counter are the waiting line that the cluster is built on: the highest
\* priority first, in order of arrival among equals.
THEOREM HeapIsALine == HeapSpec => HeapImplementsLine
<1>1. HeapInit => Fifo!FifoInit
    BY EmptyLine DEF HeapInit, Fifo!FifoInit
<1> QED
    BY <1>1, HeapStepsAreLineSteps, HeapNumbersUnique, PTL
    DEF HeapSpec, HeapImplementsLine, Fifo!FifoSpec
=============================================================================
