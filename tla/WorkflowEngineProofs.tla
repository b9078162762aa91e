------------------------ MODULE WorkflowEngineProofs ------------------------
(***************************************************************************)
(* WorkflowEngine, for any workflow, pool and number of execute() calls.   *)
(*                                                                         *)
(* The invariant relates what the loop believes of a node (nstatus) to     *)
(* what the pool did with it (job): the loop learns late, never wrongly.   *)
(* A node the loop gave up on without running it exists only after the     *)
(* loop has ended.  While no other call of execute() has begun more holds, *)
(* because a cancel the loop has seen cannot be undone: when the loop ended*)
(* for want of eligible nodes, a node was left out because of a            *)
(* predecessor, and since the graph has no cycle one of these failed.      *)
(*                                                                         *)
(* At the end validate(): it passes exactly the graphs without a cycle,    *)
(* which discharges what WorkflowEngine assumes of its graph.              *)
(***************************************************************************)
EXTENDS WorkflowEngine, WorkflowValidation, SequenceTheorems, FiniteSetTheorems, TLAPS

Over(c) == at[c] \in {"drain", "finish", "returned"}

NodeInv(c, n) ==
    /\ nstatus[c][n] = "pending" => job[c][n] = "none"
    /\ nstatus[c][n] = "running" => job[c][n] # "none"
    /\ nstatus[c][n] = "success" => job[c][n] = "ok"
    /\ nstatus[c][n] = "failed" => job[c][n] = "bad" \/ (job[c][n] = "none" /\ Over(c))
    /\ nstatus[c][n] = "cancelled" => Over(c)
    /\ Over(c) => nstatus[c][n] # "pending"
    /\ at[c] = "uncalled" => nstatus[c][n] = "pending"
    /\ at[c] \in {"finish", "returned"} => job[c][n] \in {"none", "ok", "bad"}
    /\ job[c][n] # "none" => \A p \in Preds[n] : job[c][p] = "ok"

IInv ==
    /\ EngineTypeOK
    /\ \A c \in Calls, n \in Nodes : NodeInv(c, n)
    /\ \A c \in Calls : result[c] = "completed" => \A n \in Nodes : job[c][n] = "ok"

\* Where a call stands that has the workflow to itself.
Uncancelled(c) == \A n \in Nodes : nstatus[c][n] # "cancelled"

SingleInv(c) ==
    /\ ~Uncancelled(c) => wstatus = "cancelled"
    /\ result[c] # "none" => at[c] = "returned"
    /\ result[c] \in {"completed", "failed"} => Uncancelled(c)
    /\ result[c] = "failed" => \E n \in Nodes : nstatus[c][n] # "success"
    /\ Over(c) /\ Uncancelled(c) =>
          \A n \in Nodes :
              /\ nstatus[c][n] # "running"
              /\ job[c][n] = "none" <=> \E p \in Preds[n] : job[c][p] \in {"none", "bad"}
---------------------------------------------------------------------------
\* No call has begun.
LEMMA InitInv == EngineInit => IInv
BY DEF EngineInit, IInv, EngineTypeOK, NodeInv, Over, Ended

\* A call that begins finds its nodes pending.
LEMMA ExecuteKeeps == ASSUME IInv, NEW e \in Calls, Execute(e) PROVE IInv'
<1> USE DEF IInv
<1>1. EngineTypeOK'
    BY DEF EngineTypeOK, Execute, Advance, Ended
<1>2. \A c \in Calls, n \in Nodes : NodeInv(c, n)'
  <2> SUFFICES ASSUME NEW c \in Calls, NEW n \in Nodes PROVE NodeInv(c, n)'
      OBVIOUS
  <2>1. NodeInv(c, n) /\ NodeInv(e, n) /\ \A p \in Preds[n] : p \in Nodes /\ NodeInv(e, p)
      BY WorkflowAssumption
  <2>2. CASE c = e
      BY <2>1, <2>2 DEF EngineTypeOK, Execute, Advance, NodeInv, Over
  <2>3. CASE c # e
      BY <2>1, <2>3 DEF EngineTypeOK, Execute, Advance, NodeInv, Over
  <2>4. QED
      BY <2>2, <2>3
<1>3. ASSUME NEW c \in Calls, result'[c] = "completed", NEW n \in Nodes PROVE job'[c][n] = "ok"
    BY <1>3 DEF EngineTypeOK, Execute, Advance, NodeInv, Ended
<1>4. QED
    BY <1>1, <1>2, <1>3

\* The loop goes on; nothing is over yet.
LEMMA GoOnKeeps == ASSUME IInv, NEW e \in Calls, GoOn(e) PROVE IInv'
<1> USE DEF IInv
<1>1. EngineTypeOK'
    BY DEF EngineTypeOK, GoOn, Advance, Ended
<1>2. \A c \in Calls, n \in Nodes : NodeInv(c, n)'
  <2> SUFFICES ASSUME NEW c \in Calls, NEW n \in Nodes PROVE NodeInv(c, n)'
      OBVIOUS
  <2>1. NodeInv(c, n) /\ NodeInv(e, n) /\ \A p \in Preds[n] : p \in Nodes /\ NodeInv(e, p)
      BY WorkflowAssumption
  <2>2. CASE c = e
      BY <2>1, <2>2 DEF EngineTypeOK, GoOn, Advance, NodeInv, Over
  <2>3. CASE c # e
      BY <2>1, <2>3 DEF EngineTypeOK, GoOn, Advance, NodeInv, Over
  <2>4. QED
      BY <2>2, <2>3
<1>3. ASSUME NEW c \in Calls, result'[c] = "completed", NEW n \in Nodes PROVE job'[c][n] = "ok"
    BY <1>3 DEF EngineTypeOK, GoOn, Advance, NodeInv, Ended
<1>4. QED
    BY <1>1, <1>2, <1>3

\* The nodes left are cancelled where the loop ends.
LEMMA SeeCancelKeeps == ASSUME IInv, NEW e \in Calls, SeeCancel(e) PROVE IInv'
<1> USE DEF IInv
<1>1. EngineTypeOK'
    BY DEF EngineTypeOK, SeeCancel, Advance, Ended
<1>2. \A c \in Calls, n \in Nodes : NodeInv(c, n)'
  <2> SUFFICES ASSUME NEW c \in Calls, NEW n \in Nodes PROVE NodeInv(c, n)'
      OBVIOUS
  <2>1. NodeInv(c, n) /\ NodeInv(e, n) /\ \A p \in Preds[n] : p \in Nodes /\ NodeInv(e, p)
      BY WorkflowAssumption
  <2>2. CASE c = e
      BY <2>1, <2>2 DEF EngineTypeOK, SeeCancel, Advance, NodeInv, Over
  <2>3. CASE c # e
      BY <2>1, <2>3 DEF EngineTypeOK, SeeCancel, Advance, NodeInv, Over
  <2>4. QED
      BY <2>2, <2>3
<1>3. ASSUME NEW c \in Calls, result'[c] = "completed", NEW n \in Nodes PROVE job'[c][n] = "ok"
    BY <1>3 DEF EngineTypeOK, SeeCancel, Advance, NodeInv, Ended
<1>4. QED
    BY <1>1, <1>2, <1>3

\* The eligible nodes have successful predecessors, whose jobs are ok.
LEMMA SubmitKeeps == ASSUME IInv, NEW e \in Calls, Submit(e) PROVE IInv'
<1> USE DEF IInv
<1>1. EngineTypeOK'
    BY DEF EngineTypeOK, Submit, Eligible, Running, Advance, Ended
<1>2. \A c \in Calls, n \in Nodes : NodeInv(c, n)'
  <2> SUFFICES ASSUME NEW c \in Calls, NEW n \in Nodes PROVE NodeInv(c, n)'
      OBVIOUS
  <2>1. NodeInv(c, n) /\ NodeInv(e, n) /\ \A p \in Preds[n] : p \in Nodes /\ NodeInv(e, p)
      BY WorkflowAssumption
  <2>2. CASE c = e
      BY <2>1, <2>2 DEF EngineTypeOK, Submit, Eligible, Running, Advance, NodeInv, Over
  <2>3. CASE c # e
      BY <2>1, <2>3 DEF EngineTypeOK, Submit, Eligible, Running, Advance, NodeInv, Over
  <2>4. QED
      BY <2>2, <2>3
<1>3. ASSUME NEW c \in Calls, result'[c] = "completed", NEW n \in Nodes PROVE job'[c][n] = "ok"
    BY <1>3 DEF EngineTypeOK, Submit, Eligible, Running, Advance, NodeInv, Ended
<1>4. QED
    BY <1>1, <1>2, <1>3

\* The pending nodes, never submitted, count as failed.
LEMMA NothingLeftKeeps == ASSUME IInv, NEW e \in Calls, NothingLeft(e) PROVE IInv'
<1> USE DEF IInv
<1>1. EngineTypeOK'
    BY DEF EngineTypeOK, NothingLeft, Eligible, Running, Advance, Ended
<1>2. \A c \in Calls, n \in Nodes : NodeInv(c, n)'
  <2> SUFFICES ASSUME NEW c \in Calls, NEW n \in Nodes PROVE NodeInv(c, n)'
      OBVIOUS
  <2>1. NodeInv(c, n) /\ NodeInv(e, n) /\ \A p \in Preds[n] : p \in Nodes /\ NodeInv(e, p)
      BY WorkflowAssumption
  <2>2. CASE c = e
      BY <2>1, <2>2 DEF EngineTypeOK, NothingLeft, Eligible, Running, Advance, NodeInv, Over
  <2>3. CASE c # e
      BY <2>1, <2>3 DEF EngineTypeOK, NothingLeft, Eligible, Running, Advance, NodeInv, Over
  <2>4. QED
      BY <2>2, <2>3
<1>3. ASSUME NEW c \in Calls, result'[c] = "completed", NEW n \in Nodes PROVE job'[c][n] = "ok"
    BY <1>3 DEF EngineTypeOK, NothingLeft, Eligible, Running, Advance, NodeInv, Ended
<1>4. QED
    BY <1>1, <1>2, <1>3

\* What the loop learns is what the pool did.
LEMMA CollectKeeps == ASSUME IInv, NEW e \in Calls, Collect(e) PROVE IInv'
<1> USE DEF IInv
<1>1. EngineTypeOK'
    BY DEF EngineTypeOK, Collect, Done, Running, Advance, Ended
<1>2. \A c \in Calls, n \in Nodes : NodeInv(c, n)'
  <2> SUFFICES ASSUME NEW c \in Calls, NEW n \in Nodes PROVE NodeInv(c, n)'
      OBVIOUS
  <2>1. NodeInv(c, n) /\ NodeInv(e, n) /\ \A p \in Preds[n] : p \in Nodes /\ NodeInv(e, p)
      BY WorkflowAssumption
  <2>2. CASE c = e
      BY <2>1, <2>2 DEF EngineTypeOK, Collect, Done, Running, Advance, NodeInv, Over
  <2>3. CASE c # e
      BY <2>1, <2>3 DEF EngineTypeOK, Collect, Done, Running, Advance, NodeInv, Over
  <2>4. QED
      BY <2>2, <2>3
<1>3. ASSUME NEW c \in Calls, result'[c] = "completed", NEW n \in Nodes PROVE job'[c][n] = "ok"
    BY <1>3 DEF EngineTypeOK, Collect, Done, Running, Advance, NodeInv, Ended
<1>4. QED
    BY <1>1, <1>2, <1>3

\* The pool is empty when the loop's block ends.
LEMMA DrainKeeps == ASSUME IInv, NEW e \in Calls, Drain(e) PROVE IInv'
<1> USE DEF IInv
<1>1. EngineTypeOK'
    BY DEF EngineTypeOK, Drain, Advance, Ended
<1>2. \A c \in Calls, n \in Nodes : NodeInv(c, n)'
  <2> SUFFICES ASSUME NEW c \in Calls, NEW n \in Nodes PROVE NodeInv(c, n)'
      OBVIOUS
  <2>1. NodeInv(c, n) /\ NodeInv(e, n) /\ \A p \in Preds[n] : p \in Nodes /\ NodeInv(e, p)
      BY WorkflowAssumption
  <2>2. CASE c = e
      BY <2>1, <2>2 DEF EngineTypeOK, Drain, Advance, NodeInv, Over
  <2>3. CASE c # e
      BY <2>1, <2>3 DEF EngineTypeOK, Drain, Advance, NodeInv, Over
  <2>4. QED
      BY <2>2, <2>3
<1>3. ASSUME NEW c \in Calls, result'[c] = "completed", NEW n \in Nodes PROVE job'[c][n] = "ok"
    BY <1>3 DEF EngineTypeOK, Drain, Advance, NodeInv, Ended
<1>4. QED
    BY <1>1, <1>2, <1>3

\* COMPLETED is returned when every node is a success.
LEMMA FinishKeeps == ASSUME IInv, NEW e \in Calls, Finish(e) PROVE IInv'
<1> USE DEF IInv
<1>1. EngineTypeOK'
    BY DEF EngineTypeOK, Finish, AllSuccess, Advance, Ended
<1>2. \A c \in Calls, n \in Nodes : NodeInv(c, n)'
  <2> SUFFICES ASSUME NEW c \in Calls, NEW n \in Nodes PROVE NodeInv(c, n)'
      OBVIOUS
  <2>1. NodeInv(c, n) /\ NodeInv(e, n) /\ \A p \in Preds[n] : p \in Nodes /\ NodeInv(e, p)
      BY WorkflowAssumption
  <2>2. CASE c = e
      BY <2>1, <2>2 DEF EngineTypeOK, Finish, AllSuccess, Advance, NodeInv, Over
  <2>3. CASE c # e
      BY <2>1, <2>3 DEF EngineTypeOK, Finish, AllSuccess, Advance, NodeInv, Over
  <2>4. QED
      BY <2>2, <2>3
<1>3. ASSUME NEW c \in Calls, result'[c] = "completed", NEW n \in Nodes PROVE job'[c][n] = "ok"
    BY <1>3 DEF EngineTypeOK, Finish, AllSuccess, Advance, NodeInv, Ended
<1>4. QED
    BY <1>1, <1>2, <1>3

\* pause(), resume() and cancel() touch the status of the workflow only.
LEMMA ClientKeeps == ASSUME IInv, Pause \/ Resume \/ Cancel PROVE IInv'
<1>1. wstatus' \in {"running", "paused", "cancelled"} /\ UNCHANGED <<at, nstatus, job, result>>
    BY DEF Pause, Resume, Cancel
<1>2. EngineTypeOK'
    BY <1>1 DEF IInv, EngineTypeOK, Ended
<1>3. \A c \in Calls, n \in Nodes : NodeInv(c, n)'
    BY <1>1 DEF IInv, NodeInv, Over
<1>4. QED
    BY <1>1, <1>2, <1>3 DEF IInv

\* A job only moves on, and one that came back stays as it is.
LEMMA PoolFacts ==
    ASSUME EngineTypeOK, NEW e \in Calls, PoolStep(e)
    PROVE  /\ EngineTypeOK' /\ UNCHANGED <<wstatus, at, nstatus, result>>
           /\ \A c \in Calls, n \in Nodes :
                 \/ job'[c][n] = job[c][n]
                 \/ /\ job[c][n] \in {"submitted", "executing"}
                    /\ job'[c][n] \in {"executing", "ok", "bad"}
<1>1. PICK k \in Nodes : StartJob(e, k) \/ EndJob(e, k)
    BY DEF PoolStep
<1>2. PICK r \in {"executing", "ok", "bad"} : job' = [job EXCEPT ![e][k] = r]
    BY <1>1 DEF StartJob, EndJob
<1>3. job[e][k] \in {"submitted", "executing"} /\ UNCHANGED <<wstatus, at, nstatus, result>>
    BY <1>1 DEF StartJob, EndJob
<1>4. EngineTypeOK'
    BY <1>2, <1>3 DEF EngineTypeOK, Ended
<1>5. QED
    BY <1>2, <1>3, <1>4 DEF EngineTypeOK

\* The pool moves jobs the loop counts as running.
LEMMA PoolKeeps == ASSUME IInv, NEW e \in Calls, PoolStep(e) PROVE IInv'
<1>1. EngineTypeOK' /\ UNCHANGED <<wstatus, at, nstatus, result>>
    BY PoolFacts DEF IInv
<1>2. \A c \in Calls, n \in Nodes : NodeInv(c, n)'
  <2> SUFFICES ASSUME NEW c \in Calls, NEW n \in Nodes PROVE NodeInv(c, n)'
      OBVIOUS
  <2>1. NodeInv(c, n) /\ \A p \in Preds[n] : p \in Nodes
      BY WorkflowAssumption DEF IInv
  <2>2. \A k \in Nodes : \/ job'[c][k] = job[c][k]
                         \/ /\ job[c][k] \in {"submitted", "executing"}
                            /\ job'[c][k] \in {"executing", "ok", "bad"}
      BY PoolFacts DEF IInv
  <2>3. QED
      BY <1>1, <2>1, <2>2 DEF NodeInv, Over
<1>3. ASSUME NEW c \in Calls, result'[c] = "completed", NEW n \in Nodes PROVE job'[c][n] = "ok"
    BY <1>1, <1>3, PoolFacts DEF IInv
<1>4. QED
    BY <1>1, <1>2, <1>3 DEF IInv

\* Every step preserves the invariant.
LEMMA NextInv == IInv /\ [EngineNext]_engineVars => IInv'
<1> SUFFICES ASSUME IInv, [EngineNext]_engineVars PROVE IInv'
    OBVIOUS
<1>1. CASE UNCHANGED engineVars
    BY <1>1 DEF engineVars, IInv, EngineTypeOK, NodeInv, Over
<1>2. CASE Pause \/ Resume \/ Cancel
    BY <1>2, ClientKeeps
<1>3. ASSUME NEW c \in Calls, Execute(c) \/ CallStep(c) \/ PoolStep(c) PROVE IInv'
    BY <1>3, ExecuteKeeps, GoOnKeeps, SeeCancelKeeps, SubmitKeeps, NothingLeftKeeps,
       CollectKeeps, DrainKeeps, FinishKeeps, PoolKeeps DEF CallStep, SubmitStep
<1>4. QED
    BY <1>1, <1>2, <1>3 DEF EngineNext

\* What the loop believes of a node is never wrong, in any reachable state.
THEOREM EngineInvariance == EngineSpec => []IInv
BY InitInv, NextInv, PTL DEF EngineSpec

\* The engine's state keeps its type.
THEOREM EngineTypeCorrect == EngineSpec => []EngineTypeOK
<1>1. IInv => EngineTypeOK
    BY DEF IInv
<1>2. QED
    BY <1>1, EngineInvariance, PTL

\* No node reaches the pool before all its predecessors came back successful,
\* however the calls of execute(), the pool and the clients interleave; and an
\* execute() that returned has left nothing running.
THEOREM NodesAreInTime == EngineSpec => []NodesKeepToTheirTime
<1>1. IInv => NodesWaitForPredecessors
    BY DEF IInv, NodeInv, NodesWaitForPredecessors
<1>2. IInv => NothingOutlivesExecute
    BY DEF IInv, NodeInv, NothingOutlivesExecute
<1>3. IInv => NodesKeepToTheirTime
    BY <1>1, <1>2 DEF NodesKeepToTheirTime
<1>4. QED
    BY <1>3, EngineInvariance, PTL

\* After the calls have begun a cancel is final.
THEOREM CancelSticks == EngineSpec => CancelIsFinal
<1>1. ASSUME EngineNext, wstatus = "cancelled", \A c \in Calls : at[c] # "uncalled"
      PROVE  wstatus' = "cancelled"
  <2>1. CASE Pause \/ Resume \/ Cancel
      BY <1>1, <2>1 DEF Pause, Resume, Cancel, Ended
  <2>2. ASSUME NEW c \in Calls, Execute(c) PROVE wstatus' = "cancelled"
      BY <1>1, <2>2 DEF Execute, Advance
  <2>3. ASSUME NEW c \in Calls, CallStep(c) PROVE wstatus' = "cancelled"
      BY <1>1, <2>3 DEF CallStep, GoOn, SeeCancel, SubmitStep, Submit, NothingLeft, Collect, Drain, Finish
  <2>4. ASSUME NEW c \in Calls, PoolStep(c) PROVE wstatus' = "cancelled"
      BY <1>1, <2>4 DEF PoolStep, StartJob, EndJob
  <2>5. QED
      BY <1>1, <2>1, <2>2, <2>3, <2>4 DEF EngineNext
<1>2. [EngineNext]_engineVars => [CancelStands]_engineVars
    BY <1>1 DEF engineVars, CancelStands
<1>3. QED
    BY <1>2, PTL DEF EngineSpec, CancelIsFinal

---------------------------------------------------------------------------
(* A call nobody else's execution interferes with. *)

\* Nothing has happened yet.
LEMMA SingleInit == ASSUME NEW e \in Calls, EngineInit PROVE SingleInv(e)
BY DEF EngineInit, SingleInv, Uncancelled, Over

\* The turn that finds nothing to run: what was left out has a predecessor
\* that failed or was itself left out.
LEMMA LeftOut ==
    ASSUME IInv, NEW e \in Calls, NothingLeft(e), SingleInv(e)
    PROVE  SingleInv(e)'
<1> USE DEF IInv
<1>1. at[e] = "submit" /\ at'[e] = "drain" /\ UNCHANGED <<wstatus, job, result>>
    BY DEF NothingLeft, Advance, EngineTypeOK
<1>2. \A n \in Nodes : nstatus[e][n] \notin {"running", "cancelled"}
    BY <1>1 DEF NothingLeft, Running, NodeInv, Over
<1>3. \A n \in Nodes :
          nstatus'[e][n] = IF nstatus[e][n] = "pending" THEN "failed" ELSE nstatus[e][n]
    BY DEF NothingLeft, EngineTypeOK
<1>4. ASSUME NEW n \in Nodes
      PROVE  job[e][n] = "none" <=> \E p \in Preds[n] : job[e][p] \in {"none", "bad"}
  <2>1. NodeInv(e, n) /\ \A p \in Preds[n] : p \in Nodes /\ NodeInv(e, p)
      BY WorkflowAssumption
  <2>2. ASSUME job[e][n] = "none" PROVE \E p \in Preds[n] : job[e][p] \in {"none", "bad"}
    <3>1. nstatus[e][n] = "pending"
        BY <1>1, <1>2, <2>1, <2>2 DEF NodeInv, Over, EngineTypeOK
    <3>2. PICK p \in Preds[n] : nstatus[e][p] # "success"
        BY <3>1 DEF NothingLeft, Eligible
    <3>3. nstatus[e][p] \in {"pending", "failed"}
        BY <1>2, <2>1, <3>2 DEF EngineTypeOK
    <3>4. QED
        BY <1>1, <2>1, <3>2, <3>3 DEF NodeInv, Over
  <2>3. QED
      BY <2>1, <2>2 DEF NodeInv
<1>5. QED
    BY <1>1, <1>2, <1>3, <1>4 DEF SingleInv, Uncancelled, Over

\* While another call has not begun, it takes no step but its first.
LEMMA OthersWait ==
    ASSUME NEW e \in Calls, IInv, OnlyCall(e), NEW c \in Calls \ {e}
    PROVE  ~CallStep(c) /\ ~PoolStep(c) /\ (Execute(c) => ~OnlyCall(e)')
<1>1. at[c] = "uncalled"
    BY DEF OnlyCall
<1>2. ~CallStep(c)
    BY <1>1 DEF CallStep, GoOn, SeeCancel, SubmitStep, Submit, NothingLeft, Collect, Drain,
       Finish, Advance
<1>3. \A n \in Nodes : job[c][n] = "none"
    BY <1>1 DEF IInv, NodeInv
<1>4. ~PoolStep(c)
    BY <1>3 DEF PoolStep, StartJob, EndJob
<1>5. Execute(c) => at'[c] # "uncalled"
    BY DEF Execute, Advance, IInv, EngineTypeOK
<1>6. QED
    BY <1>2, <1>4, <1>5 DEF OnlyCall

\* Every step of the call, and of its pool and clients.
LEMMA SingleNext ==
    ASSUME NEW e \in Calls, IInv, SingleInv(e),
           \/ Pause \/ Resume \/ Cancel \/ UNCHANGED engineVars
           \/ Execute(e) \/ CallStep(e) \/ PoolStep(e)
    PROVE  SingleInv(e)'
<1> USE DEF IInv
<1>1. \A n \in Nodes : NodeInv(e, n) /\ Preds[n] \subseteq Nodes
    BY WorkflowAssumption
<1>2. CASE UNCHANGED engineVars
    BY <1>2 DEF engineVars, SingleInv, Uncancelled, Over
<1>3. CASE Pause \/ Resume \/ Cancel
    BY <1>3 DEF Pause, Resume, Cancel, SingleInv, Uncancelled, Over, Ended
<1>4. CASE Execute(e)
    BY <1>1, <1>4 DEF Execute, Advance, EngineTypeOK, SingleInv, Uncancelled, Over, NodeInv
<1>5. CASE GoOn(e) \/ Drain(e)
  <2>1. UNCHANGED <<wstatus, nstatus, job, result>> /\ (Over(e)' => Over(e)) /\ at[e] # "returned"
      BY <1>5 DEF GoOn, Drain, Advance, EngineTypeOK, Over
  <2>2. QED
      BY <2>1 DEF SingleInv, Uncancelled
<1>6. CASE SeeCancel(e)
  <2>1. /\ at[e] = "turn" /\ at'[e] = "drain" /\ wstatus = "cancelled"
        /\ UNCHANGED <<wstatus, job, result>>
      BY <1>6 DEF SeeCancel, Advance, EngineTypeOK
  <2>2. \A n \in Nodes :
            nstatus'[e][n] = IF nstatus[e][n] \in {"pending", "running"}
                             THEN "cancelled" ELSE nstatus[e][n]
      BY <1>6 DEF SeeCancel, EngineTypeOK
  <2>3. ASSUME Uncancelled(e)', NEW n \in Nodes
        PROVE  /\ nstatus'[e][n] # "running"
               /\ job'[e][n] = "none" <=> \E p \in Preds[n] : job'[e][p] \in {"none", "bad"}
    <3>1. \A k \in Nodes : nstatus[e][k] \in {"success", "failed"}
        BY <2>2, <2>3, <2>1, <1>1 DEF Uncancelled, EngineTypeOK, NodeInv, Over
    <3>2. \A k \in Nodes : job[e][k] \in {"ok", "bad"}
        BY <1>1, <2>1, <3>1 DEF NodeInv, Over
    <3>3. QED
        BY <1>1, <2>1, <2>2, <3>1, <3>2 DEF NodeInv
  <2>4. QED
      BY <2>1, <2>3 DEF SingleInv, Over
<1>7. CASE Submit(e)
  <2>1. at'[e] = "wait" /\ UNCHANGED <<wstatus, result>> /\ at[e] = "submit"
      BY <1>7 DEF Submit, Advance, EngineTypeOK
  <2>2. \A n \in Nodes : nstatus'[e][n] = "cancelled" => nstatus[e][n] = "cancelled"
      BY <1>7 DEF Submit, EngineTypeOK
  <2>3. QED
      BY <2>1, <2>2 DEF SingleInv, Uncancelled, Over
<1>8. CASE NothingLeft(e)
    BY <1>8, LeftOut
<1>9. CASE Collect(e)
  <2>1. at'[e] = "turn" /\ UNCHANGED <<wstatus, result>> /\ at[e] = "wait"
      BY <1>9 DEF Collect, Advance, EngineTypeOK
  <2>2. \A n \in Nodes : nstatus'[e][n] = "cancelled" => nstatus[e][n] = "cancelled"
      BY <1>9 DEF Collect, EngineTypeOK
  <2>3. QED
      BY <2>1, <2>2 DEF SingleInv, Uncancelled, Over
<1>10. CASE Finish(e)
    BY <1>10 DEF Finish, Advance, AllSuccess, EngineTypeOK, SingleInv, Uncancelled, Over, Ended
<1>11. CASE PoolStep(e)
  <2>1. UNCHANGED <<wstatus, at, nstatus, result>>
      BY <1>11, PoolFacts
  <2>2. ASSUME Over(e), Uncancelled(e), NEW n \in Nodes PROVE job'[e][n] = job[e][n]
    <3>1. nstatus[e][n] \in {"success", "failed"}
        BY <1>1, <2>2 DEF SingleInv, Uncancelled, NodeInv, EngineTypeOK
    <3>2. job[e][n] \in {"none", "ok", "bad"}
        BY <1>1, <3>1 DEF NodeInv
    <3>3. QED
        BY <1>11, <3>2, PoolFacts
  <2>3. ASSUME Over(e), Uncancelled(e), NEW n \in Nodes
        PROVE  job'[e][n] = "none" <=> \E p \in Preds[n] : job'[e][p] \in {"none", "bad"}
      BY <1>1, <2>2, <2>3 DEF SingleInv
  <2>4. QED
      BY <2>1, <2>3 DEF SingleInv, Uncancelled, Over
<1>12. QED
    BY <1>2, <1>3, <1>4, <1>5, <1>6, <1>7, <1>8, <1>9, <1>10, <1>11
    DEF CallStep, SubmitStep

\* Until another call begins, what SingleInv says of a call stays true.
LEMMA SingleKept ==
    ASSUME NEW e \in Calls, IInv, OnlyCall(e) => SingleInv(e), [EngineNext]_engineVars, OnlyCall(e)'
    PROVE  SingleInv(e)'
<1>1. OnlyCall(e)
  <2>1. \A c \in Calls : at[c] # "uncalled" => at'[c] # "uncalled"
    <3>1. CASE \E d \in Calls : PoolStep(d)
        BY <3>1, PoolFacts DEF IInv
    <3>2. CASE Pause \/ Resume \/ Cancel \/ UNCHANGED engineVars
        BY <3>2 DEF Pause, Resume, Cancel, engineVars
    <3>3. ASSUME NEW d \in Calls, Execute(d) \/ CallStep(d)
          PROVE  \A c \in Calls : at[c] # "uncalled" => at'[c] # "uncalled"
        BY <3>3 DEF Execute, CallStep, GoOn, SeeCancel, SubmitStep, Submit, NothingLeft, Collect,
           Drain, Finish, Advance, IInv, EngineTypeOK
    <3>4. QED
        BY <3>1, <3>2, <3>3 DEF EngineNext
  <2>2. QED
      BY <2>1 DEF OnlyCall
<1>2. \/ Pause \/ Resume \/ Cancel \/ UNCHANGED engineVars
      \/ Execute(e) \/ CallStep(e) \/ PoolStep(e)
    BY <1>1, OthersWait DEF EngineNext
<1>3. QED
    BY <1>1, <1>2, SingleNext

\* The invariant of a call that has the workflow to itself.
LEMMA SingleInvariance ==
    EngineSpec => [](IInv /\ \A e \in Calls : OnlyCall(e) => SingleInv(e))
<1> DEFINE Both == IInv /\ \A e \in Calls : OnlyCall(e) => SingleInv(e)
<1>1. EngineInit => Both
    BY InitInv, SingleInit
<1>2. Both /\ [EngineNext]_engineVars => Both'
    BY NextInv, SingleKept
<1>3. QED
    BY <1>1, <1>2, PTL DEF EngineSpec

\* Without a cancel a failure holds up its descendants and nothing else.
THEOREM FailureIsContained == EngineSpec => []FailureStopsDescendantsOnly
<1>1. IInv /\ (\A e \in Calls : OnlyCall(e) => SingleInv(e)) => FailureStopsDescendantsOnly
    BY DEF IInv, SingleInv, FailureStopsDescendantsOnly, Over
<1>2. QED
    BY <1>1, SingleInvariance, PTL

\* COMPLETED means that every plan succeeded; FAILED means that one did not,
\* because a graph without cycles cannot get stuck in any other way.
THEOREM ResultIsTrue == EngineSpec => []ResultReflectsTheNodes
<1>1. ASSUME NEW e \in Calls, IInv, SingleInv(e), result[e] = "failed"
      PROVE  \E n \in Nodes : job[e][n] = "bad"
  <2>1. SUFFICES ASSUME \A n \in Nodes : job[e][n] # "bad" PROVE FALSE
      OBVIOUS
  <2> DEFINE skipped == {n \in Nodes : job[e][n] = "none"}
  <2>2. Over(e) /\ Uncancelled(e)
      BY <1>1 DEF SingleInv, Over
  <2>3. PICK k \in Nodes : nstatus[e][k] # "success"
      BY <1>1 DEF SingleInv
  <2>4. k \in skipped
      BY <1>1, <2>1, <2>2, <2>3 DEF IInv, EngineTypeOK, NodeInv, SingleInv, Uncancelled
  <2>5. PICK n \in skipped : Preds[n] \cap skipped = {}
      BY <2>4, WorkflowAssumption
  <2>6. PICK p \in Preds[n] : job[e][p] \in {"none", "bad"}
      BY <1>1, <2>2, <2>5 DEF SingleInv
  <2>7. p \in Nodes /\ job[e][p] = "none"
      BY <2>1, <2>5, <2>6, WorkflowAssumption
  <2>8. QED
      BY <2>5, <2>7
<1>2. IInv /\ (\A e \in Calls : OnlyCall(e) => SingleInv(e)) => ResultReflectsTheNodes
    BY <1>1 DEF IInv, ResultReflectsTheNodes
<1>3. QED
    BY <1>2, SingleInvariance, PTL

\* All three together: the outcome is what the nodes did, and stands.
THEOREM OutcomesStand == EngineSpec => OutcomeStands
<1>1. FailureStopsDescendantsOnly' /\ ResultReflectsTheNodes' /\ [CancelStands]_engineVars =>
          [FailureStopsDescendantsOnly' /\ ResultReflectsTheNodes' /\ CancelStands]_engineVars
    OBVIOUS
<1> QED
    BY <1>1, FailureIsContained, ResultIsTrue, CancelSticks, PTL DEF OutcomeStands, CancelIsFinal

---------------------------------------------------------------------------
(* Each call's pool and TaskExecution. *)

\* A thread that starts a node finds it submitted, never run before.
LEMMA StartJobEnters ==
    ASSUME IInv, NEW e \in Calls, NEW n \in Nodes, StartJob(e, n) PROVE Pool(e)!Enter(n)
<1> DEFINE E == {k \in Nodes : job[e][k] \in {"ok", "bad"}}
<1>1. /\ n \in Nodes \ (Busy(e) \cup E)
      /\ Busy(e)' = Busy(e) \cup {n} /\ E' = E
    BY DEF IInv, EngineTypeOK, StartJob, Busy
<1>2. Cardinality(Busy(e)) < Width
    BY DEF StartJob
<1> HIDE DEF E
<1>3. Pool(e)!Cardinality(Busy(e)) = Cardinality(Busy(e))
    BY DEF Pool!Cardinality, Cardinality
<1>4. QED
    BY <1>1, <1>2, <1>3 DEF Pool!Enter, E

\* A node that comes back has been carried out, once and for all.
LEMMA EndJobLeaves ==
    ASSUME IInv, NEW e \in Calls, NEW n \in Nodes, EndJob(e, n) PROVE Pool(e)!Leave(n)
BY DEF IInv, EngineTypeOK, EndJob, Busy, Pool!Leave

\* Nobody else takes a node into a pool or out of it.
LEMMA PoolRests ==
    ASSUME IInv, NEW e \in Calls, [EngineNext]_engineVars,
           \A n \in Nodes : ~StartJob(e, n) /\ ~EndJob(e, n)
    PROVE  \A n \in Nodes : \/ job'[e][n] = job[e][n]
                            \/ job[e][n] = "none" /\ job'[e][n] = "submitted"
<1> USE DEF IInv, EngineTypeOK
<1>1. CASE Pause \/ Resume \/ Cancel \/ UNCHANGED engineVars
    BY <1>1 DEF Pause, Resume, Cancel, engineVars
<1>2. ASSUME NEW c \in Calls, Execute(c) \/ CallStep(c)
      PROVE  \A n \in Nodes : \/ job'[e][n] = job[e][n]
                              \/ job[e][n] = "none" /\ job'[e][n] = "submitted"
  <2>1. CASE Submit(c)
    <3>1. \A n \in Nodes : n \in Eligible(c) => job[c][n] = "none"
        BY DEF Eligible, NodeInv
    <3>2. QED
        BY <2>1, <3>1 DEF Submit
  <2>2. CASE ~Submit(c)
      BY <1>2, <2>2 DEF Execute, CallStep, GoOn, SeeCancel, SubmitStep, NothingLeft, Collect, Drain, Finish
  <2>3. QED
      BY <2>1, <2>2
<1>3. ASSUME NEW c \in Calls, NEW k \in Nodes, StartJob(c, k) \/ EndJob(c, k)
      PROVE  \A n \in Nodes : job'[e][n] = job[e][n]
  <2>1. c # e
      BY <1>3
  <2>2. QED
      BY <1>3, <2>1 DEF StartJob, EndJob
<1>4. QED
    BY <1>1, <1>2, <1>3 DEF EngineNext, PoolStep

\* The pool of each execute() implements TaskExecution: whatever the loop, the
\* clients and the other calls do, no node's plan is run twice by one call, and
\* never more of them at a time than the pool has threads.
THEOREM EnginePoolsRunNodesOnce ==
    ASSUME NEW e \in Calls PROVE EngineSpec => Pool(e)!Spec
<1>1. EngineInit => Pool(e)!Init
    BY DEF EngineInit, Busy, Pool!Init
<1>2. IInv /\ [EngineNext]_engineVars => [Pool(e)!Next]_(Pool(e)!executionVars)
  <2> SUFFICES ASSUME IInv, [EngineNext]_engineVars
               PROVE  [Pool(e)!Next]_(Pool(e)!executionVars)
      OBVIOUS
  <2>1. ASSUME NEW n \in Nodes, StartJob(e, n) \/ EndJob(e, n) PROVE Pool(e)!Next
      BY <2>1, StartJobEnters, EndJobLeaves DEF Pool!Next
  <2>2. CASE \A n \in Nodes : ~StartJob(e, n) /\ ~EndJob(e, n)
    <3>1. /\ Busy(e)' = Busy(e)
          /\ {n \in Nodes : job[e][n] \in {"ok", "bad"}}' = {n \in Nodes : job[e][n] \in {"ok", "bad"}}
        BY <2>2, PoolRests DEF Busy
    <3>2. QED
        BY <3>1 DEF Pool!executionVars
  <2>3. QED
      BY <2>1, <2>2
<1>3. QED
    BY <1>1, <1>2, EngineInvariance, PTL DEF EngineSpec, Pool!Spec

---------------------------------------------------------------------------
(* Why execute() returns.  Fairness is beyond the prover; what fairness has*)
(* to work with is not: each call has a number of steps left that its own  *)
(* steps lower and nobody raises, and until it returns one of these steps  *)
(* can be taken, unless the workflow is paused.                            *)

Unsettled(c) == {n \in Nodes : nstatus[c][n] \in {"pending", "running"}}
NotStarted(c) == {n \in Nodes : job[c][n] \in {"none", "submitted"}}
NotBack(c) == NotStarted(c) \cup Busy(c)
NeverSubmitted(c) == {n \in Nodes : job[c][n] = "none"}

PlacesLeft == [uncalled |-> 6, turn |-> 5, submit |-> 4, wait |-> 3, drain |-> 2,
               finish |-> 1, returned |-> 0]

StepsLeft(c) ==
    6 * Cardinality(Unsettled(c)) + PlacesLeft[at[c]]
      + Cardinality(NeverSubmitted(c)) + Cardinality(NotStarted(c)) + Cardinality(NotBack(c))

\* Each step a call's thread or its pool takes brings its end nearer, and no
\* other step puts it off.
EveryStepCounts ==
    \A c \in Calls :
        /\ StepsLeft(c)' <= StepsLeft(c)
        /\ Execute(c) \/ CallStep(c) \/ PoolStep(c) => StepsLeft(c)' < StepsLeft(c)

\* What a call's thread or a thread of its pool can do next.
CanGoOn(c) ==
    \/ at[c] = "turn" /\ wstatus # "paused"
    \/ at[c] \in {"submit", "finish"}
    \/ at[c] = "wait" /\ Done(c) # {}
    \/ at[c] = "drain" /\ \A n \in Nodes : job[c][n] \notin {"submitted", "executing"}
    \/ Busy(c) # {}
    \/ \E n \in Nodes : job[c][n] = "submitted" /\ Cardinality(Busy(c)) < Width

NoCallHangs ==
    \A c \in Calls :
        at[c] \in {"uncalled", "returned"} \/ (at[c] = "turn" /\ wstatus = "paused") \/ CanGoOn(c)

\* A part of the nodes, and what is left of it.
LEMMA Fewer ==
    ASSUME NEW S \in SUBSET Nodes, NEW T \in SUBSET S
    PROVE  /\ Cardinality(S) \in Nat /\ Cardinality(T) \in Nat
           /\ Cardinality(T) <= Cardinality(S)
           /\ T # S => Cardinality(T) < Cardinality(S)
<1>1. IsFiniteSet(S)
    BY WorkflowAssumption, FS_Subset
<1>2. IsFiniteSet(T) /\ Cardinality(T) <= Cardinality(S) /\ (Cardinality(S) = Cardinality(T) => S = T)
    BY <1>1, FS_Subset
<1>3. QED
    BY <1>1, <1>2, FS_CardinalityType

\* The sets that are counted do not grow.
SetsShrink(c) ==
    /\ Unsettled(c)' \subseteq Unsettled(c)
    /\ NeverSubmitted(c)' \subseteq NeverSubmitted(c)
    /\ NotStarted(c)' \subseteq NotStarted(c)
    /\ NotBack(c)' \subseteq NotBack(c)

\* One of them lost a node, or the call went on to a later place.
LEMMA StepsGoDown ==
    ASSUME EngineTypeOK, EngineTypeOK', NEW c \in Calls, SetsShrink(c)
    PROVE  /\ StepsLeft(c)' \in Nat
           /\ at'[c] = at[c] => StepsLeft(c)' <= StepsLeft(c)
           /\ at'[c] = at[c] /\ (NotStarted(c)' # NotStarted(c) \/ NotBack(c)' # NotBack(c))
                 => StepsLeft(c)' < StepsLeft(c)
           /\ PlacesLeft[at'[c]] < PlacesLeft[at[c]] => StepsLeft(c)' < StepsLeft(c)
           /\ at'[c] # "uncalled" /\ Unsettled(c)' # Unsettled(c) => StepsLeft(c)' < StepsLeft(c)
<1> DEFINE u1 == Cardinality(Unsettled(c))       u2 == Cardinality(Unsettled(c)')
           v1 == Cardinality(NeverSubmitted(c))  v2 == Cardinality(NeverSubmitted(c)')
           w1 == Cardinality(NotStarted(c))      w2 == Cardinality(NotStarted(c)')
           x1 == Cardinality(NotBack(c))         x2 == Cardinality(NotBack(c)')
           p1 == PlacesLeft[at[c]]               p2 == PlacesLeft[at'[c]]
<1>1. /\ u1 \in Nat /\ u2 \in Nat /\ u2 <= u1 /\ (Unsettled(c)' # Unsettled(c) => u2 < u1)
      /\ v1 \in Nat /\ v2 \in Nat /\ v2 <= v1
      /\ w1 \in Nat /\ w2 \in Nat /\ w2 <= w1 /\ (NotStarted(c)' # NotStarted(c) => w2 < w1)
      /\ x1 \in Nat /\ x2 \in Nat /\ x2 <= x1 /\ (NotBack(c)' # NotBack(c) => x2 < x1)
  <2>1. /\ Unsettled(c) \in SUBSET Nodes /\ NeverSubmitted(c) \in SUBSET Nodes
        /\ NotStarted(c) \in SUBSET Nodes /\ NotBack(c) \in SUBSET Nodes
      BY DEF Unsettled, NeverSubmitted, NotStarted, NotBack, Busy
  <2>2. QED
      BY <2>1, Fewer DEF SetsShrink
<1>2. /\ p1 \in 0..6 /\ p2 \in 0..6
      /\ at'[c] # "uncalled" => p2 <= 5
    BY DEF EngineTypeOK, PlacesLeft
<1>3. /\ StepsLeft(c) = 6 * u1 + p1 + v1 + w1 + x1
      /\ StepsLeft(c)' = 6 * u2 + p2 + v2 + w2 + x2
    BY DEF StepsLeft, PlacesLeft
<1>4. at'[c] = at[c] => p2 = p1
    OBVIOUS
<1> HIDE DEF u1, u2, v1, v2, w1, w2, x1, x2, p1, p2
<1>5. at'[c] = at[c] => 6 * u2 + p2 + v2 + w2 + x2 <= 6 * u1 + p1 + v1 + w1 + x1
    BY <1>1, <1>2, <1>4
<1>6. at'[c] = at[c] /\ (w2 < w1 \/ x2 < x1) => 6 * u2 + p2 + v2 + w2 + x2 < 6 * u1 + p1 + v1 + w1 + x1
    BY <1>1, <1>2, <1>4
<1>7. p2 < p1 => 6 * u2 + p2 + v2 + w2 + x2 < 6 * u1 + p1 + v1 + w1 + x1
    BY <1>1, <1>2
<1>8. 6 * u2 + p2 + v2 + w2 + x2 \in Nat
    BY <1>1, <1>2
<1>9. p2 <= 5 /\ u2 < u1 => 6 * u2 + p2 + v2 + w2 + x2 < 6 * u1 + p1 + v1 + w1 + x1
    BY <1>1, <1>2
<1>10. QED
    BY <1>1, <1>2, <1>3, <1>8, <1>5, <1>6, <1>7, <1>9 DEF p1, p2

\* The steps of the calling thread.
LEMMA CallCountsDown ==
    ASSUME IInv, IInv', NEW c \in Calls, Execute(c) \/ CallStep(c)
    PROVE  StepsLeft(c)' \in Nat /\ StepsLeft(c)' < StepsLeft(c)
<1> USE DEF IInv
<1>0. /\ nstatus[c] \in [Nodes -> {"pending", "running", "success", "failed", "cancelled"}]
      /\ \A n \in Nodes : nstatus[c][n] = "pending" => job[c][n] = "none"
    BY DEF EngineTypeOK, NodeInv
<1>1. CASE Execute(c) \/ GoOn(c) \/ SeeCancel(c) \/ NothingLeft(c) \/ Drain(c) \/ Finish(c)
  <2>1. SetsShrink(c)
      BY <1>0, <1>1 DEF EngineTypeOK, SetsShrink, Unsettled, NeverSubmitted, NotStarted, NotBack, Busy,
                        Execute, GoOn, SeeCancel, NothingLeft, Drain, Finish
  <2>2. PlacesLeft[at'[c]] < PlacesLeft[at[c]]
      BY <1>1 DEF EngineTypeOK, PlacesLeft, Advance,
                  Execute, GoOn, SeeCancel, NothingLeft, Drain, Finish
  <2>3. QED
      BY <2>1, <2>2, StepsGoDown
<1>2. CASE Submit(c)
  <2>1. /\ \A n \in Nodes : nstatus'[c][n] = IF n \in Eligible(c) THEN "running" ELSE nstatus[c][n]
        /\ \A n \in Nodes : job'[c][n] = IF n \in Eligible(c) THEN "submitted" ELSE job[c][n]
        /\ \A n \in Eligible(c) : nstatus[c][n] = "pending" /\ job[c][n] = "none"
      BY <1>0, <1>2 DEF EngineTypeOK, Submit, Eligible
  <2>2. SetsShrink(c)
      BY <2>1 DEF SetsShrink, Unsettled, NeverSubmitted, NotStarted, NotBack, Busy
  <2>3. PlacesLeft[at'[c]] < PlacesLeft[at[c]]
      BY <1>2 DEF EngineTypeOK, PlacesLeft, Advance, Submit
  <2>4. QED
      BY <2>2, <2>3, StepsGoDown
<1>3. CASE Collect(c)
  <2>1. /\ \A n \in Nodes : n \notin Done(c) => nstatus'[c][n] = nstatus[c][n]
        /\ \A n \in Done(c) : nstatus[c][n] = "running" /\ nstatus'[c][n] \in {"success", "failed"}
        /\ Done(c) # {} /\ job' = job /\ Done(c) \subseteq Nodes
      BY <1>3 DEF EngineTypeOK, Collect, Done, Running
  <2>2. SetsShrink(c)
      BY <2>1 DEF SetsShrink, Unsettled, NeverSubmitted, NotStarted, NotBack, Busy
  <2>3. Unsettled(c)' # Unsettled(c)
      BY <2>1 DEF Unsettled
  <2>4. at'[c] # "uncalled"
      BY <1>3 DEF EngineTypeOK, Collect, Advance
  <2>5. QED
      BY <2>2, <2>3, <2>4, StepsGoDown
<1>4. QED
    BY <1>1, <1>2, <1>3 DEF CallStep, SubmitStep

\* The steps of the pool.
LEMMA PoolCountsDown ==
    ASSUME IInv, IInv', NEW c \in Calls, PoolStep(c)
    PROVE  StepsLeft(c)' \in Nat /\ StepsLeft(c)' < StepsLeft(c)
<1>1. PICK k \in Nodes : StartJob(c, k) \/ EndJob(c, k)
    BY DEF PoolStep
<1>2. PICK r \in {"executing", "ok", "bad"} :
          /\ \A n \in Nodes : job'[c][n] = IF n = k THEN r ELSE job[c][n]
          /\ \/ job[c][k] = "submitted" /\ r = "executing"
             \/ job[c][k] = "executing" /\ r \in {"ok", "bad"}
    BY <1>1 DEF StartJob, EndJob, IInv, EngineTypeOK
<1>3. nstatus' = nstatus /\ at' = at
    BY <1>1 DEF StartJob, EndJob
<1>4. SetsShrink(c)
    BY <1>2, <1>3 DEF SetsShrink, Unsettled, NeverSubmitted, NotStarted, NotBack, Busy
<1>5. NotStarted(c)' # NotStarted(c) \/ NotBack(c)' # NotBack(c)
    BY <1>2 DEF NotStarted, NotBack, Busy
<1>6. QED
    BY <1>3, <1>4, <1>5, StepsGoDown DEF IInv

\* The others leave a call where it is.
LEMMA OthersDoNotCount ==
    ASSUME IInv, IInv', [EngineNext]_engineVars, NEW c \in Calls,
           ~(Execute(c) \/ CallStep(c) \/ PoolStep(c))
    PROVE  StepsLeft(c)' = StepsLeft(c)
<1>1. ASSUME at'[c] = at[c], nstatus'[c] = nstatus[c], job'[c] = job[c]
      PROVE  StepsLeft(c)' = StepsLeft(c)
    BY <1>1 DEF StepsLeft, PlacesLeft, Unsettled, NeverSubmitted, NotStarted, NotBack, Busy
<1>2. CASE Pause \/ Resume \/ Cancel \/ UNCHANGED engineVars
    BY <1>1, <1>2 DEF Pause, Resume, Cancel, engineVars
<1>3. ASSUME NEW e \in Calls, e # c, Execute(e) \/ CallStep(e) \/ PoolStep(e)
      PROVE  StepsLeft(c)' = StepsLeft(c)
  <2>1. CASE Execute(e) \/ CallStep(e)
      BY <1>1, <1>3, <2>1 DEF IInv, EngineTypeOK, Advance, Execute, CallStep, GoOn, SeeCancel, SubmitStep,
                              Submit, NothingLeft, Collect, Drain, Finish
  <2>2. CASE PoolStep(e)
      BY <1>1, <1>3, <2>2 DEF IInv, EngineTypeOK, PoolStep, StartJob, EndJob
  <2>3. QED
      BY <1>3, <2>1, <2>2
<1>4. QED
    BY <1>2, <1>3 DEF EngineNext

\* Nine steps for each node and six for the call are all an execute() and its
\* pool can take, whatever happens: no turn of its loop is for nothing.
THEOREM ExecuteIsBounded ==
    EngineSpec => /\ [](\A c \in Calls : StepsLeft(c) \in 0..(9 * Cardinality(Nodes) + 6))
                  /\ [][EveryStepCounts]_engineVars
<1>1. ASSUME IInv, NEW c \in Calls PROVE StepsLeft(c) \in 0..(9 * Cardinality(Nodes) + 6)
  <2> DEFINE N == Cardinality(Nodes)            u == Cardinality(Unsettled(c))
             v == Cardinality(NeverSubmitted(c)) w == Cardinality(NotStarted(c))
             x == Cardinality(NotBack(c))        p == PlacesLeft[at[c]]
  <2>1. /\ Unsettled(c) \in SUBSET Nodes /\ NeverSubmitted(c) \in SUBSET Nodes
        /\ NotStarted(c) \in SUBSET Nodes /\ NotBack(c) \in SUBSET Nodes
      BY DEF Unsettled, NeverSubmitted, NotStarted, NotBack, Busy
  <2>2. /\ N \in Nat /\ u \in Nat /\ v \in Nat /\ w \in Nat /\ x \in Nat
        /\ u <= N /\ v <= N /\ w <= N /\ x <= N
      BY <2>1, Fewer
  <2>3. p \in 0..6
      BY <1>1 DEF IInv, EngineTypeOK, PlacesLeft
  <2>4. StepsLeft(c) = 6 * u + p + v + w + x
      BY DEF StepsLeft
  <2> HIDE DEF N, u, v, w, x, p
  <2>5. 6 * u + p + v + w + x \in 0..(9 * N + 6)
      BY <2>2, <2>3
  <2>6. QED
      BY <2>4, <2>5 DEF N
<1>2. IInv /\ IInv' /\ [EngineNext]_engineVars => [EveryStepCounts]_engineVars
  <2> SUFFICES ASSUME IInv, IInv', [EngineNext]_engineVars, NEW c \in Calls
               PROVE  /\ StepsLeft(c)' <= StepsLeft(c)
                      /\ Execute(c) \/ CallStep(c) \/ PoolStep(c) => StepsLeft(c)' < StepsLeft(c)
      BY DEF EveryStepCounts
  <2>1. CASE Execute(c) \/ CallStep(c) \/ PoolStep(c)
    <3>1. StepsLeft(c)' \in Nat /\ StepsLeft(c)' < StepsLeft(c)
        BY <2>1, CallCountsDown, PoolCountsDown
    <3>2. StepsLeft(c) \in Int
        BY <1>1
    <3>3. QED
        BY <3>1, <3>2
  <2>2. CASE ~(Execute(c) \/ CallStep(c) \/ PoolStep(c))
    <3>1. StepsLeft(c)' = StepsLeft(c) /\ StepsLeft(c) \in Int
        BY <1>1, <2>2, OthersDoNotCount
    <3>2. QED
        BY <2>2, <3>1
  <2>3. QED
      BY <2>1, <2>2
<1>3. IInv => \A c \in Calls : StepsLeft(c) \in 0..(9 * Cardinality(Nodes) + 6)
    BY <1>1
<1>4. QED
    BY <1>2, <1>3, EngineInvariance, PTL DEF EngineSpec

\* A call that waits for a node has one in the pool.
WaitsForSomeone == \A c \in Calls : at[c] = "wait" => Running(c) # {}

LEMMA WaitingIsFounded ==
    IInv /\ WaitsForSomeone /\ [EngineNext]_engineVars => WaitsForSomeone'
<1> SUFFICES ASSUME IInv, WaitsForSomeone, [EngineNext]_engineVars, NEW c \in Calls, at'[c] = "wait"
             PROVE  Running(c)' # {}
    BY DEF WaitsForSomeone
<1>1. CASE Submit(c)
  <2>1. \A n \in Eligible(c) \cup Running(c) : n \in Nodes /\ nstatus'[c][n] = "running"
      BY <1>1 DEF IInv, EngineTypeOK, Submit, Eligible, Running
  <2>2. QED
      BY <1>1, <2>1 DEF Submit, Running
<1>2. CASE ~Submit(c)
  <2>1. at[c] = "wait" /\ nstatus'[c] = nstatus[c]
    <3>1. CASE Pause \/ Resume \/ Cancel \/ UNCHANGED engineVars
        BY <3>1 DEF Pause, Resume, Cancel, engineVars
    <3>2. ASSUME NEW e \in Calls, Execute(e) \/ CallStep(e)
          PROVE  at[c] = "wait" /\ nstatus'[c] = nstatus[c]
        BY <1>2, <3>2 DEF IInv, EngineTypeOK, Advance, Execute, CallStep, GoOn, SeeCancel, SubmitStep,
                          Submit, NothingLeft, Collect, Drain, Finish
    <3>3. ASSUME NEW e \in Calls, PoolStep(e) PROVE at[c] = "wait" /\ nstatus'[c] = nstatus[c]
        BY <3>3, PoolFacts DEF IInv
    <3>4. QED
        BY <3>1, <3>2, <3>3 DEF EngineNext
  <2>2. QED
      BY <2>1 DEF WaitsForSomeone, Running
<1>3. QED
    BY <1>1, <1>2

\* An execute() that has not returned can go on, or its pool can, unless the
\* workflow is paused: there is no deadlock with any graph and any pool.
THEOREM CallsDoNotHang == EngineSpec => []NoCallHangs
<1>1. ASSUME IInv, NEW c \in Calls, NEW n \in Nodes, job[c][n] \in {"submitted", "executing"}
      PROVE  CanGoOn(c)
  <2>1. CASE Busy(c) # {}
      BY <2>1 DEF CanGoOn
  <2>2. CASE Busy(c) = {}
    <3>1. Cardinality(Busy(c)) < Width
        BY <2>2, FS_EmptySet, WorkflowAssumption
    <3>2. job[c][n] = "submitted"
        BY <1>1, <2>2 DEF Busy
    <3>3. QED
        BY <3>1, <3>2 DEF CanGoOn
  <2>3. QED
      BY <2>1, <2>2
<1>2. ASSUME IInv, WaitsForSomeone, NEW c \in Calls, at[c] \notin {"uncalled", "returned"},
             ~(at[c] = "turn" /\ wstatus = "paused")
      PROVE  CanGoOn(c)
  <2>1. CASE at[c] \in {"turn", "submit", "finish"}
      BY <1>2, <2>1 DEF CanGoOn
  <2>2. CASE at[c] = "wait"
    <3>1. PICK n \in Nodes : nstatus[c][n] = "running"
        BY <1>2, <2>2 DEF WaitsForSomeone, Running
    <3>2. job[c][n] \in {"submitted", "executing", "ok", "bad"}
        BY <1>2, <3>1 DEF IInv, EngineTypeOK, NodeInv
    <3>3. job[c][n] \in {"ok", "bad"} => n \in Done(c)
        BY <3>1 DEF Done, Running
    <3>4. QED
        BY <1>1, <1>2, <2>2, <3>2, <3>3 DEF CanGoOn
  <2>3. CASE at[c] = "drain"
      BY <1>1, <1>2, <2>3 DEF CanGoOn
  <2>4. QED
      BY <1>2, <2>1, <2>2, <2>3 DEF IInv, EngineTypeOK
<1>3. IInv /\ WaitsForSomeone => NoCallHangs
    BY <1>2 DEF NoCallHangs
<1>4. EngineInit => WaitsForSomeone
    BY DEF EngineInit, WaitsForSomeone
<1>5. QED
    BY <1>3, <1>4, WaitingIsFounded, EngineInvariance, PTL DEF EngineSpec

---------------------------------------------------------------------------
(* validate(), for any graph.  The nodes being visited are a path without  *)
(* repetition; every successor of a visited node is visited, and every     *)
(* successor of a node being visited is visited, still to be looked at or  *)
(* the next node of the path.  A node whose visit ends is therefore a      *)
(* successor of no visited node: it comes before all of them.              *)

NextOnChain(n, m) == \E i \in 1..(Len(chain) - 1) : chain[i] = n /\ chain[i + 1] = m

ChainInv ==
    /\ \A n \in NodeIds : visited[n] = 1 <=> \E i \in 1..Len(chain) : chain[i] = n
    /\ \A i, j \in 1..Len(chain) : chain[i] = chain[j] => i = j
    /\ \A i \in 1..(Len(chain) - 1) : <<chain[i], chain[i + 1]>> \in graph.links

SeenInv ==
    /\ \A n \in NodeIds : visited[n] = 1 =>
          /\ ahead[n] \subseteq After(n)
          /\ \A m \in After(n) \ ahead[n] : visited[m] = 2 \/ NextOnChain(n, m)
    /\ \A n \in NodeIds : visited[n] = 2 => \A m \in After(n) : visited[m] = 2

\* Any visited nodes have one that none of them leads to.
DoneInv == \A S \in SUBSET {n \in NodeIds : visited[n] = 2} :
              S # {} => \E n \in S : \A m \in S : <<m, n>> \notin graph.links

ValidationInv ==
    /\ ValidationTypeOK /\ ChainInv /\ SeenInv /\ DoneInv
    /\ verdict = "searching" => graph.nodes # {} /\ LinksExist
    /\ ValidationIsExact

LEMMA ValidationStarts == ValidationInit => ValidationInv
BY DEF ValidationInit, ValidationInv, ValidationTypeOK, ChainInv, SeenInv, DoneInv,
       ValidationIsExact, NextOnChain

\* A step of the search gives no verdict, and the graph stays as it is.
LEMMA NoVerdict ==
    ASSUME ValidationInv, UNCHANGED <<graph, verdict>>
    PROVE  /\ verdict' = "searching" => graph'.nodes # {} /\ LinksExist'
           /\ ValidationIsExact'
BY DEF ValidationInv, ValidationIsExact, LinksExist, Ordered, Orphans, Connected

\* A step that only gives a verdict leaves the search as it is.
LEMMA SearchStays ==
    ASSUME ValidationInv, UNCHANGED <<graph, visited, chain, ahead>>
    PROVE  (ChainInv /\ SeenInv /\ DoneInv)'
<1>1. \A n \in NodeIds : After(n)' = After(n)
  BY DEF After
<1>2. \A n, m \in NodeIds : NextOnChain(n, m)' <=> NextOnChain(n, m)
  BY DEF NextOnChain
<1>3. chain \in Seq(NodeIds) /\ \A n \in NodeIds : After(n) \subseteq NodeIds
  BY DEF ValidationInv, ValidationTypeOK, After
<1>4. ChainInv'
  BY <1>1, <1>3 DEF ValidationInv, ChainInv
<1>5. SeenInv'
  BY <1>1, <1>2, <1>3 DEF ValidationInv, SeenInv
<1>6. DoneInv'
  BY DEF ValidationInv, DoneInv
<1> QED BY <1>4, <1>5, <1>6

LEMMA VisitKeeps ==
    ASSUME ValidationInv, NEW m \in NodeIds, visited[m] = 0, verdict = "searching",
           Visit(m), UNCHANGED <<graph, verdict>>,
           \/ chain = <<>> /\ ahead' = [ahead EXCEPT ![m] = After(m)]
           \/ /\ chain # <<>> /\ m \in ahead[Top]
              /\ ahead' = [ahead EXCEPT ![Top] = @ \ {m}, ![m] = After(m)]
    PROVE  ValidationInv'
<1> DEFINE c == Len(chain)
<1>1. /\ ValidationTypeOK /\ ChainInv /\ SeenInv /\ DoneInv
      /\ graph \in Graphs /\ visited \in [NodeIds -> 0..2] /\ chain \in Seq(NodeIds)
      /\ ahead \in [NodeIds -> SUBSET NodeIds] /\ c \in Nat
  BY DEF ValidationInv, ValidationTypeOK
<1>2. /\ visited' = [visited EXCEPT ![m] = 1] /\ visited' \in [NodeIds -> 0..2]
      /\ chain' = Append(chain, m) /\ chain' \in Seq(NodeIds) /\ Len(chain') = c + 1 /\ Len(chain') - 1 = c
      /\ chain'[c + 1] = m /\ \A i \in 1..c : chain'[i] = chain[i] /\ chain[i] \in NodeIds
  BY <1>1 DEF Visit
<1>3. \A n \in NodeIds : After(n) \subseteq NodeIds /\ After(n)' = After(n)
  BY DEF After
<1>4. chain # <<>> => /\ c \in 1..c /\ Top = chain[c] /\ Top \in NodeIds /\ visited[Top] = 1
                      /\ Top # m /\ m \in After(Top)
  BY <1>1, <1>2 DEF Top, ChainInv, SeenInv
<1>5. /\ ahead' \in [NodeIds -> SUBSET NodeIds] /\ ahead'[m] = After(m)
      /\ chain # <<>> => ahead'[Top] = ahead[Top] \ {m}
      /\ \A n \in NodeIds \ {m} : chain = <<>> \/ n # Top => ahead'[n] = ahead[n]
  <2>1. CASE chain = <<>> /\ ahead' = [ahead EXCEPT ![m] = After(m)]
    BY <2>1, <1>1, <1>3
  <2>2. CASE chain # <<>> /\ ahead' = [ahead EXCEPT ![Top] = @ \ {m}, ![m] = After(m)]
    BY <2>2, <1>1, <1>3, <1>4
  <2> QED BY <2>1, <2>2
<1>6. ValidationTypeOK'
  BY <1>1, <1>2, <1>5 DEF ValidationTypeOK
<1>7. \A i \in 1..c : chain[i] # m
  BY <1>1 DEF ChainInv
<1>8. ChainInv'
  <2>1. \A n \in NodeIds : visited'[n] = 1 <=> \E i \in 1..(c + 1) : chain'[i] = n
    <3> TAKE n \in NodeIds
    <3>1. CASE n = m
      BY <3>1, <1>1, <1>2
    <3>2. CASE n # m
      <4>1. (\E i \in 1..(c + 1) : chain'[i] = n) <=> \E i \in 1..c : chain[i] = n
        BY <3>2, <1>1, <1>2
      <4> QED BY <4>1, <3>2, <1>1, <1>2 DEF ChainInv
    <3> QED BY <3>1, <3>2
  <2>2. \A i, j \in 1..(c + 1) : chain'[i] = chain'[j] => i = j
    BY <1>1, <1>2, <1>7 DEF ChainInv
  <2>3. \A i \in 1..c : <<chain'[i], chain'[i + 1]>> \in graph'.links
    <3> TAKE i \in 1..c
    <3>1. CASE i = c
      <4>1. chain # <<>>
        BY <3>1, <1>1
      <4> QED BY <4>1, <3>1, <1>1, <1>2, <1>4 DEF After
    <3>2. CASE i # c
      <4>1. i \in 1..(c - 1) /\ i + 1 \in 1..c
        BY <3>2, <1>1
      <4> QED BY <4>1, <1>1, <1>2 DEF ChainInv
    <3> QED BY <3>1, <3>2
  <2> QED BY <2>1, <2>2, <2>3, <1>1, <1>2 DEF ChainInv
<1>9. SeenInv'
  <2>1. \A n, k \in NodeIds : NextOnChain(n, k) => NextOnChain(n, k)'
    BY <1>1, <1>2 DEF NextOnChain
  <2>2. \A n \in NodeIds : chain # <<>> /\ n = Top => NextOnChain(n, m)'
    BY <1>1, <1>2, <1>4 DEF NextOnChain
  <2>3. ASSUME NEW n \in NodeIds, visited'[n] = 1
        PROVE  /\ ahead'[n] \subseteq After(n)
               /\ \A k \in After(n) \ ahead'[n] : visited'[k] = 2 \/ NextOnChain(n, k)'
    <3>1. CASE n = m
      BY <3>1, <1>5
    <3>2. CASE n # m
      <4>1. visited[n] = 1
        BY <2>3, <3>2, <1>1, <1>2
      <4>2. \A k \in After(n) \ ahead[n] : visited'[k] = 2 \/ NextOnChain(n, k)'
        BY <4>1, <2>1, <1>1, <1>2, <1>3 DEF SeenInv
      <4>3. ahead[n] \subseteq After(n)
        BY <4>1, <1>1 DEF SeenInv
      <4>4. CASE chain # <<>> /\ n = Top
        BY <4>2, <4>3, <4>4, <2>2, <1>5
      <4>5. CASE chain = <<>> \/ n # Top
        BY <4>2, <4>3, <4>5, <3>2, <1>5
      <4> QED BY <4>4, <4>5
    <3> QED BY <3>1, <3>2
  <2>4. \A n \in NodeIds : visited'[n] = 2 => \A k \in After(n) : visited'[k] = 2
    BY <1>1, <1>2, <1>3 DEF SeenInv
  <2> QED BY <2>3, <2>4, <1>3 DEF SeenInv
<1>10. DoneInv'
  <2>1. \A n \in NodeIds : visited'[n] = 2 => visited[n] = 2
    BY <1>1, <1>2
  <2> QED BY <2>1, <1>1 DEF DoneInv
<1> QED BY <1>6, <1>8, <1>9, <1>10, NoVerdict DEF ValidationInv

LEMMA PassOverKeeps == ASSUME ValidationInv, NEW m \in NodeIds, PassOver(m) PROVE ValidationInv'
<1> USE DEF ValidationInv, ValidationTypeOK, PassOver
<1>1. ValidationTypeOK'
  BY DEF Top
<1>2. ChainInv' /\ DoneInv'
  BY DEF ChainInv, After, DoneInv
<1>3. SeenInv'
  BY DEF SeenInv, After, Top, NextOnChain
<1> QED BY <1>1, <1>2, <1>3, NoVerdict

LEMMA ReturnKeeps == ASSUME ValidationInv, Return PROVE ValidationInv'
<1> DEFINE c == Len(chain)
           v == Top
<1>1. /\ ValidationTypeOK /\ ChainInv /\ SeenInv /\ DoneInv
      /\ visited \in [NodeIds -> 0..2] /\ chain \in Seq(NodeIds) /\ chain # <<>>
      /\ ahead \in [NodeIds -> SUBSET NodeIds] /\ c \in Nat \ {0} /\ ahead' = ahead
  BY DEF ValidationInv, ValidationTypeOK, Return
<1>2. c \in 1..c /\ v = chain[c] /\ v \in NodeIds /\ visited[v] = 1 /\ ahead[v] = {}
  BY <1>1 DEF Top, ChainInv, Return
<1>3. /\ chain' \in Seq(NodeIds) /\ Len(chain') = c - 1
      /\ \A i \in 1..(c - 1) : chain'[i] = chain[i] /\ chain[i] \in NodeIds
  <2>1. chain' = SubSeq(chain, 1, c - 1)
    BY DEF Return
  <2>2. 1 \in 1..(c + 1) /\ c - 1 \in 0..c /\ Len(chain) = c
    BY <1>1
  <2>3. \A i \in 1..c : chain[i] \in NodeIds
    BY <1>1
  <2>4. chain' \in Seq(NodeIds) /\ Len(chain') = c - 1
    <3> DEFINE d == c - 1
    <3>0. c \in Nat /\ c # 0
      BY <1>1
    <3>1. 1 \in Int /\ d \in Int /\ d >= 0 /\ (1 <= d => d - 1 + 1 = d)
      <4> HIDE DEF c
      <4> QED BY <3>0
    <3>2. \A i \in 1..d : chain[i] \in NodeIds
      BY <2>3, <1>1
    <3> HIDE DEF d
    <3>3. SubSeq(chain, 1, d) \in Seq(NodeIds) /\ Len(SubSeq(chain, 1, d)) = IF 1 <= d THEN d - 1 + 1 ELSE 0
      BY <3>1, <3>2, SubSeqProperties
    <3>4. Len(SubSeq(chain, 1, d)) = d
      <4>1. ~(1 <= d) => d = 0
        BY <3>1
      <4> QED BY <3>1, <3>3, <4>1
    <3> QED BY <2>1, <3>3, <3>4 DEF d
  <2>5. \A i \in 1..(c - 1) : chain'[i] = chain[i]
    BY <2>1, <2>2, <1>1
  <2> QED BY <2>3, <2>4, <2>5
<1>4. visited' = [visited EXCEPT ![v] = 2] /\ graph' = graph /\ \A n \in NodeIds : After(n)' = After(n)
  BY DEF Return, After
<1> HIDE DEF v
<1>5. ValidationTypeOK'
  BY <1>1, <1>2, <1>3, <1>4 DEF ValidationTypeOK, Return
<1>6. \A i \in 1..(c - 1) : chain[i] # v
  BY <1>1, <1>2 DEF ChainInv
<1>7. ChainInv'
  <2>1. \A n \in NodeIds : visited'[n] = 1 <=> \E i \in 1..(c - 1) : chain'[i] = n
    <3> TAKE n \in NodeIds
    <3>1. CASE n = v
      BY <3>1, <1>1, <1>2, <1>3, <1>4, <1>6
    <3>2. CASE n # v
      <4>1. (\E i \in 1..(c - 1) : chain'[i] = n) <=> \E i \in 1..c : chain[i] = n
        BY <3>2, <1>1, <1>2, <1>3
      <4> QED BY <4>1, <3>2, <1>1, <1>2, <1>4 DEF ChainInv
    <3> QED BY <3>1, <3>2
  <2>2. \A i, j \in 1..(c - 1) : chain'[i] = chain'[j] => i = j
    BY <1>1, <1>3 DEF ChainInv
  <2>3. \A i \in 1..(c - 2) : <<chain'[i], chain'[i + 1]>> \in graph'.links
    <3> TAKE i \in 1..(c - 2)
    <3>1. i \in 1..(c - 1) /\ i + 1 \in 1..(c - 1)
      BY <1>1
    <3> QED BY <3>1, <1>1, <1>3, <1>4 DEF ChainInv
  <2>4. Len(chain') - 1 = c - 2
    BY <1>1, <1>3
  <2> QED BY <2>1, <2>2, <2>3, <2>4, <1>3 DEF ChainInv
<1>8. \A m \in After(v) : visited[m] = 2
  <2>1. \A m \in NodeIds : ~NextOnChain(v, m)
    BY <1>1, <1>6 DEF NextOnChain
  <2> QED BY <2>1, <1>1, <1>2 DEF SeenInv, After
<1>9. SeenInv'
  <2>1. ASSUME NEW n \in NodeIds, NEW m \in NodeIds, NextOnChain(n, m), m # v
        PROVE  NextOnChain(n, m)'
    <3>1. PICK i \in 1..(c - 1) : chain[i] = n /\ chain[i + 1] = m
      BY <2>1 DEF NextOnChain
    <3>2. i # c - 1
      BY <3>1, <2>1, <1>1, <1>2
    <3>3. i \in 1..(c - 1) /\ i + 1 \in 1..(c - 1) /\ i \in 1..(Len(chain') - 1)
      BY <3>2, <1>1, <1>3
    <3> QED BY <3>1, <3>3, <1>3 DEF NextOnChain
  <2>2. ASSUME NEW n \in NodeIds, visited'[n] = 1
        PROVE  /\ ahead[n] \subseteq After(n)
               /\ \A m \in After(n) \ ahead[n] : visited'[m] = 2 \/ NextOnChain(n, m)'
    <3>1. visited[n] = 1
      BY <2>2, <1>1, <1>2, <1>4
    <3> QED BY <3>1, <2>1, <1>1, <1>2, <1>4 DEF SeenInv, After
  <2>3. \A n \in NodeIds : visited'[n] = 2 => \A m \in After(n) : visited'[m] = 2
    BY <1>1, <1>2, <1>4, <1>8 DEF SeenInv, After
  <2> QED BY <2>2, <2>3, <1>1, <1>4 DEF SeenInv
<1>10. DoneInv'
  <2> SUFFICES ASSUME NEW S \in SUBSET {n \in NodeIds : visited'[n] = 2}, S # {}
               PROVE  \E n \in S : \A m \in S : <<m, n>> \notin graph.links
    BY <1>4 DEF DoneInv
  <2>1. CASE v \notin S
    <3>1. \A n \in S : visited[n] = 2
      BY <2>1, <1>1, <1>4
    <3> QED BY <3>1, <1>1 DEF DoneInv
  <2>2. CASE v \in S
    <3>1. ASSUME NEW m \in S, <<m, v>> \in graph.links PROVE FALSE
      <4>1. CASE m = v
        BY <4>1, <3>1, <1>2, <1>8 DEF After
      <4>2. CASE m # v
        BY <4>2, <3>1, <1>1, <1>2, <1>4 DEF SeenInv, After
      <4> QED BY <4>1, <4>2
    <3> QED BY <2>2, <3>1
  <2> QED BY <2>1, <2>2
<1>11. UNCHANGED <<graph, verdict>>
  BY DEF Return
<1> QED BY <1>5, <1>7, <1>9, <1>10, <1>11, NoVerdict DEF ValidationInv

\* The path from the node met again to the top is a cycle.
LEMMA CloseCycleKeeps == ASSUME ValidationInv, NEW m \in NodeIds, CloseCycle(m) PROVE ValidationInv'
<1> USE DEF ValidationInv, ValidationTypeOK, CloseCycle
<1>1. PICK i \in 1..Len(chain) : chain[i] = m
  BY DEF ChainInv
<1> DEFINE S == {chain[j] : j \in i..Len(chain)}
<1>2. Top \in S /\ m \in After(Top) /\ m \in S
  BY <1>1 DEF ChainInv, SeenInv, Top
<1>3. ASSUME NEW n \in S PROVE \E p \in S : <<p, n>> \in graph.links
  <2>1. PICK j \in i..Len(chain) : n = chain[j]
    BY <1>3
  <2>2. CASE j = i
    BY <2>1, <2>2, <1>1, <1>2 DEF After
  <2>3. CASE j # i
    <3>1. j - 1 \in i..Len(chain) /\ j - 1 \in 1..(Len(chain) - 1) /\ (j - 1) + 1 = j
      BY <2>3
    <3>2. <<chain[j - 1], chain[j]>> \in graph.links
      BY <3>1 DEF ChainInv
    <3> QED BY <2>1, <3>1, <3>2
  <2> QED BY <2>2, <2>3
<1>4. S \subseteq NodeIds /\ S # {}
  BY <1>2
<1>5. ~(LinksExist /\ Ordered)
  <2> HIDE DEF S
  <2> SUFFICES ASSUME LinksExist, Ordered PROVE FALSE
    OBVIOUS
  <2>1. S \subseteq graph.nodes
    BY <1>3 DEF LinksExist
  <2> QED BY <2>1, <1>3, <1>4 DEF Ordered
<1>6. ~(LinksExist /\ Ordered)'
  BY <1>5 DEF LinksExist, Ordered
<1>7. ValidationIsExact'
  BY <1>6 DEF ValidationIsExact
<1>8. (ChainInv /\ SeenInv /\ DoneInv)'
  BY SearchStays DEF validationVars
<1> QED BY <1>7, <1>8

LEMMA VerdictKeeps == ASSUME ValidationInv, CheckNodes \/ CheckOrphans PROVE ValidationInv'
<1> USE DEF ValidationInv, ValidationTypeOK
<1>1. (ChainInv /\ SeenInv /\ DoneInv)'
  BY SearchStays DEF CheckNodes, CheckOrphans
<1>2. CASE CheckNodes
  BY <1>1, <1>2 DEF CheckNodes, ValidationIsExact, LinksExist
<1>3. CASE CheckOrphans
  <2>1. \A n \in graph.nodes : n \in NodeIds /\ visited[n] = 2
    BY <1>3 DEF CheckOrphans, ChainInv, Graphs
  <2>2. Ordered
    BY <2>1 DEF Ordered, DoneInv
  <2>3. Ordered' /\ LinksExist' /\ graph' = graph /\ Orphans' = Orphans
    BY <2>2, <1>3 DEF CheckOrphans, Ordered, LinksExist, Orphans, Connected
  <2> QED BY <1>1, <1>3, <2>3 DEF CheckOrphans, ValidationIsExact
<1> QED BY <1>2, <1>3

LEMMA ValidationSteps == ValidationInv /\ [ValidationNext]_validationVars => ValidationInv'
<1> SUFFICES ASSUME ValidationInv, [ValidationNext]_validationVars PROVE ValidationInv'
  OBVIOUS
<1>1. ASSUME NEW n \in NodeIds, StartSearch(n) PROVE ValidationInv'
  BY <1>1, VisitKeeps DEF StartSearch
<1>2. ASSUME NEW n \in NodeIds, GoDeeper(n) PROVE ValidationInv'
  BY <1>2, VisitKeeps DEF GoDeeper
<1>3. CASE UNCHANGED validationVars
  BY <1>3, SearchStays, NoVerdict DEF validationVars, ValidationInv, ValidationTypeOK
<1> QED BY <1>1, <1>2, <1>3, CloseCycleKeeps, PassOverKeeps, ReturnKeeps, VerdictKeeps
        DEF ValidationNext

\* validate() passes the graphs execute() can work through and no others,
\* whatever the graph and whatever order the search takes.
THEOREM ValidationExact == ValidationSpec => []ValidationIsExact
<1>1. ValidationInv => ValidationIsExact
  BY DEF ValidationInv
<1> QED BY <1>1, ValidationStarts, ValidationSteps, PTL DEF ValidationSpec

\* The assumption the engine's model is built on (WorkflowAssumption): in a
\* graph validate() passed, any nodes have one without predecessor among them.
THEOREM ValidGraphsSuitTheEngine ==
    ASSUME ValidationIsExact, verdict = "valid"
    PROVE  LET preds == [n \in graph.nodes |-> {m \in graph.nodes : <<m, n>> \in graph.links}]
           IN /\ graph.nodes # {}
              /\ \A S \in SUBSET graph.nodes : S # {} => \E n \in S : preds[n] \cap S = {}
<1>1. graph.nodes # {} /\ Ordered
  BY DEF ValidationIsExact
<1> DEFINE preds == [n \in graph.nodes |-> {m \in graph.nodes : <<m, n>> \in graph.links}]
<1>2. ASSUME NEW S \in SUBSET graph.nodes, S # {} PROVE \E n \in S : preds[n] \cap S = {}
  BY <1>1, <1>2 DEF Ordered
<1> QED BY <1>1, <1>2
============================================================================
