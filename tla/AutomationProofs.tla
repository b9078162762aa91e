-------------------------- MODULE AutomationProofs --------------------------
(***************************************************************************)
(* Proofs about Automation: the types, that steps wait for what they       *)
(* depend on, that without a race between decisions no step is carried out *)
(* twice, that the final status is then the one the steps make, and that   *)
(* the steps a thread takes are bounded; for any definition, any number of *)
(* calls and any number of restarts.                                       *)
(***************************************************************************)
EXTENDS Automation, FiniteSetTheorems, TLAPS

---------------------------------------------------------------------------
(* Types and dependencies                                                  *)

\* What the row and a thread's copy call COMPLETED is settled; what a thread
\* is about to begin waits for nothing more; a decision is about an approval
\* that was asked for, and a thread asks once.
RowIsSound == \A s \in Steps : row.steps[s] = "COMPLETED" => s \in settled
ApprovalIsSound(a) == approval[a].status # "NONE" => approval[a].step # NoStep
ThreadIsSound(c) ==
    /\ thread[c].at \notin {"pause", "returned", "killed"} => approval[c] = NoApproval
    /\ thread[c].at \in Deciding => /\ thread[c].about \in Calls
                                    /\ approval[thread[c].about].status # "NONE"
    /\ thread[c].at = "load" /\ thread[c].decision = "APPROVED" =>
          approval[thread[c].about].step \in settled
    /\ \A s \in Steps : thread[c].copy[s] = "COMPLETED" => s \in settled
    /\ \A s \in thread[c].ready : Deps[s] \subseteq settled
    /\ thread[c].at \in {"ask", "pause", "perform", "save"} =>
          thread[c].step \in Steps /\ Deps[thread[c].step] \subseteq settled
    /\ thread[c].at \in {"ask", "pause"} => thread[c].step \in Approvals

AutoInv ==
    /\ AutomationTypeOK
    /\ RowIsSound
    /\ \A c \in Calls : ApprovalIsSound(c) /\ ThreadIsSound(c)

LEMMA AutoStart == AutomationInit => AutoInv
<1> SUFFICES ASSUME AutomationInit PROVE AutoInv
    OBVIOUS
<1> USE AutomationAssumption DEF AutomationAssumption
<1>1. AllPending \in [Steps -> StepStatuses] /\ \A s \in Steps : AllPending[s] = "PENDING"
    BY DEF AllPending, StepStatuses
<1>2. Outside("idle") \in ThreadStates
    BY <1>1 DEF Outside, ThreadStates, Decisions
<1>3. raced \in BOOLEAN
    BY Zenon DEF AutomationInit
<1>4. AutomationTypeOK
    BY <1>1, <1>2, <1>3 DEF AutomationInit, AutomationTypeOK, InstanceStatuses, NoApproval
<1> QED
    BY <1>1, <1>4 DEF AutomationInit, AutoInv, RowIsSound, ApprovalIsSound, ThreadIsSound, NoApproval,
           Outside, Deciding

\* A call's thread is given a new state and the others are left alone.
LEMMA OneThread ==
    ASSUME AutomationTypeOK, NEW c \in Calls, NEW t \in ThreadStates, Becomes(c, t)
    PROVE  /\ thread' \in [Calls -> ThreadStates]
           /\ thread'[c] = t
           /\ \A d \in Calls : d # c => thread'[d] = thread[d]
  BY DEF AutomationTypeOK, Becomes

\* A thread moves to another place, or returns.
LEMMA OneMoves ==
    ASSUME AutomationTypeOK, NEW c \in Calls, NEW from,
           NEW to \in {"idle", "returned", "killed"} \cup Deciding \cup Working,
           Goes(c, from, to)
    PROVE  /\ thread' \in [Calls -> ThreadStates]
           /\ thread[c].at = from /\ thread'[c].at = to
           /\ thread'[c].copy = thread[c].copy /\ thread'[c].ready = thread[c].ready
           /\ thread'[c].step = thread[c].step /\ thread'[c].about = thread[c].about
           /\ thread'[c].decision = thread[c].decision
           /\ \A d \in Calls : d # c => thread'[d] = thread[d]
<1> DEFINE t == [thread[c] EXCEPT !.at = to]
<1>1. thread[c] \in ThreadStates
    BY DEF AutomationTypeOK
<1>2. /\ t \in ThreadStates /\ t.at = to /\ t.copy = thread[c].copy /\ t.ready = thread[c].ready
      /\ t.step = thread[c].step /\ t.about = thread[c].about /\ t.decision = thread[c].decision
    BY <1>1 DEF ThreadStates
<1>3. Becomes(c, t) /\ thread[c].at = from
    BY DEF Goes
<1> HIDE DEF t
<1> QED
    BY <1>2, <1>3, OneThread

\* A thread's state is still one of its states in another place with another
\* copy, or with other ready steps.
LEMMA StateWithCopy ==
    ASSUME NEW u \in ThreadStates, NEW copy \in [Steps -> StepStatuses],
           NEW place \in {"idle", "returned", "killed"} \cup Deciding \cup Working
    PROVE  [u EXCEPT !.at = place, !.copy = copy] \in ThreadStates
  BY DEF ThreadStates

LEMMA StateWithReady ==
    ASSUME NEW u \in ThreadStates, NEW ready \in SUBSET Steps,
           NEW place \in {"idle", "returned", "killed"} \cup Deciding \cup Working
    PROVE  [u EXCEPT !.at = place, !.ready = ready] \in ThreadStates
  BY DEF ThreadStates

LEMMA StateBeginning ==
    ASSUME NEW u \in ThreadStates, NEW copy \in [Steps -> StepStatuses], NEW s \in Steps,
           NEW place \in {"idle", "returned", "killed"} \cup Deciding \cup Working
    PROVE  [u EXCEPT !.at = place, !.copy = copy, !.step = s, !.ready = @ \ {s}] \in ThreadStates
  BY DEF ThreadStates

LEMMA StateDeciding ==
    ASSUME NEW u \in ThreadStates, NEW a \in Calls, NEW v \in Decisions
    PROVE  [u EXCEPT !.at = "decide", !.about = a, !.decision = v] \in ThreadStates
  BY DEF ThreadStates, Deciding

LEMMA OneReturns ==
    ASSUME AutomationTypeOK, NEW c \in Calls, NEW from, Returns(c, from)
    PROVE  /\ thread' \in [Calls -> ThreadStates]
           /\ thread[c].at = from /\ thread'[c].at = "returned"
           /\ \A s \in Steps : thread'[c].copy[s] = "PENDING"
           /\ thread'[c].ready = {}
           /\ \A d \in Calls : d # c => thread'[d] = thread[d]
<1> DEFINE t == Outside("returned")
<1>1. t \in ThreadStates /\ t.at = "returned" /\ t.ready = {} /\ \A s \in Steps : t.copy[s] = "PENDING"
    BY DEF Outside, ThreadStates, AllPending, StepStatuses, Decisions
<1>2. Becomes(c, t) /\ thread[c].at = from
    BY DEF Returns
<1> HIDE DEF t
<1> QED
    BY <1>1, <1>2, OneThread

\* What a step of one thread must see to: the row, the approvals and the
\* thread itself; the others stay sound.
LEMMA OthersStaySound ==
    ASSUME AutoInv, NEW c \in Calls,
           AutomationTypeOK', RowIsSound', ThreadIsSound(c)',
           settled \subseteq settled',
           \A d \in Calls : d # c => thread'[d] = thread[d],
           \A a \in Calls : /\ approval[a].status # "NONE" =>
                                 approval'[a].status # "NONE" /\ approval'[a].step = approval[a].step
                            /\ a # c /\ approval[a] = NoApproval => approval'[a] = NoApproval
                            /\ ApprovalIsSound(a)'
    PROVE  AutoInv'
<1>1. ASSUME NEW d \in Calls, d # c PROVE ThreadIsSound(d)'
  <2>1. ThreadIsSound(d) /\ thread'[d] = thread[d]
      BY <1>1 DEF AutoInv
  <2>2. /\ thread'[d].at \notin {"pause", "returned", "killed"} => approval'[d] = NoApproval
        /\ thread'[d].at \in Deciding => /\ thread'[d].about \in Calls
                                         /\ approval'[thread'[d].about].status # "NONE"
      BY <1>1, <2>1 DEF ThreadIsSound
  <2>3. thread'[d].at = "load" /\ thread'[d].decision = "APPROVED" =>
            approval'[thread'[d].about].step \in settled'
      BY <1>1, <2>1 DEF ThreadIsSound, Deciding
  <2> QED
      BY <2>1, <2>2, <2>3 DEF ThreadIsSound
<1> QED
    BY <1>1 DEF AutoInv

\* The same for a step that leaves the approvals alone.
LEMMA OneThreadSound ==
    ASSUME AutoInv, NEW c \in Calls,
           AutomationTypeOK', RowIsSound', ThreadIsSound(c)',
           settled \subseteq settled', approval' = approval,
           \A d \in Calls : d # c => thread'[d] = thread[d]
    PROVE  AutoInv'
<1>1. \A a \in Calls : ApprovalIsSound(a)'
    BY DEF AutoInv, ApprovalIsSound
<1> QED
    BY <1>1, OthersStaySound

LEMMA AutoStep == AutoInv /\ [AutomationNext]_autoVars => AutoInv'
<1> SUFFICES ASSUME AutoInv, [AutomationNext]_autoVars PROVE AutoInv'
    OBVIOUS
<1> USE AutomationAssumption DEF AutomationAssumption
<1>0. AutomationTypeOK /\ RowIsSound /\ \A c \in Calls : ThreadIsSound(c)
    BY DEF AutoInv
<1>p. AllPending \in [Steps -> StepStatuses] /\ \A s \in Steps : AllPending[s] = "PENDING"
    BY DEF AllPending, StepStatuses
<1>t. \A c \in Calls : thread[c] \in ThreadStates
    BY <1>0 DEF AutomationTypeOK
<1>1. ASSUME NEW c \in Calls, ExecuteDefinition(c) PROVE AutoInv'
  <2>1. /\ thread' \in [Calls -> ThreadStates] /\ thread[c].at = "idle" /\ thread'[c].at = "read"
        /\ thread'[c].copy = thread[c].copy /\ thread'[c].ready = thread[c].ready
        /\ \A d \in Calls : d # c => thread'[d] = thread[d]
    BY <1>0, <1>1, OneMoves DEF ExecuteDefinition, Working
  <2>2. /\ row' = [status |-> "PENDING", steps |-> AllPending]
        /\ UNCHANGED <<approval, restarts, runs, settled, raced>>
    BY <1>1 DEF ExecuteDefinition, Writes, history
  <2>3. AutomationTypeOK' /\ RowIsSound'
    BY <1>0, <1>p, <2>1, <2>2 DEF AutomationTypeOK, RowIsSound, InstanceStatuses, StepStatuses
  <2>4. ThreadIsSound(c)'
    BY <1>0, <2>1, <2>2 DEF ThreadIsSound, Deciding
  <2> QED
    BY <2>1, <2>2, <2>3, <2>4, OneThreadSound
<1>2. ASSUME NEW c \in Calls, NEW a \in Calls, NEW d \in Decisions, CheckApproval(c, a, d)
      PROVE  AutoInv'
  <2> DEFINE t == [thread[c] EXCEPT !.at = "decide", !.about = a, !.decision = d]
  <2>1. /\ t \in ThreadStates /\ t.at = "decide" /\ t.about = a
        /\ t.copy = thread[c].copy /\ t.ready = thread[c].ready
    <3>1. t \in ThreadStates
        BY <1>t, StateDeciding
    <3> QED
        BY <1>t, <3>1 DEF ThreadStates
  <2>2. Becomes(c, t) /\ thread[c].at = "idle" /\ approval[a].status = "PENDING"
    BY <1>2 DEF CheckApproval
  <2>3. UNCHANGED <<row, approval, restarts, runs, settled>> /\ raced' \in BOOLEAN
    BY <1>2, Zenon DEF CheckApproval
  <2> HIDE DEF t
  <2>4. /\ thread' \in [Calls -> ThreadStates] /\ thread'[c] = t
        /\ \A e \in Calls : e # c => thread'[e] = thread[e]
    BY <1>0, <2>1, <2>2, OneThread
  <2>5. AutomationTypeOK' /\ RowIsSound'
    BY <1>0, <2>3, <2>4 DEF AutomationTypeOK, RowIsSound
  <2>6. ThreadIsSound(c)'
    BY <1>0, <2>1, <2>2, <2>3, <2>4 DEF ThreadIsSound
  <2> QED
    BY <2>3, <2>4, <2>5, <2>6, OneThreadSound
<1>3. ASSUME NEW c \in Calls, Decide(c) PROVE AutoInv'
  <2> DEFINE a == thread[c].about
  <2>1. /\ thread' \in [Calls -> ThreadStates] /\ thread[c].at = "decide" /\ thread'[c].at = "load"
        /\ thread'[c].copy = thread[c].copy /\ thread'[c].ready = thread[c].ready
        /\ thread'[c].about = a /\ thread'[c].decision = thread[c].decision
        /\ \A d \in Calls : d # c => thread'[d] = thread[d]
    BY <1>0, <1>3, OneMoves DEF Decide, Deciding
  <2>2. /\ a \in Calls /\ approval[a].status # "NONE" /\ approval[a].step # NoStep
        /\ thread[c].decision \in Decisions
    BY <1>0, <1>t, <2>1 DEF AutoInv, ThreadIsSound, ApprovalIsSound, ThreadStates, Deciding
  <2>3. approval[a].step \in Approvals
    BY <1>0, <2>2 DEF AutomationTypeOK
  <2>4. /\ approval' = [approval EXCEPT ![a] = [step |-> approval[a].step, status |-> thread[c].decision]]
        /\ settled' = (IF thread[c].decision = "APPROVED"
                       THEN settled \cup {approval[a].step} ELSE settled)
        /\ UNCHANGED <<row, restarts, runs, raced>>
    BY <1>3 DEF Decide
  <2>5. /\ approval'[a].step = approval[a].step /\ approval'[a].status \in Decisions
        /\ \A e \in Calls : e # a => approval'[e] = approval[e]
        /\ approval' \in [Calls -> [step : Approvals \cup {NoStep},
                                    status : Decisions \cup {"NONE", "PENDING"}]]
    BY <1>0, <2>2, <2>3, <2>4 DEF AutomationTypeOK
  <2>6. a # c
    BY <1>0, <2>1, <2>2 DEF ThreadIsSound, NoApproval
  <2>7. settled \subseteq settled' /\ settled' \subseteq Steps
    BY <1>0, <2>3, <2>4 DEF AutomationTypeOK
  <2> HIDE DEF a
  <2>8. AutomationTypeOK'
    BY <1>0, <2>1, <2>4, <2>5, <2>7 DEF AutomationTypeOK
  <2>9. RowIsSound'
    BY <1>0, <2>4, <2>7 DEF RowIsSound
  <2>10. ThreadIsSound(c)'
    <3>1. approval'[c] = NoApproval
        BY <1>0, <2>1, <2>5, <2>6 DEF ThreadIsSound
    <3>2. thread'[c].about \in Calls /\ approval'[a].status # "NONE"
        BY <2>1, <2>2, <2>5 DEF Decisions
    <3>3. thread'[c].decision = "APPROVED" => approval'[a].step \in settled'
        BY <2>1, <2>4, <2>5
    <3> QED
        BY <1>0, <2>1, <2>7, <3>1, <3>2, <3>3 DEF ThreadIsSound
  <2>11. ASSUME NEW e \in Calls
         PROVE  /\ approval[e].status # "NONE" =>
                     approval'[e].status # "NONE" /\ approval'[e].step = approval[e].step
                /\ e # c /\ approval[e] = NoApproval => approval'[e] = NoApproval
                /\ ApprovalIsSound(e)'
    <3>1. CASE e = a
        BY <2>2, <2>5, <3>1 DEF Decisions, NoApproval, ApprovalIsSound
    <3>2. CASE e # a
        BY <2>5, <3>2 DEF AutoInv, ApprovalIsSound
    <3> QED
        BY <3>1, <3>2
  <2> QED
    BY <2>1, <2>7, <2>8, <2>9, <2>10, <2>11, OthersStaySound
<1>4. ASSUME NEW c \in Calls, LoadInstance(c) PROVE AutoInv'
  <2> DEFINE p == approval[thread[c].about].step
             copy == [row.steps EXCEPT ![p] =
                         IF thread[c].decision = "APPROVED" THEN "COMPLETED" ELSE "FAILED"]
             t == [thread[c] EXCEPT !.at = "store", !.copy = copy]
  <2>1. row.steps \in [Steps -> StepStatuses]
    BY <1>0 DEF AutomationTypeOK
  <2>2. copy \in [Steps -> StepStatuses]
    BY <2>1 DEF StepStatuses
  <2>3. thread[c].at = "load" /\ Becomes(c, t)
    BY <1>4 DEF LoadInstance
  <2>4. UNCHANGED <<row, approval, restarts, runs, settled>> /\ raced' \in BOOLEAN
    BY <1>4, Zenon DEF LoadInstance
  <2>5. thread[c].decision = "APPROVED" => p \in settled
    BY <1>0, <2>3 DEF ThreadIsSound
  <2>6. \A s \in Steps : copy[s] = "COMPLETED" => s \in settled
    BY <1>0, <2>1, <2>5 DEF RowIsSound
  <2> HIDE DEF copy
  <2>7. /\ t \in ThreadStates /\ t.at = "store" /\ t.copy = copy /\ t.ready = thread[c].ready
        /\ t.about = thread[c].about
    <3>1. t \in ThreadStates
        BY <1>t, <2>2, StateWithCopy DEF Deciding
    <3> QED
        BY <1>t, <3>1 DEF ThreadStates
  <2> HIDE DEF t
  <2>8. /\ thread' \in [Calls -> ThreadStates] /\ thread'[c] = t
        /\ \A e \in Calls : e # c => thread'[e] = thread[e]
    BY <1>0, <2>3, <2>7, OneThread
  <2>9. AutomationTypeOK' /\ RowIsSound'
    BY <1>0, <2>4, <2>8 DEF AutomationTypeOK, RowIsSound
  <2>10. ThreadIsSound(c)'
    BY <1>0, <2>3, <2>4, <2>6, <2>7, <2>8 DEF ThreadIsSound, Deciding
  <2> QED
    BY <2>4, <2>8, <2>9, <2>10, OneThreadSound
<1>5. ASSUME NEW c \in Calls, StoreDecision(c) PROVE AutoInv'
  <2>1. /\ thread' \in [Calls -> ThreadStates] /\ thread[c].at = "store" /\ thread'[c].at = "read"
        /\ thread'[c].copy = thread[c].copy /\ thread'[c].ready = thread[c].ready
        /\ \A d \in Calls : d # c => thread'[d] = thread[d]
    BY <1>0, <1>5, OneMoves DEF StoreDecision, Working
  <2>2. row' = [status |-> "RUNNING", steps |-> thread[c].copy]
        /\ UNCHANGED <<approval, restarts, runs, settled, raced>>
    BY <1>5 DEF StoreDecision, Writes, history
  <2>3. thread[c].copy \in [Steps -> StepStatuses]
    BY <1>t DEF ThreadStates
  <2>4. AutomationTypeOK' /\ RowIsSound'
    BY <1>0, <2>1, <2>2, <2>3 DEF AutomationTypeOK, RowIsSound, ThreadIsSound, InstanceStatuses, StepStatuses
  <2>5. ThreadIsSound(c)'
    BY <1>0, <2>1, <2>2 DEF ThreadIsSound, Deciding
  <2> QED
    BY <2>1, <2>2, <2>4, <2>5, OneThreadSound
<1>6. ASSUME NEW c \in Calls, ReadInstance(c) PROVE AutoInv'
  <2>0. UNCHANGED <<row, approval, restarts, runs, settled, raced>>
    BY <1>6 DEF ReadInstance, history
  <2>1. CASE row.status \in Ended
    <3>1. Returns(c, "read")
      BY <1>6, <2>1 DEF ReadInstance
    <3>2. /\ thread' \in [Calls -> ThreadStates] /\ thread'[c].at = "returned"
          /\ \A s \in Steps : thread'[c].copy[s] = "PENDING"
          /\ thread'[c].ready = {}
          /\ \A d \in Calls : d # c => thread'[d] = thread[d]
      BY <1>0, <3>1, OneReturns
    <3>3. AutomationTypeOK' /\ RowIsSound' /\ ThreadIsSound(c)'
      BY <1>0, <2>0, <3>2 DEF AutomationTypeOK, RowIsSound, ThreadIsSound, Deciding
    <3> QED
      BY <2>0, <3>2, <3>3, OneThreadSound
  <2>2. CASE row.status \notin Ended
    <3> DEFINE t == [thread[c] EXCEPT !.at = "claim", !.copy = row.steps]
    <3>1. thread[c].at = "read" /\ Becomes(c, t)
      BY <1>6, <2>2 DEF ReadInstance
    <3>2. /\ t \in ThreadStates /\ t.at = "claim" /\ t.copy = row.steps /\ t.ready = thread[c].ready
      <4>1. row.steps \in [Steps -> StepStatuses]
          BY <1>0 DEF AutomationTypeOK
      <4>2. t \in ThreadStates
          BY <1>t, <4>1, StateWithCopy DEF Working
      <4> QED
          BY <1>t, <4>2 DEF ThreadStates
    <3> HIDE DEF t
    <3>3. /\ thread' \in [Calls -> ThreadStates] /\ thread'[c] = t
          /\ \A e \in Calls : e # c => thread'[e] = thread[e]
      BY <1>0, <3>1, <3>2, OneThread
    <3>4. AutomationTypeOK' /\ RowIsSound' /\ ThreadIsSound(c)'
      BY <1>0, <2>0, <3>1, <3>2, <3>3 DEF AutomationTypeOK, RowIsSound, ThreadIsSound, Deciding
    <3> QED
      BY <2>0, <3>3, <3>4, OneThreadSound
  <2> QED
    BY <2>1, <2>2
<1>7. ASSUME NEW c \in Calls, ClaimInstance(c) PROVE AutoInv'
  <2>1. /\ thread' \in [Calls -> ThreadStates] /\ thread[c].at = "claim" /\ thread'[c].at = "look"
        /\ thread'[c].copy = thread[c].copy /\ thread'[c].ready = thread[c].ready
        /\ \A d \in Calls : d # c => thread'[d] = thread[d]
    BY <1>0, <1>7, OneMoves DEF ClaimInstance, Working
  <2>2. row' = [status |-> "RUNNING", steps |-> thread[c].copy]
        /\ UNCHANGED <<approval, restarts, runs, settled, raced>>
    BY <1>7 DEF ClaimInstance, Writes, history
  <2>3. thread[c].copy \in [Steps -> StepStatuses]
    BY <1>t DEF ThreadStates
  <2>4. AutomationTypeOK' /\ RowIsSound'
    BY <1>0, <2>1, <2>2, <2>3 DEF AutomationTypeOK, RowIsSound, ThreadIsSound, InstanceStatuses, StepStatuses
  <2>5. ThreadIsSound(c)'
    BY <1>0, <2>1, <2>2 DEF ThreadIsSound, Deciding
  <2> QED
    BY <2>1, <2>2, <2>4, <2>5, OneThreadSound
<1>8. ASSUME NEW c \in Calls, LookForSteps(c) PROVE AutoInv'
  <2> DEFINE ready == ReadySteps(thread[c].copy)
  <2>0. UNCHANGED <<row, approval, restarts, runs, settled, raced>>
    BY <1>8 DEF LookForSteps, history
  <2>1. CASE Returns(c, "look")
    <3>2. /\ thread' \in [Calls -> ThreadStates] /\ thread'[c].at = "returned"
          /\ \A s \in Steps : thread'[c].copy[s] = "PENDING"
          /\ thread'[c].ready = {}
          /\ \A d \in Calls : d # c => thread'[d] = thread[d]
      BY <1>0, <2>1, OneReturns
    <3>3. AutomationTypeOK' /\ RowIsSound' /\ ThreadIsSound(c)'
      BY <1>0, <2>0, <3>2 DEF AutomationTypeOK, RowIsSound, ThreadIsSound, Deciding
    <3> QED
      BY <2>0, <3>2, <3>3, OneThreadSound
  <2>2. CASE Goes(c, "look", "conclude")
    <3>1. /\ thread' \in [Calls -> ThreadStates] /\ thread[c].at = "look" /\ thread'[c].at = "conclude"
          /\ thread'[c].copy = thread[c].copy /\ thread'[c].ready = thread[c].ready
          /\ \A d \in Calls : d # c => thread'[d] = thread[d]
      BY <1>0, <2>2, OneMoves DEF Working
    <3>2. AutomationTypeOK' /\ RowIsSound' /\ ThreadIsSound(c)'
      BY <1>0, <2>0, <3>1 DEF AutomationTypeOK, RowIsSound, ThreadIsSound, Deciding
    <3> QED
      BY <2>0, <3>1, <3>2, OneThreadSound
  <2>3. CASE thread[c].at = "look" /\ Becomes(c, [thread[c] EXCEPT !.at = "begin", !.ready = ready])
    <3> DEFINE t == [thread[c] EXCEPT !.at = "begin", !.ready = ready]
    <3>1. ready \subseteq Steps /\ \A s \in ready : Deps[s] \subseteq Steps
      BY DEF ReadySteps
    <3>2. \A s \in ready : Deps[s] \subseteq settled
      BY <1>0, <3>1 DEF ReadySteps, ThreadIsSound
    <3> HIDE DEF ready
    <3>3. t \in ThreadStates /\ t.at = "begin" /\ t.copy = thread[c].copy /\ t.ready = ready
      <4>1. t \in ThreadStates
          BY <1>t, <3>1, StateWithReady DEF Working
      <4> QED
          BY <1>t, <4>1 DEF ThreadStates
    <3>4. Becomes(c, t)
      BY <2>3
    <3> HIDE DEF t
    <3>5. /\ thread' \in [Calls -> ThreadStates] /\ thread'[c] = t
          /\ \A e \in Calls : e # c => thread'[e] = thread[e]
      BY <1>0, <3>3, <3>4, OneThread
    <3>6. AutomationTypeOK' /\ RowIsSound'
      BY <1>0, <2>0, <3>5 DEF AutomationTypeOK, RowIsSound
    <3>7. ThreadIsSound(c)'
      BY <1>0, <2>0, <2>3, <3>2, <3>3, <3>5 DEF ThreadIsSound, Deciding
    <3> QED
      BY <2>0, <3>5, <3>6, <3>7, OneThreadSound
  <2> QED
    BY <1>8, <2>1, <2>2, <2>3 DEF LookForSteps
<1>9. ASSUME NEW c \in Calls, Conclude(c) PROVE AutoInv'
  <2> DEFINE status == IF \E s \in Steps : thread[c].copy[s] = "FAILED" THEN "FAILED" ELSE "COMPLETED"
  <2>1. Returns(c, "conclude") /\ row' = [status |-> status, steps |-> thread[c].copy]
        /\ UNCHANGED <<approval, restarts, runs, settled, raced>>
    BY <1>9 DEF Conclude, Writes, history
  <2>2. /\ thread' \in [Calls -> ThreadStates] /\ thread[c].at = "conclude" /\ thread'[c].at = "returned"
        /\ \A s \in Steps : thread'[c].copy[s] = "PENDING"
        /\ thread'[c].ready = {}
        /\ \A d \in Calls : d # c => thread'[d] = thread[d]
    BY <1>0, <2>1, OneReturns
  <2>3. thread[c].copy \in [Steps -> StepStatuses] /\ status \in InstanceStatuses
    BY <1>t DEF ThreadStates, InstanceStatuses, StepStatuses
  <2> HIDE DEF status
  <2>4. AutomationTypeOK' /\ RowIsSound'
    BY <1>0, <2>1, <2>2, <2>3 DEF AutomationTypeOK, RowIsSound, ThreadIsSound
  <2>5. ThreadIsSound(c)'
    BY <1>0, <2>1, <2>2 DEF ThreadIsSound, Deciding
  <2> QED
    BY <2>1, <2>2, <2>4, <2>5, OneThreadSound
<1>10. ASSUME NEW c \in Calls, BeginStep(c) PROVE AutoInv'
  <2>1. PICK s \in Steps :
          LET copy == [thread[c].copy EXCEPT ![s] = "RUNNING"] IN
          /\ thread[c].at = "begin"
          /\ IsFirst(s, thread[c].ready)
          /\ Becomes(c, [thread[c] EXCEPT !.at = IF s \in Approvals THEN "ask" ELSE "perform",
                                         !.copy = copy, !.step = s, !.ready = @ \ {s}])
          /\ Writes("RUNNING", copy)
          /\ UNCHANGED <<approval, history>>
    BY <1>10 DEF BeginStep
  <2> DEFINE copy == [thread[c].copy EXCEPT ![s] = "RUNNING"]
             place == IF s \in Approvals THEN "ask" ELSE "perform"
             t == [thread[c] EXCEPT !.at = place, !.copy = copy, !.step = s, !.ready = @ \ {s}]
  <2>2. /\ copy \in [Steps -> StepStatuses]
        /\ \A k \in Steps : copy[k] = "COMPLETED" => thread[c].copy[k] = "COMPLETED"
    BY <1>t DEF ThreadStates, StepStatuses
  <2>3. /\ row' = [status |-> "RUNNING", steps |-> copy] /\ Becomes(c, t) /\ thread[c].at = "begin"
        /\ UNCHANGED <<approval, restarts, runs, settled, raced>>
    BY <2>1 DEF Writes, history
  <2>4. place \in {"ask", "perform"} /\ (place = "ask" => s \in Approvals)
    OBVIOUS
  <2>5. Deps[s] \subseteq settled
    BY <1>0, <2>1 DEF IsFirst, ThreadIsSound
  <2> HIDE DEF copy, place
  <2>6. /\ t \in ThreadStates /\ t.at = place /\ t.copy = copy /\ t.step = s
        /\ t.ready = thread[c].ready \ {s}
    <3>1. t \in ThreadStates
        BY <1>t, <2>2, <2>4, StateBeginning DEF Working
    <3> QED
        BY <1>t, <3>1 DEF ThreadStates
  <2> HIDE DEF t
  <2>7. /\ thread' \in [Calls -> ThreadStates] /\ thread'[c] = t
        /\ \A e \in Calls : e # c => thread'[e] = thread[e]
    BY <1>0, <2>3, <2>6, OneThread
  <2>8. AutomationTypeOK' /\ RowIsSound'
    BY <1>0, <2>2, <2>3, <2>7 DEF AutomationTypeOK, RowIsSound, ThreadIsSound, InstanceStatuses, StepStatuses
  <2>9. ThreadIsSound(c)'
    BY <1>0, <2>2, <2>3, <2>4, <2>5, <2>6, <2>7 DEF ThreadIsSound, Deciding
  <2> QED
    BY <2>3, <2>7, <2>8, <2>9, OneThreadSound
<1>11. ASSUME NEW c \in Calls, AskForApproval(c) PROVE AutoInv'
  <2>1. /\ thread' \in [Calls -> ThreadStates] /\ thread[c].at = "ask" /\ thread'[c].at = "pause"
        /\ thread'[c].copy = thread[c].copy /\ thread'[c].ready = thread[c].ready
        /\ thread'[c].step = thread[c].step
        /\ \A d \in Calls : d # c => thread'[d] = thread[d]
    BY <1>0, <1>11, OneMoves DEF AskForApproval, Working
  <2>2. thread[c].step \in Approvals /\ approval[c] = NoApproval
    BY <1>0, <2>1 DEF ThreadIsSound
  <2>3. /\ approval' = [approval EXCEPT ![c] = [step |-> thread[c].step, status |-> "PENDING"]]
        /\ UNCHANGED <<row, restarts, runs, settled, raced>>
    BY <1>11 DEF AskForApproval, history
  <2>4. /\ approval'[c] = [step |-> thread[c].step, status |-> "PENDING"]
        /\ \A e \in Calls : e # c => approval'[e] = approval[e]
        /\ approval' \in [Calls -> [step : Approvals \cup {NoStep},
                                    status : Decisions \cup {"NONE", "PENDING"}]]
    BY <1>0, <2>2, <2>3 DEF AutomationTypeOK
  <2>5. AutomationTypeOK' /\ RowIsSound'
    BY <1>0, <2>1, <2>3, <2>4 DEF AutomationTypeOK, RowIsSound
  <2>6. ThreadIsSound(c)'
    BY <1>0, <2>1, <2>2, <2>3 DEF ThreadIsSound, Deciding
  <2>7. ASSUME NEW e \in Calls
        PROVE  /\ approval[e].status # "NONE" =>
                    approval'[e].status # "NONE" /\ approval'[e].step = approval[e].step
               /\ e # c /\ approval[e] = NoApproval => approval'[e] = NoApproval
               /\ ApprovalIsSound(e)'
    <3>1. CASE e = c
        BY <2>2, <2>4, <3>1 DEF NoApproval, ApprovalIsSound
    <3>2. CASE e # c
        BY <2>4, <3>2 DEF AutoInv, ApprovalIsSound
    <3> QED
        BY <3>1, <3>2
  <2> QED
    BY <2>1, <2>3, <2>5, <2>6, <2>7, OthersStaySound
<1>12. ASSUME NEW c \in Calls, PauseInstance(c) PROVE AutoInv'
  <2> DEFINE copy == [thread[c].copy EXCEPT ![thread[c].step] = "PAUSED"]
  <2>1. Returns(c, "pause") /\ row' = [status |-> "PAUSED", steps |-> copy]
        /\ UNCHANGED <<approval, restarts, runs, settled, raced>>
    BY <1>12 DEF PauseInstance, Writes, history
  <2>2. /\ thread' \in [Calls -> ThreadStates] /\ thread'[c].at = "returned"
        /\ \A s \in Steps : thread'[c].copy[s] = "PENDING"
        /\ thread'[c].ready = {}
        /\ \A d \in Calls : d # c => thread'[d] = thread[d]
    BY <1>0, <2>1, OneReturns
  <2>3. /\ copy \in [Steps -> StepStatuses]
        /\ \A k \in Steps : copy[k] = "COMPLETED" => thread[c].copy[k] = "COMPLETED"
    BY <1>t DEF ThreadStates, StepStatuses
  <2> HIDE DEF copy
  <2>4. AutomationTypeOK' /\ RowIsSound'
    BY <1>0, <2>1, <2>2, <2>3 DEF AutomationTypeOK, RowIsSound, ThreadIsSound, InstanceStatuses, StepStatuses
  <2>5. ThreadIsSound(c)'
    BY <1>0, <2>1, <2>2 DEF ThreadIsSound, Deciding
  <2> QED
    BY <2>1, <2>2, <2>4, <2>5, OneThreadSound
<1>13. ASSUME NEW c \in Calls, StepSucceeds(c) PROVE AutoInv'
  <2> DEFINE s == thread[c].step
  <2>0. thread[c].at = "perform" /\ s \in Steps /\ Deps[s] \subseteq settled
    BY <1>0, <1>13 DEF StepSucceeds, ThreadIsSound
  <2>1. PICK skipped \in SkippedBy(s) :
          LET done == skipped \cup {s} IN
          /\ Becomes(c, [thread[c] EXCEPT !.at = "save",
                !.copy = [t \in Steps |-> IF t \in done THEN "COMPLETED" ELSE @[t]]])
          /\ settled' = settled \cup done
    BY <1>13 DEF StepSucceeds
  <2> DEFINE done == skipped \cup {s}
             copy == [k \in Steps |-> IF k \in done THEN "COMPLETED" ELSE thread[c].copy[k]]
             t == [thread[c] EXCEPT !.at = "save", !.copy = copy]
  <2>2. done \subseteq Steps
    BY <2>0, <2>1 DEF SkippedBy
  <2>3. UNCHANGED <<row, approval, restarts, raced>> /\ runs' = [runs EXCEPT ![s] = @ + 1]
        /\ Becomes(c, t) /\ settled' = settled \cup done
    BY <1>13, <2>1 DEF StepSucceeds
  <2>4. settled \subseteq settled' /\ settled' \subseteq Steps /\ runs' \in [Steps -> Nat]
    BY <1>0, <2>0, <2>2, <2>3 DEF AutomationTypeOK
  <2>5. /\ copy \in [Steps -> StepStatuses]
        /\ \A k \in Steps : copy[k] = "COMPLETED" => k \in settled'
    BY <1>0, <1>t, <2>3 DEF ThreadStates, StepStatuses, ThreadIsSound
  <2> HIDE DEF copy, done
  <2>6. /\ t \in ThreadStates /\ t.at = "save" /\ t.copy = copy /\ t.step = s /\ t.ready = thread[c].ready
    <3>1. t \in ThreadStates
        BY <1>t, <2>5, StateWithCopy DEF Working
    <3> QED
        BY <1>t, <3>1 DEF ThreadStates
  <2> HIDE DEF t
  <2>7. /\ thread' \in [Calls -> ThreadStates] /\ thread'[c] = t
        /\ \A e \in Calls : e # c => thread'[e] = thread[e]
    BY <1>0, <2>3, <2>6, OneThread
  <2>8. AutomationTypeOK' /\ RowIsSound'
    BY <1>0, <2>3, <2>4, <2>7 DEF AutomationTypeOK, RowIsSound
  <2>9. ThreadIsSound(c)'
    BY <1>0, <2>0, <2>3, <2>4, <2>5, <2>6, <2>7 DEF ThreadIsSound, Deciding
  <2> QED
    BY <2>3, <2>4, <2>7, <2>8, <2>9, OneThreadSound
<1>14. ASSUME NEW c \in Calls, StepFails(c) PROVE AutoInv'
  <2> DEFINE s == thread[c].step
             copy == [thread[c].copy EXCEPT ![s] = "FAILED"]
             t == [thread[c] EXCEPT !.at = "save", !.copy = copy]
  <2>1. thread[c].at = "perform" /\ s \in Steps /\ Deps[s] \subseteq settled
    BY <1>0, <1>14 DEF StepFails, ThreadIsSound
  <2>2. UNCHANGED <<row, approval, restarts, settled, raced>> /\ runs' = [runs EXCEPT ![s] = @ + 1]
        /\ Becomes(c, t)
    BY <1>14 DEF StepFails
  <2>3. runs' \in [Steps -> Nat]
    BY <1>0, <2>1, <2>2 DEF AutomationTypeOK
  <2>4. /\ copy \in [Steps -> StepStatuses]
        /\ \A k \in Steps : copy[k] = "COMPLETED" => thread[c].copy[k] = "COMPLETED"
    BY <1>t, <2>1 DEF ThreadStates, StepStatuses
  <2> HIDE DEF copy
  <2>5. /\ t \in ThreadStates /\ t.at = "save" /\ t.copy = copy /\ t.step = s /\ t.ready = thread[c].ready
    BY <1>t, <2>4 DEF ThreadStates, Working
  <2> HIDE DEF t
  <2>6. /\ thread' \in [Calls -> ThreadStates] /\ thread'[c] = t
        /\ \A e \in Calls : e # c => thread'[e] = thread[e]
    BY <1>0, <2>2, <2>5, OneThread
  <2>7. AutomationTypeOK' /\ RowIsSound'
    BY <1>0, <2>2, <2>3, <2>6 DEF AutomationTypeOK, RowIsSound
  <2>8. ThreadIsSound(c)'
    BY <1>0, <2>1, <2>2, <2>4, <2>5, <2>6 DEF ThreadIsSound, Deciding
  <2> QED
    BY <2>2, <2>6, <2>7, <2>8, OneThreadSound
<1>15. ASSUME NEW c \in Calls, SaveStep(c) PROVE AutoInv'
  <2> DEFINE place == IF thread[c].ready = {} THEN "look" ELSE "begin"
  <2>0. place \in {"look", "begin"} /\ place \in {"idle", "returned", "killed"} \cup Deciding \cup Working
    BY DEF Working
  <2>1. Goes(c, "save", place)
    BY <1>15 DEF SaveStep
  <2> HIDE DEF place
  <2>2. /\ thread' \in [Calls -> ThreadStates] /\ thread[c].at = "save" /\ thread'[c].at = place
        /\ thread'[c].copy = thread[c].copy /\ thread'[c].ready = thread[c].ready
        /\ \A d \in Calls : d # c => thread'[d] = thread[d]
    BY <1>0, <2>0, <2>1, OneMoves
  <2>3. row' = [status |-> "RUNNING", steps |-> thread[c].copy]
        /\ UNCHANGED <<approval, restarts, runs, settled, raced>>
    BY <1>15 DEF SaveStep, Writes, history
  <2>4. thread[c].copy \in [Steps -> StepStatuses]
    BY <1>t DEF ThreadStates
  <2>5. AutomationTypeOK' /\ RowIsSound'
    BY <1>0, <2>2, <2>3, <2>4 DEF AutomationTypeOK, RowIsSound, ThreadIsSound, InstanceStatuses, StepStatuses
  <2>6. ThreadIsSound(c)'
    BY <1>0, <2>0, <2>2, <2>3 DEF ThreadIsSound, Deciding
  <2> QED
    BY <2>2, <2>3, <2>5, <2>6, OneThreadSound
<1>16. CASE Restart
  <2> DEFINE gone == Outside("killed")
  <2>1. /\ gone \in ThreadStates /\ gone.at = "killed" /\ gone.ready = {}
        /\ \A s \in Steps : gone.copy[s] = "PENDING"
    BY <1>p DEF Outside, ThreadStates, Decisions
  <2>2. /\ thread' = [c \in Calls |-> IF thread[c].at \in Deciding \cup Working
                                     THEN gone ELSE thread[c]]
        /\ UNCHANGED <<row, approval, runs, settled, raced>> /\ restarts' = restarts + 1
        /\ restarts < MaxRestarts
    BY <1>16 DEF Restart
  <2> HIDE DEF gone
  <2>3. \A c \in Calls : thread'[c] = gone \/ thread'[c] = thread[c]
    BY <2>2
  <2>4. thread' \in [Calls -> ThreadStates]
    BY <1>t, <2>1, <2>2
  <2>5. AutomationTypeOK' /\ RowIsSound'
    BY <1>0, <2>2, <2>4 DEF AutomationTypeOK, RowIsSound
  <2>6. ASSUME NEW c \in Calls PROVE ApprovalIsSound(c)' /\ ThreadIsSound(c)'
    <3>1. CASE thread'[c] = gone
        BY <1>0, <2>1, <2>2, <3>1 DEF AutoInv, ApprovalIsSound, ThreadIsSound, Deciding
    <3>2. CASE thread'[c] = thread[c]
        BY <1>0, <2>2, <3>2 DEF AutoInv, ApprovalIsSound, ThreadIsSound
    <3> QED
        BY <2>3, <3>1, <3>2
  <2> QED
    BY <2>5, <2>6 DEF AutoInv
<1>17. CASE UNCHANGED autoVars
    BY <1>17 DEF autoVars, AutoInv, AutomationTypeOK, RowIsSound, ApprovalIsSound, ThreadIsSound
<1> QED
    BY <1>1, <1>2, <1>3, <1>4, <1>5, <1>6, <1>7, <1>8, <1>9, <1>10, <1>11, <1>12, <1>13, <1>14, <1>15,
       <1>16, <1>17 DEF AutomationNext, ThreadStep

\* The types of the row, the approvals and the threads are kept, for any
\* definition and any number of calls and restarts.
THEOREM AutomationTypeCorrect == AutomationSpec => []AutomationTypeOK
<1>1. AutoInv => AutomationTypeOK
    BY DEF AutoInv
<1> QED
    BY <1>1, AutoStart, AutoStep, PTL DEF AutomationSpec

\* For any definition and any number of calls and restarts, a step begins only
\* when all it depends on was carried out, approved or skipped.
THEOREM StepsAreNotEarly == AutomationSpec => []StepsWaitForDependencies
<1>1. AutoInv => StepsWaitForDependencies
    BY DEF AutoInv, ThreadIsSound, StepsWaitForDependencies
<1> QED
    BY <1>1, AutoStart, AutoStep, PTL DEF AutomationSpec

---------------------------------------------------------------------------
(* Nothing is carried out twice                                            *)

\* Without a race one thread is in charge of the instance, or one approval
\* waits for its decision, or none of both.
InCharge(c) == thread[c].at \in {"load", "store"} \cup (Working \ {"pause"})
Asked(a) == approval[a].status = "PENDING"
OneInCharge ==
    /\ \A c, d \in Calls : InCharge(c) /\ InCharge(d) => c = d
    /\ \A c, a \in Calls : InCharge(c) => ~Asked(a)
    /\ \A a, b \in Calls : Asked(a) /\ Asked(b) => a = b
    /\ \A c \in Calls : thread[c].at = "decide" => Asked(thread[c].about)
    /\ \A c, d \in Calls : thread[c].at = "decide" /\ thread[d].at = "decide" => c = d
    /\ \A c \in Calls : thread[c].at = "pause" =>
          Asked(c) \/ \E d \in Calls : thread[d].at = "load" /\ thread[d].about = c
    /\ row.status = "NONE" =>
          /\ \A c \in Calls : ~InCharge(c) /\ ~Asked(c) /\ thread[c].at # "pause"
          /\ \A s \in Steps : row.steps[s] = "PENDING"

\* What was carried out is pending nowhere, nor is it about to be carried out.
AtWork == {"store"} \cup (Working \ {"read"})
OnceInThread(c) ==
    \A s \in Steps :
        /\ thread[c].at \in AtWork /\ thread[c].copy[s] = "PENDING" => runs[s] = 0
        /\ thread[c].at \in {"begin", "perform", "save"} /\ s \in thread[c].ready => runs[s] = 0
        /\ thread[c].at = "perform" /\ s = thread[c].step =>
              /\ runs[s] = 0 /\ s \notin thread[c].ready
              /\ thread[c].copy[s] # "PENDING" /\ row.steps[s] # "PENDING"
OnceInRow == \A s \in Steps : runs[s] <= 1 /\ (row.steps[s] = "PENDING" => runs[s] = 0)
RaceInv == raced \/ (OneInCharge /\ OnceInRow /\ \A c \in Calls : OnceInThread(c))

RaceFree == OneInCharge /\ OnceInRow /\ \A c \in Calls : OnceInThread(c)

LEMMA RaceStart == AutomationInit => RaceInv
<1> SUFFICES ASSUME AutomationInit PROVE RaceFree
    BY DEF RaceInv, RaceFree
<1>1. \A c \in Calls : thread[c].at = "idle" /\ approval[c].status = "NONE"
    BY DEF AutomationInit, Outside, NoApproval
<1>2. OneInCharge
    BY <1>1 DEF AutomationInit, AllPending, OneInCharge, InCharge, Asked, Working
<1>3. OnceInRow
    BY DEF AutomationInit, OnceInRow
<1>4. \A c \in Calls : OnceInThread(c)
    BY <1>1 DEF OnceInThread, AtWork, Working
<1> QED
    BY <1>2, <1>3, <1>4 DEF RaceFree

\* Every other thread than c stands outside, and nobody is asked.
Alone(c) ==
    /\ \A d \in Calls : d # c => thread[d].at \in {"idle", "returned", "killed"}
    /\ \A a \in Calls : ~Asked(a)

LEMMA Places ==
    ASSUME AutoInv, NEW c \in Calls
    PROVE  thread[c].at \in {"idle", "returned", "killed", "decide", "load", "store", "read", "claim",
                             "look", "begin", "ask", "pause", "perform", "save", "conclude"}
  BY DEF AutoInv, AutomationTypeOK, ThreadStates, Deciding, Working

\* A thread in charge is alone, except that the thread that asked may still
\* have to store the pause when the decision is loaded.
LEMMA InChargeAlone ==
    ASSUME AutoInv, RaceFree, NEW c \in Calls, InCharge(c),
           thread[c].at # "load" \/ thread[thread[c].about].at # "pause"
    PROVE  Alone(c)
<1>1. \A a \in Calls : ~Asked(a)
    BY DEF RaceFree, OneInCharge
<1>2. ASSUME NEW d \in Calls, d # c PROVE thread[d].at \in {"idle", "returned", "killed"}
  <2>1. ~InCharge(d)
      BY <1>2 DEF RaceFree, OneInCharge
  <2>2. thread[d].at # "decide"
      BY <1>1 DEF RaceFree, OneInCharge, AutoInv, ThreadIsSound, Deciding
  <2>3. ASSUME thread[d].at = "pause" PROVE FALSE
    <3>1. PICK e \in Calls : thread[e].at = "load" /\ thread[e].about = d
        BY <1>1, <2>3 DEF RaceFree, OneInCharge
    <3>2. e = c
        BY <3>1 DEF RaceFree, OneInCharge, InCharge
    <3> QED
        BY <2>3, <3>1, <3>2
  <2> QED
      BY <2>1, <2>2, <2>3, Places DEF InCharge, Working
<1> QED
    BY <1>1, <1>2 DEF Alone

\* A step of a thread that is alone, which neither decides nor pauses next.
LEMMA AloneStep ==
    ASSUME NEW c \in Calls, Alone(c),
           \A d \in Calls : d # c => thread'[d] = thread[d],
           approval' = approval, row'.status # "NONE", thread'[c].at \notin {"decide", "pause"},
           OnceInRow', OnceInThread(c)'
    PROVE  RaceFree'
<1>1. \A d \in Calls : d # c => thread'[d].at \in {"idle", "returned", "killed"}
    BY DEF Alone
<1>2. \A a \in Calls : ~Asked(a)'
    BY DEF Alone, Asked
<1>3. OneInCharge'
    BY <1>1, <1>2 DEF OneInCharge, InCharge, Working
<1>4. \A d \in Calls : d # c => OnceInThread(d)'
    BY <1>1 DEF OnceInThread, AtWork, Working
<1> QED
    BY <1>3, <1>4 DEF RaceFree

\* A thread in charge writes its copy into the row and goes to another place.
LEMMA StoresCopy ==
    ASSUME AutoInv, RaceFree, NEW c \in Calls, Alone(c), thread[c].at \in AtWork,
           \A d \in Calls : d # c => thread'[d] = thread[d],
           row'.status # "NONE", row'.steps = thread[c].copy,
           UNCHANGED <<approval, runs>>, thread'[c].at \notin {"decide", "pause", "perform"},
           (thread'[c].copy = thread[c].copy /\ thread'[c].ready = thread[c].ready)
             \/ thread'[c].at = "returned",
           thread'[c].at \in {"begin", "save"} => thread[c].at \in {"begin", "perform", "save"}
    PROVE  RaceFree'
<1>1. OnceInRow'
    BY DEF RaceFree, OnceInRow, OnceInThread
<1>2. OnceInThread(c)'
    BY DEF RaceFree, OnceInThread, AtWork, Working
<1> QED
    BY <1>1, <1>2, AloneStep

LEMMA RaceStep == AutoInv /\ AutoInv' /\ RaceInv /\ [AutomationNext]_autoVars => RaceInv'
<1> SUFFICES ASSUME AutoInv, AutoInv', RaceInv, [AutomationNext]_autoVars, ~raced'
             PROVE  RaceFree'
    BY DEF RaceInv, RaceFree
<1> USE AutomationAssumption DEF AutomationAssumption
<1>0. AutomationTypeOK /\ AutomationTypeOK' /\ \A c \in Calls : ThreadIsSound(c)
    BY DEF AutoInv
<1>t. \A c \in Calls : thread[c] \in ThreadStates
    BY <1>0 DEF AutomationTypeOK
<1>r. ~raced
    BY DEF AutomationNext, ThreadStep, ExecuteDefinition, CheckApproval, Decide, LoadInstance,
           StoreDecision, ReadInstance, ClaimInstance, LookForSteps, Conclude, BeginStep,
           AskForApproval, PauseInstance, StepSucceeds, StepFails, SaveStep, Restart, autoVars, history
<1>f. RaceFree
    BY <1>r DEF RaceInv, RaceFree
<1>1. ASSUME NEW c \in Calls, ExecuteDefinition(c) PROVE RaceFree'
  <2>1. /\ thread[c].at = "idle" /\ thread'[c].at = "read"
        /\ \A d \in Calls : d # c => thread'[d] = thread[d]
    BY <1>0, <1>1, OneMoves DEF ExecuteDefinition, Working
  <2>2. /\ row.status = "NONE" /\ row' = [status |-> "PENDING", steps |-> AllPending]
        /\ UNCHANGED <<approval, runs>>
    BY <1>1 DEF ExecuteDefinition, Writes, history
  <2>3. \A d \in Calls : ~InCharge(d) /\ ~Asked(d) /\ thread[d].at # "pause"
    BY <1>f, <2>2 DEF RaceFree, OneInCharge
  <2>4. \A d \in Calls : thread[d].at # "decide"
    BY <1>0, <1>f, <2>3 DEF RaceFree, OneInCharge, ThreadIsSound, Deciding
  <2>5. Alone(c)
    BY <2>3, <2>4, Places DEF Alone, InCharge, Working
  <2>6. OnceInRow'
    BY <1>f, <2>2 DEF RaceFree, OneInCharge, OnceInRow
  <2>7. OnceInThread(c)'
    BY <2>1 DEF OnceInThread, AtWork
  <2> QED
    BY <2>1, <2>2, <2>5, <2>6, <2>7, AloneStep
<1>2. ASSUME NEW c \in Calls, NEW a \in Calls, NEW v \in Decisions, CheckApproval(c, a, v)
      PROVE  RaceFree'
  <2> DEFINE t == [thread[c] EXCEPT !.at = "decide", !.about = a, !.decision = v]
  <2>1. t \in ThreadStates /\ t.at = "decide" /\ t.about = a
    <3>1. t \in ThreadStates
        BY <1>t, StateDeciding
    <3> QED
        BY <1>t, <3>1 DEF ThreadStates
  <2>2. /\ Becomes(c, t) /\ thread[c].at = "idle" /\ Asked(a)
        /\ UNCHANGED <<row, approval, runs>>
        /\ \A e \in Calls : ~(thread[e].about = a /\ thread[e].at = "decide")
    BY <1>2 DEF CheckApproval, Asked
  <2> HIDE DEF t
  <2>3. thread'[c] = t /\ \A e \in Calls : e # c => thread'[e] = thread[e]
    BY <1>0, <2>1, <2>2, OneThread
  <2>4. \A e \in Calls : thread[e].at # "decide"
    BY <1>0, <1>f, <2>2 DEF RaceFree, OneInCharge, ThreadIsSound, Deciding
  <2>5. \A e \in Calls : InCharge(e)' <=> InCharge(e)
    BY <2>1, <2>2, <2>3 DEF InCharge, Working
  <2>6. \A e \in Calls : Asked(e)' <=> Asked(e)
    BY <2>2 DEF Asked
  <2>7. \A e \in Calls : (thread'[e].at = "pause" <=> thread[e].at = "pause")
                         /\ (thread[e].at = "load" => thread'[e] = thread[e])
    BY <2>1, <2>2, <2>3
  <2>8. \A e \in Calls : thread'[e].at = "decide" => e = c
    BY <2>3, <2>4
  <2>9. OneInCharge'
    BY <1>f, <2>1, <2>2, <2>3, <2>5, <2>6, <2>7, <2>8 DEF RaceFree, OneInCharge
  <2>10. OnceInRow' /\ \A e \in Calls : OnceInThread(e)'
    BY <1>f, <2>1, <2>2, <2>3 DEF RaceFree, OnceInRow, OnceInThread, AtWork, Working
  <2> QED
    BY <2>9, <2>10 DEF RaceFree
<1>3. ASSUME NEW c \in Calls, Decide(c) PROVE RaceFree'
  <2>a. PICK a : a = thread[c].about
    OBVIOUS
  <2>1. /\ thread[c].at = "decide" /\ thread'[c].at = "load" /\ thread'[c].about = a
        /\ \A d \in Calls : d # c => thread'[d] = thread[d]
    BY <1>0, <1>3, <2>a, OneMoves DEF Decide, Deciding
  <2>2. a \in Calls /\ Asked(a)
    BY <1>0, <1>f, <2>a, <2>1 DEF RaceFree, OneInCharge, ThreadIsSound, Deciding
  <2>3. /\ approval' = [approval EXCEPT ![a] = [step |-> approval[a].step, status |-> thread[c].decision]]
        /\ UNCHANGED <<row, runs>>
    BY <1>3, <2>a DEF Decide
  <2>4. approval'[a].status = thread[c].decision /\ thread[c].decision \in Decisions
    BY <1>0, <1>t, <2>2, <2>3 DEF AutomationTypeOK, ThreadStates
  <2>5. ~Asked(a)' /\ \A e \in Calls : e # a => approval'[e] = approval[e]
    <3>1. ~Asked(a)'
        BY <2>4 DEF Asked, Decisions
    <3>2. \A e \in Calls : e # a => approval'[e] = approval[e]
        BY <1>0, <2>2, <2>3 DEF AutomationTypeOK
    <3> QED
        BY <3>1, <3>2
  <2>6. ASSUME NEW e \in Calls PROVE ~Asked(e)' /\ (Asked(e) => e = a)
    <3>1. Asked(e) => e = a
        BY <1>f, <2>2 DEF RaceFree, OneInCharge
    <3>2. e # a => ~Asked(e)'
        BY <2>5, <3>1 DEF Asked
    <3> QED
        BY <2>5, <3>1, <3>2
  <2>7. \A e \in Calls : ~InCharge(e)
    BY <1>f, <2>2 DEF RaceFree, OneInCharge
  <2>8. \A e \in Calls : InCharge(e)' => e = c
    BY <2>1, <2>7 DEF InCharge
  <2>9. \A e \in Calls : thread'[e].at # "decide"
    BY <1>f, <2>1 DEF RaceFree, OneInCharge
  <2>10. \A e \in Calls : thread'[e].at = "pause" => e = a
    BY <1>f, <2>1, <2>6, <2>7 DEF RaceFree, OneInCharge, InCharge
  <2>11. row'.status # "NONE"
    BY <1>f, <2>2, <2>3 DEF RaceFree, OneInCharge
  <2>12. OneInCharge'
    BY <2>1, <2>6, <2>8, <2>9, <2>10, <2>11 DEF OneInCharge
  <2>13. OnceInRow' /\ \A e \in Calls : OnceInThread(e)'
    BY <1>f, <2>1, <2>3 DEF RaceFree, OnceInRow, OnceInThread, AtWork, Working
  <2> QED
    BY <2>12, <2>13 DEF RaceFree
<1>4. ASSUME NEW c \in Calls, LoadInstance(c) PROVE RaceFree'
  <2> DEFINE p == approval[thread[c].about].step
             copy == [row.steps EXCEPT ![p] =
                         IF thread[c].decision = "APPROVED" THEN "COMPLETED" ELSE "FAILED"]
             t == [thread[c] EXCEPT !.at = "store", !.copy = copy]
  <2>1. /\ thread[c].at = "load" /\ Becomes(c, t) /\ UNCHANGED <<row, approval, runs>>
        /\ thread[thread[c].about].at # "pause"
    BY <1>4 DEF LoadInstance
  <2>2. row.steps \in [Steps -> StepStatuses]
    BY <1>0 DEF AutomationTypeOK
  <2>3. /\ copy \in [Steps -> StepStatuses]
        /\ \A s \in Steps : copy[s] = "PENDING" => row.steps[s] = "PENDING"
    BY <2>2 DEF StepStatuses
  <2> HIDE DEF copy
  <2>4. t \in ThreadStates
    BY <1>t, <2>3, StateWithCopy DEF Deciding
  <2>5. t.at = "store" /\ t.copy = copy
    BY <1>t, <2>4 DEF ThreadStates
  <2> HIDE DEF t
  <2>6. thread'[c] = t /\ \A e \in Calls : e # c => thread'[e] = thread[e]
    BY <1>0, <2>1, <2>4, OneThread
  <2>7. InCharge(c) /\ Alone(c)
    BY <1>f, <2>1, InChargeAlone DEF InCharge
  <2>8. row'.status # "NONE" /\ OnceInRow'
    BY <1>f, <2>1, <2>7 DEF RaceFree, OneInCharge, OnceInRow
  <2>9. OnceInThread(c)'
    BY <1>f, <2>1, <2>3, <2>5, <2>6 DEF RaceFree, OnceInRow, OnceInThread
  <2> QED
    BY <2>1, <2>5, <2>6, <2>7, <2>8, <2>9, AloneStep
<1>5. ASSUME NEW c \in Calls, StoreDecision(c) PROVE RaceFree'
  <2>1. /\ thread[c].at = "store" /\ thread'[c].at = "read"
        /\ thread'[c].copy = thread[c].copy /\ thread'[c].ready = thread[c].ready
        /\ \A d \in Calls : d # c => thread'[d] = thread[d]
    BY <1>0, <1>5, OneMoves DEF StoreDecision, Working
  <2>2. row' = [status |-> "RUNNING", steps |-> thread[c].copy] /\ UNCHANGED <<approval, runs>>
    BY <1>5 DEF StoreDecision, Writes, history
  <2>3. Alone(c) /\ thread[c].at \in AtWork
    BY <1>f, <2>1, InChargeAlone DEF InCharge, AtWork
  <2> QED
    BY <1>f, <2>1, <2>2, <2>3, StoresCopy
<1>6. ASSUME NEW c \in Calls, ReadInstance(c) PROVE RaceFree'
  <2>0. UNCHANGED <<row, approval, runs>>
    BY <1>6 DEF ReadInstance, history
  <2>1. thread[c].at = "read"
    BY <1>6 DEF ReadInstance, Returns
  <2>2. InCharge(c) /\ Alone(c)
    BY <1>f, <2>1, InChargeAlone DEF InCharge, Working
  <2>3. row'.status # "NONE" /\ OnceInRow'
    BY <1>f, <2>0, <2>2 DEF RaceFree, OneInCharge, OnceInRow
  <2>4. CASE Returns(c, "read")
    <3>1. thread'[c].at = "returned" /\ \A d \in Calls : d # c => thread'[d] = thread[d]
      BY <1>0, <2>4, OneReturns
    <3>2. OnceInThread(c)'
      BY <3>1 DEF OnceInThread, AtWork, Working
    <3> QED
      BY <2>0, <2>2, <2>3, <3>1, <3>2, AloneStep
  <2>5. CASE Becomes(c, [thread[c] EXCEPT !.at = "claim", !.copy = row.steps])
    <3> DEFINE t == [thread[c] EXCEPT !.at = "claim", !.copy = row.steps]
    <3>1. row.steps \in [Steps -> StepStatuses]
      BY <1>0 DEF AutomationTypeOK
    <3>2. t \in ThreadStates
      BY <1>t, <3>1, StateWithCopy DEF Working
    <3>3. t.at = "claim" /\ t.copy = row.steps
      BY <1>t, <3>2 DEF ThreadStates
    <3> HIDE DEF t
    <3>4. thread'[c] = t /\ \A e \in Calls : e # c => thread'[e] = thread[e]
      BY <1>0, <2>5, <3>2, OneThread DEF t
    <3>5. OnceInThread(c)'
      BY <1>f, <2>0, <3>3, <3>4 DEF RaceFree, OnceInRow, OnceInThread
    <3> QED
      BY <2>0, <2>2, <2>3, <3>3, <3>4, <3>5, AloneStep
  <2> QED
    BY <1>6, <2>4, <2>5 DEF ReadInstance
<1>7. ASSUME NEW c \in Calls, ClaimInstance(c) PROVE RaceFree'
  <2>1. /\ thread[c].at = "claim" /\ thread'[c].at = "look"
        /\ thread'[c].copy = thread[c].copy /\ thread'[c].ready = thread[c].ready
        /\ \A d \in Calls : d # c => thread'[d] = thread[d]
    BY <1>0, <1>7, OneMoves DEF ClaimInstance, Working
  <2>2. row' = [status |-> "RUNNING", steps |-> thread[c].copy] /\ UNCHANGED <<approval, runs>>
    BY <1>7 DEF ClaimInstance, Writes, history
  <2>3. Alone(c) /\ thread[c].at \in AtWork
    BY <1>f, <2>1, InChargeAlone DEF InCharge, AtWork, Working
  <2> QED
    BY <1>f, <2>1, <2>2, <2>3, StoresCopy
<1>8. ASSUME NEW c \in Calls, LookForSteps(c) PROVE RaceFree'
  <2> DEFINE ready == ReadySteps(thread[c].copy)
  <2>0. UNCHANGED <<row, approval, runs>> /\ thread[c].at = "look"
    BY <1>8 DEF LookForSteps, history, Returns, Goes
  <2>1. InCharge(c) /\ Alone(c)
    BY <1>f, <2>0, InChargeAlone DEF InCharge, Working
  <2>2. row'.status # "NONE" /\ OnceInRow'
    BY <1>f, <2>0, <2>1 DEF RaceFree, OneInCharge, OnceInRow
  <2>3. CASE Returns(c, "look")
    <3>1. thread'[c].at = "returned" /\ \A d \in Calls : d # c => thread'[d] = thread[d]
      BY <1>0, <2>3, OneReturns
    <3>2. OnceInThread(c)'
      BY <3>1 DEF OnceInThread, AtWork, Working
    <3> QED
      BY <2>0, <2>1, <2>2, <3>1, <3>2, AloneStep
  <2>4. CASE Goes(c, "look", "conclude")
    <3>1. /\ thread'[c].at = "conclude" /\ thread'[c].copy = thread[c].copy
          /\ \A d \in Calls : d # c => thread'[d] = thread[d]
      BY <1>0, <2>4, OneMoves DEF Working
    <3>2. OnceInThread(c)'
      BY <1>f, <2>0, <3>1 DEF RaceFree, OnceInThread, AtWork, Working
    <3> QED
      BY <2>0, <2>1, <2>2, <3>1, <3>2, AloneStep
  <2>5. CASE Becomes(c, [thread[c] EXCEPT !.at = "begin", !.ready = ready])
    <3> DEFINE t == [thread[c] EXCEPT !.at = "begin", !.ready = ready]
    <3>1. ready \subseteq Steps /\ \A s \in ready : thread[c].copy[s] = "PENDING"
      BY DEF ReadySteps
    <3> HIDE DEF ready
    <3>2. t \in ThreadStates
      BY <1>t, <3>1, StateWithReady DEF Working
    <3>3. t.at = "begin" /\ t.copy = thread[c].copy /\ t.ready = ready
      BY <1>t, <3>2 DEF ThreadStates
    <3> HIDE DEF t
    <3>4. thread'[c] = t /\ \A e \in Calls : e # c => thread'[e] = thread[e]
      BY <1>0, <2>5, <3>2, OneThread DEF t, ready
    <3>5. thread[c].at \in AtWork
      BY <2>0 DEF AtWork, Working
    <3>6. OnceInThread(c)'
      BY <1>f, <2>0, <3>1, <3>3, <3>4, <3>5 DEF RaceFree, OnceInThread
    <3> QED
      BY <2>0, <2>1, <2>2, <3>3, <3>4, <3>6, AloneStep
  <2> QED
    BY <1>8, <2>3, <2>4, <2>5 DEF LookForSteps
<1>9. ASSUME NEW c \in Calls, Conclude(c) PROVE RaceFree'
  <2> DEFINE status == IF \E s \in Steps : thread[c].copy[s] = "FAILED" THEN "FAILED" ELSE "COMPLETED"
  <2>1. Returns(c, "conclude") /\ row' = [status |-> status, steps |-> thread[c].copy]
        /\ UNCHANGED <<approval, runs>> /\ status # "NONE"
    BY <1>9 DEF Conclude, Writes, history
  <2> HIDE DEF status
  <2>2. /\ thread[c].at = "conclude" /\ thread'[c].at = "returned"
        /\ \A d \in Calls : d # c => thread'[d] = thread[d]
    BY <1>0, <2>1, OneReturns
  <2>3. Alone(c) /\ thread[c].at \in AtWork
    BY <1>f, <2>2, InChargeAlone DEF InCharge, AtWork, Working
  <2> QED
    BY <1>f, <2>1, <2>2, <2>3, StoresCopy
<1>10. ASSUME NEW c \in Calls, BeginStep(c) PROVE RaceFree'
  <2>1. PICK s \in Steps :
          LET copy == [thread[c].copy EXCEPT ![s] = "RUNNING"] IN
          /\ thread[c].at = "begin"
          /\ IsFirst(s, thread[c].ready)
          /\ Becomes(c, [thread[c] EXCEPT !.at = IF s \in Approvals THEN "ask" ELSE "perform",
                                         !.copy = copy, !.step = s, !.ready = @ \ {s}])
          /\ Writes("RUNNING", copy)
          /\ UNCHANGED <<approval, history>>
    BY <1>10 DEF BeginStep
  <2> DEFINE copy == [thread[c].copy EXCEPT ![s] = "RUNNING"]
             place == IF s \in Approvals THEN "ask" ELSE "perform"
             t == [thread[c] EXCEPT !.at = place, !.copy = copy, !.step = s, !.ready = @ \ {s}]
  <2>2. /\ copy \in [Steps -> StepStatuses] /\ copy[s] = "RUNNING"
        /\ \A k \in Steps : copy[k] = "PENDING" => thread[c].copy[k] = "PENDING"
    BY <1>t DEF ThreadStates, StepStatuses
  <2>3. /\ row' = [status |-> "RUNNING", steps |-> copy] /\ Becomes(c, t) /\ thread[c].at = "begin"
        /\ UNCHANGED <<approval, runs>> /\ s \in thread[c].ready
    BY <2>1 DEF Writes, history, IsFirst
  <2>4. place \in {"ask", "perform"}
    OBVIOUS
  <2> HIDE DEF copy, place
  <2>5. /\ t \in ThreadStates /\ t.at = place /\ t.copy = copy /\ t.step = s
        /\ t.ready = thread[c].ready \ {s}
    BY <1>t, <2>2, <2>4 DEF ThreadStates, Working
  <2> HIDE DEF t
  <2>6. thread'[c] = t /\ \A e \in Calls : e # c => thread'[e] = thread[e]
    BY <1>0, <2>3, <2>5, OneThread
  <2>7. Alone(c)
    BY <1>f, <2>3, InChargeAlone DEF InCharge, Working
  <2>8. /\ \A k \in Steps : thread[c].copy[k] = "PENDING" => runs[k] = 0
        /\ \A k \in Steps : k \in thread[c].ready => runs[k] = 0
    BY <1>f, <2>3 DEF RaceFree, OnceInThread, AtWork, Working
  <2>9. OnceInRow'
    BY <1>f, <2>2, <2>3, <2>8 DEF RaceFree, OnceInRow
  <2>10. OnceInThread(c)'
    BY <2>2, <2>3, <2>5, <2>6, <2>8 DEF OnceInThread
  <2> QED
    BY <2>3, <2>4, <2>5, <2>6, <2>7, <2>9, <2>10, AloneStep
<1>11. ASSUME NEW c \in Calls, AskForApproval(c) PROVE RaceFree'
  <2>1. /\ thread[c].at = "ask" /\ thread'[c].at = "pause" /\ thread'[c].copy = thread[c].copy
        /\ \A d \in Calls : d # c => thread'[d] = thread[d]
    BY <1>0, <1>11, OneMoves DEF AskForApproval, Working
  <2>2. /\ approval' = [approval EXCEPT ![c] = [step |-> thread[c].step, status |-> "PENDING"]]
        /\ UNCHANGED <<row, runs>>
    BY <1>11 DEF AskForApproval, history
  <2>3. Asked(c)' /\ \A e \in Calls : e # c => approval'[e] = approval[e]
    BY <1>0, <2>2 DEF AutomationTypeOK, Asked
  <2>4. InCharge(c) /\ Alone(c)
    BY <1>f, <2>1, InChargeAlone DEF InCharge, Working
  <2>5. \A e \in Calls : Asked(e)' => e = c
    BY <2>3, <2>4 DEF Alone, Asked
  <2>6. \A e \in Calls : e # c => thread'[e].at \in {"idle", "returned", "killed"}
    BY <2>1, <2>4 DEF Alone
  <2>7. row'.status # "NONE"
    BY <1>f, <2>2, <2>4 DEF RaceFree, OneInCharge
  <2>8. OneInCharge'
    BY <2>1, <2>3, <2>5, <2>6, <2>7 DEF OneInCharge, InCharge, Working
  <2>9. OnceInRow' /\ OnceInThread(c)'
    BY <1>f, <2>1, <2>2 DEF RaceFree, OnceInRow, OnceInThread, AtWork, Working
  <2>10. \A e \in Calls : e # c => OnceInThread(e)'
    BY <2>6 DEF OnceInThread, AtWork, Working
  <2> QED
    BY <2>8, <2>9, <2>10 DEF RaceFree
<1>12. ASSUME NEW c \in Calls, PauseInstance(c) PROVE RaceFree'
  <2> DEFINE copy == [thread[c].copy EXCEPT ![thread[c].step] = "PAUSED"]
  <2>1. Returns(c, "pause") /\ row' = [status |-> "PAUSED", steps |-> copy]
        /\ UNCHANGED <<approval, runs>>
    BY <1>12 DEF PauseInstance, Writes, history
  <2>2. /\ thread[c].at = "pause" /\ thread'[c].at = "returned"
        /\ \A d \in Calls : d # c => thread'[d] = thread[d]
    BY <1>0, <2>1, OneReturns
  <2>3. \A k \in Steps : copy[k] = "PENDING" => thread[c].copy[k] = "PENDING"
    BY <1>t DEF ThreadStates
  <2> HIDE DEF copy
  <2>4. /\ \A e \in Calls : InCharge(e)' <=> InCharge(e)
        /\ \A e \in Calls : Asked(e)' <=> Asked(e)
        /\ \A e \in Calls : thread'[e].at \in {"decide", "pause"} =>
              e # c /\ thread'[e] = thread[e]
        /\ \A e \in Calls : thread[e].at = "load" => thread'[e] = thread[e]
    BY <2>1, <2>2 DEF InCharge, Asked, Working
  <2>5. OneInCharge'
    <3>1. row'.status # "NONE"
        BY <2>1
    <3>2. ASSUME NEW e \in Calls, thread'[e].at = "decide" PROVE Asked(thread[e].about)'
      <4>1. thread'[e] = thread[e] /\ thread[e].about \in Calls
          BY <1>0, <2>4, <3>2 DEF ThreadIsSound, Deciding
      <4>2. Asked(thread[e].about)
          BY <1>f, <3>2, <4>1 DEF RaceFree, OneInCharge
      <4> QED
          BY <2>1, <4>1, <4>2 DEF Asked
    <3>3. ASSUME NEW e \in Calls, thread'[e].at = "pause"
          PROVE  Asked(e)' \/ \E d \in Calls : thread'[d].at = "load" /\ thread'[d].about = e
      <4>1. thread[e].at = "pause"
          BY <2>4, <3>3
      <4>2. Asked(e) \/ \E d \in Calls : thread[d].at = "load" /\ thread[d].about = e
          BY <1>f, <4>1 DEF RaceFree, OneInCharge
      <4> QED
          BY <2>4, <4>2
    <3>4. \A e, d \in Calls : thread'[e].at = "decide" /\ thread'[d].at = "decide" => e = d
        BY <1>f, <2>4 DEF RaceFree, OneInCharge
    <3>5. /\ \A e, d \in Calls : InCharge(e)' /\ InCharge(d)' => e = d
          /\ \A e, a \in Calls : InCharge(e)' => ~Asked(a)'
          /\ \A a, b \in Calls : Asked(a)' /\ Asked(b)' => a = b
        BY <1>f, <2>4 DEF RaceFree, OneInCharge
    <3> QED
        BY <3>1, <3>2, <3>3, <3>4, <3>5 DEF OneInCharge
  <2>6. OnceInRow'
    BY <1>f, <2>1, <2>2, <2>3 DEF RaceFree, OnceInRow, OnceInThread, AtWork, Working
  <2>7. ASSUME NEW e \in Calls PROVE OnceInThread(e)'
    <3>1. CASE e = c
        BY <2>2, <3>1 DEF OnceInThread, AtWork, Working
    <3>2. CASE e # c
      <4>1. thread[e].at # "perform"
        <5>1. ASSUME thread[e].at = "perform" PROVE FALSE
          <6>1. Alone(e)
              BY <1>f, <5>1, InChargeAlone DEF InCharge, Working
          <6> QED
              BY <2>2, <3>2, <6>1 DEF Alone
        <5> QED
          BY <5>1
      <4> QED
        BY <1>f, <2>1, <2>2, <3>2, <4>1 DEF RaceFree, OnceInThread
    <3> QED
        BY <3>1, <3>2
  <2> QED
    BY <2>5, <2>6, <2>7 DEF RaceFree
<1>13. ASSUME NEW c \in Calls, StepSucceeds(c) \/ StepFails(c) PROVE RaceFree'
  <2> DEFINE s == thread[c].step
  <2>1. PICK copy \in [Steps -> StepStatuses] :
          /\ \A k \in Steps : copy[k] = "PENDING" => thread[c].copy[k] = "PENDING" /\ k # s
          /\ Becomes(c, [thread[c] EXCEPT !.at = "save", !.copy = copy])
    <3>1. CASE StepSucceeds(c)
      <4>1. PICK skipped \in SkippedBy(s) :
              LET done == skipped \cup {s} IN
              Becomes(c, [thread[c] EXCEPT !.at = "save",
                    !.copy = [t \in Steps |-> IF t \in done THEN "COMPLETED" ELSE @[t]]])
        BY <3>1 DEF StepSucceeds
      <4> DEFINE copy == [k \in Steps |-> IF k \in skipped \cup {s} THEN "COMPLETED" ELSE thread[c].copy[k]]
      <4>2. copy \in [Steps -> StepStatuses]
        BY <1>t DEF ThreadStates, StepStatuses
      <4>3. \A k \in Steps : copy[k] = "PENDING" => thread[c].copy[k] = "PENDING" /\ k # s
        OBVIOUS
      <4>4. Becomes(c, [thread[c] EXCEPT !.at = "save", !.copy = copy])
        BY <4>1
      <4> HIDE DEF copy
      <4> QED
        BY <4>2, <4>3, <4>4
    <3>2. CASE StepFails(c)
      <4> DEFINE copy == [thread[c].copy EXCEPT ![s] = "FAILED"]
      <4>1. copy \in [Steps -> StepStatuses]
            /\ \A k \in Steps : copy[k] = "PENDING" => thread[c].copy[k] = "PENDING" /\ k # s
        BY <1>t DEF ThreadStates, StepStatuses
      <4>2. Becomes(c, [thread[c] EXCEPT !.at = "save", !.copy = copy])
        BY <3>2 DEF StepFails
      <4> HIDE DEF copy
      <4> QED
        BY <4>1, <4>2
    <3> QED
      BY <1>13, <3>1, <3>2
  <2> DEFINE t == [thread[c] EXCEPT !.at = "save", !.copy = copy]
  <2>2. t \in ThreadStates
    BY <1>t, <2>1, StateWithCopy DEF Working
  <2>3. t.at = "save" /\ t.copy = copy /\ t.ready = thread[c].ready
    BY <1>t, <2>2 DEF ThreadStates
  <2> HIDE DEF t
  <2>4. thread'[c] = t /\ \A e \in Calls : e # c => thread'[e] = thread[e]
    BY <1>0, <2>1, <2>2, OneThread DEF t
  <2>5. /\ thread[c].at = "perform" /\ UNCHANGED <<row, approval>>
        /\ runs' = [runs EXCEPT ![s] = @ + 1]
    BY <1>13 DEF StepSucceeds, StepFails
  <2>6. s \in Steps
    BY <1>0, <2>5 DEF ThreadIsSound
  <2>7. runs'[s] = runs[s] + 1 /\ \A k \in Steps : k # s => runs'[k] = runs[k]
    BY <1>0, <2>5, <2>6 DEF AutomationTypeOK
  <2>8. runs[s] = 0 /\ s \notin thread[c].ready /\ row.steps[s] # "PENDING"
    BY <1>f, <2>5, <2>6 DEF RaceFree, OnceInThread
  <2>9. InCharge(c) /\ Alone(c)
    BY <1>f, <2>5, InChargeAlone DEF InCharge, Working
  <2>10. row'.status # "NONE"
    BY <1>f, <2>5, <2>9 DEF RaceFree, OneInCharge
  <2>11. OnceInRow'
    BY <1>f, <2>5, <2>7, <2>8 DEF RaceFree, OnceInRow
  <2>12. /\ \A k \in Steps : thread[c].copy[k] = "PENDING" => runs[k] = 0
         /\ \A k \in Steps : k \in thread[c].ready => runs[k] = 0
    BY <1>f, <2>5 DEF RaceFree, OnceInThread, AtWork, Working
  <2>13. OnceInThread(c)'
    BY <2>1, <2>3, <2>4, <2>7, <2>8, <2>12 DEF OnceInThread
  <2> QED
    BY <2>3, <2>4, <2>5, <2>9, <2>10, <2>11, <2>13, AloneStep
<1>14. ASSUME NEW c \in Calls, SaveStep(c) PROVE RaceFree'
  <2> DEFINE place == IF thread[c].ready = {} THEN "look" ELSE "begin"
  <2>0. place \in {"look", "begin"} /\ place \in {"idle", "returned", "killed"} \cup Deciding \cup Working
    BY DEF Working
  <2>1. Goes(c, "save", place)
    BY <1>14 DEF SaveStep
  <2> HIDE DEF place
  <2>2. /\ thread[c].at = "save" /\ thread'[c].at = place
        /\ thread'[c].copy = thread[c].copy /\ thread'[c].ready = thread[c].ready
        /\ \A d \in Calls : d # c => thread'[d] = thread[d]
    BY <1>0, <2>0, <2>1, OneMoves
  <2>3. row' = [status |-> "RUNNING", steps |-> thread[c].copy] /\ UNCHANGED <<approval, runs>>
    BY <1>14 DEF SaveStep, Writes, history
  <2>4. Alone(c) /\ thread[c].at \in AtWork
    BY <1>f, <2>2, InChargeAlone DEF InCharge, AtWork, Working
  <2> QED
    BY <1>f, <2>0, <2>2, <2>3, <2>4, StoresCopy
<1>15. CASE Restart
  <2> DEFINE gone == Outside("killed")
  <2>1. gone.at = "killed"
    BY DEF Outside
  <2>2. /\ thread' = [c \in Calls |-> IF thread[c].at \in Deciding \cup Working
                                     THEN gone ELSE thread[c]]
        /\ UNCHANGED <<row, approval, runs>>
    BY <1>15 DEF Restart
  <2> HIDE DEF gone
  <2>3. \A c \in Calls : thread'[c].at \in {"idle", "returned", "killed"}
    BY <2>1, <2>2, Places DEF Deciding, Working
  <2>4. \A c \in Calls : Asked(c)' <=> Asked(c)
    BY <2>2 DEF Asked
  <2>5. OneInCharge'
    BY <1>f, <2>2, <2>3, <2>4 DEF RaceFree, OneInCharge, InCharge, Working
  <2>6. OnceInRow' /\ \A c \in Calls : OnceInThread(c)'
    BY <1>f, <2>2, <2>3 DEF RaceFree, OnceInRow, OnceInThread, AtWork, Working
  <2> QED
    BY <2>5, <2>6 DEF RaceFree
<1>16. CASE UNCHANGED autoVars
    BY <1>f, <1>16 DEF autoVars, RaceFree, OneInCharge, OnceInRow, OnceInThread, InCharge, Asked
<1> QED
    BY <1>1, <1>2, <1>3, <1>4, <1>5, <1>6, <1>7, <1>8, <1>9, <1>10, <1>11, <1>12, <1>13, <1>14, <1>15,
       <1>16 DEF AutomationNext, ThreadStep

\* For any definition and any number of calls and restarts, a step is carried
\* out twice only after a race between the decisions on an approval.
THEOREM StepsRunOnce == AutomationSpec => []OnlyARaceRepeatsAStep
<1>1. RaceInv => OnlyARaceRepeatsAStep
    BY DEF RaceInv, OnceInRow, OnlyARaceRepeatsAStep
<1> QED
    BY <1>1, AutoStart, AutoStep, RaceStart, RaceStep, PTL DEF AutomationSpec

---------------------------------------------------------------------------
(* The end says what the steps say                                         *)

\* Without a race no step is left RUNNING or PAUSED but the one that is being
\* carried out or waits for a decision, so whoever decides leaves none; and
\* nobody goes on with an instance that has ended.
Open(steps) == {s \in Steps : steps[s] \in {"RUNNING", "PAUSED"}}
OpenInThread(c) ==
    /\ thread[c].at = "load" => Open(row.steps) \subseteq {approval[thread[c].about].step}
    /\ thread[c].at = "read" => Open(row.steps) = {}
    /\ thread[c].at \in {"store", "claim", "look", "begin", "save", "conclude"} =>
          Open(thread[c].copy) = {}
    /\ thread[c].at \in {"ask", "pause", "perform"} => Open(thread[c].copy) \subseteq {thread[c].step}
    /\ thread[c].at \in {"ask", "pause"} => Open(row.steps) \subseteq {thread[c].step}
    /\ thread[c].at = "pause" => approval[c].step = thread[c].step
    /\ thread[c].at = "conclude" => ReadySteps(thread[c].copy) = {}
OpenInRow == \A a \in Calls : Asked(a) => Open(row.steps) \subseteq {approval[a].step}
NobodyGoesOn == \A c \in Calls : ~InCharge(c) /\ ~Asked(c) /\ thread[c].at # "pause"
StepsAreOver ==
    /\ Open(row.steps) = {} /\ ReadySteps(row.steps) = {}
    /\ row.status = "FAILED" <=> \E s \in Steps : row.steps[s] = "FAILED"
EndIsSound == row.status \in Ended => NobodyGoesOn /\ StepsAreOver
EndFree == OpenInRow /\ EndIsSound /\ \A c \in Calls : OpenInThread(c)
EndInv == raced \/ EndFree

LEMMA EndStart == AutomationInit => EndInv
<1> SUFFICES ASSUME AutomationInit PROVE EndFree
    BY DEF EndInv
<1>1. \A c \in Calls : thread[c].at = "idle" /\ approval[c].status = "NONE"
    BY DEF AutomationInit, Outside, NoApproval
<1>2. row.status = "NONE"
    BY DEF AutomationInit
<1> QED
    BY <1>1, <1>2 DEF EndFree, OpenInRow, EndIsSound, OpenInThread, Asked, Ended

\* A step of a thread that is alone needs to see to that thread and to the end.
LEMMA AloneEnds ==
    ASSUME NEW c \in Calls, Alone(c),
           \A d \in Calls : d # c => thread'[d] = thread[d],
           approval' = approval, OpenInThread(c)',
           row'.status \in Ended => ~InCharge(c)' /\ thread'[c].at # "pause" /\ StepsAreOver'
    PROVE  EndFree'
<1>1. \A d \in Calls : d # c => thread'[d].at \in {"idle", "returned", "killed"}
    BY DEF Alone
<1>2. \A a \in Calls : ~Asked(a)'
    BY DEF Alone, Asked
<1>3. \A d \in Calls : d # c => OpenInThread(d)'
    BY <1>1 DEF OpenInThread
<1>4. EndIsSound'
    BY <1>1, <1>2 DEF EndIsSound, NobodyGoesOn, InCharge, Working
<1> QED
    BY <1>2, <1>3, <1>4 DEF EndFree, OpenInRow

\* It stores a copy in which nothing is open and goes on with it.
LEMMA StoresAndGoesOn ==
    ASSUME NEW c \in Calls, Alone(c), Open(thread[c].copy) = {},
           \A d \in Calls : d # c => thread'[d] = thread[d],
           row' = [status |-> "RUNNING", steps |-> thread[c].copy], approval' = approval,
           thread'[c].copy = thread[c].copy,
           thread'[c].at \in {"read", "look", "begin"}
    PROVE  EndFree'
<1>1. row'.status \notin Ended /\ row'.steps = thread[c].copy
    BY DEF Ended
<1>2. OpenInThread(c)'
    BY <1>1 DEF OpenInThread, Open
<1> QED
    BY <1>1, <1>2, AloneEnds

LEMMA EndStep ==
    AutoInv /\ RaceInv /\ EndInv /\ [AutomationNext]_autoVars => EndInv'
<1> SUFFICES ASSUME AutoInv, RaceInv, EndInv, [AutomationNext]_autoVars, ~raced'
             PROVE  EndFree'
    BY DEF EndInv
<1> USE AutomationAssumption DEF AutomationAssumption
<1>0. AutomationTypeOK /\ \A c \in Calls : ThreadIsSound(c)
    BY DEF AutoInv
<1>t. \A c \in Calls : thread[c] \in ThreadStates
    BY <1>0 DEF AutomationTypeOK
<1>r. ~raced
    BY DEF AutomationNext, ThreadStep, ExecuteDefinition, CheckApproval, Decide, LoadInstance,
           StoreDecision, ReadInstance, ClaimInstance, LookForSteps, Conclude, BeginStep,
           AskForApproval, PauseInstance, StepSucceeds, StepFails, SaveStep, Restart, autoVars, history
<1>f. RaceFree /\ EndFree
    BY <1>r DEF RaceInv, RaceFree, EndInv
<1>g. \A c \in Calls : OpenInThread(c) /\ (InCharge(c) => row.status \notin Ended)
    BY <1>f DEF EndFree, EndIsSound, NobodyGoesOn
<1>1. ASSUME NEW c \in Calls, ExecuteDefinition(c) PROVE EndFree'
  <2>1. /\ thread'[c].at = "read" /\ \A d \in Calls : d # c => thread'[d] = thread[d]
    BY <1>0, <1>1, OneMoves DEF ExecuteDefinition, Working
  <2>2. /\ row.status = "NONE" /\ row' = [status |-> "PENDING", steps |-> AllPending]
        /\ approval' = approval
    BY <1>1 DEF ExecuteDefinition, Writes
  <2>3. \A d \in Calls : ~InCharge(d) /\ ~Asked(d) /\ thread[d].at # "pause"
    BY <1>f, <2>2 DEF RaceFree, OneInCharge
  <2>4. \A d \in Calls : thread[d].at # "decide"
    BY <1>0, <1>f, <2>3 DEF RaceFree, OneInCharge, ThreadIsSound, Deciding
  <2>5. Alone(c)
    BY <2>3, <2>4, Places DEF Alone, InCharge, Working
  <2>6. row'.status \notin Ended /\ Open(row'.steps) = {}
    BY <2>2 DEF Ended, Open, AllPending
  <2>7. OpenInThread(c)'
    BY <2>1, <2>6 DEF OpenInThread, Open
  <2> QED
    BY <2>1, <2>2, <2>5, <2>6, <2>7, AloneEnds
<1>2. ASSUME NEW c \in Calls, NEW a \in Calls, NEW v \in Decisions, CheckApproval(c, a, v)
      PROVE  EndFree'
  <2> DEFINE t == [thread[c] EXCEPT !.at = "decide", !.about = a, !.decision = v]
  <2>1. t \in ThreadStates /\ t.at = "decide"
    <3>1. t \in ThreadStates
        BY <1>t, StateDeciding
    <3> QED
        BY <1>t, <3>1 DEF ThreadStates
  <2>2. Becomes(c, t) /\ Asked(a) /\ row' = row /\ approval' = approval
    BY <1>2 DEF CheckApproval, Asked
  <2> HIDE DEF t
  <2>3. thread'[c].at = "decide" /\ \A e \in Calls : e # c => thread'[e] = thread[e]
    BY <1>0, <2>1, <2>2, OneThread
  <2>4. row'.status \notin Ended
    BY <1>f, <2>2 DEF EndFree, EndIsSound, NobodyGoesOn
  <2>5. OpenInThread(c)' /\ \A e \in Calls : e # c => OpenInThread(e)'
    BY <1>g, <2>2, <2>3 DEF OpenInThread, Open
  <2> QED
    BY <1>f, <2>2, <2>4, <2>5 DEF EndFree, EndIsSound, OpenInRow, Asked, Open
<1>3. ASSUME NEW c \in Calls, Decide(c) PROVE EndFree'
  <2>a. PICK a : a = thread[c].about
    OBVIOUS
  <2>1. /\ thread[c].at = "decide" /\ thread'[c].at = "load" /\ thread'[c].about = a
        /\ \A d \in Calls : d # c => thread'[d] = thread[d]
    BY <1>0, <1>3, <2>a, OneMoves DEF Decide, Deciding
  <2>2. a \in Calls /\ Asked(a)
    BY <1>0, <1>f, <2>a, <2>1 DEF RaceFree, OneInCharge, ThreadIsSound, Deciding
  <2>3. /\ approval' = [approval EXCEPT ![a] = [step |-> approval[a].step, status |-> thread[c].decision]]
        /\ row' = row
    BY <1>3, <2>a DEF Decide
  <2>4. thread[c].decision \in Decisions
    BY <1>t DEF ThreadStates
  <2>5. /\ ~Asked(a)' /\ \A e \in Calls : e # a => approval'[e] = approval[e]
        /\ \A e \in Calls : approval'[e].step = approval[e].step
    BY <1>0, <2>2, <2>3, <2>4 DEF AutomationTypeOK, Asked, Decisions
  <2>6. \A e \in Calls : ~Asked(e)'
    BY <1>f, <2>2, <2>5 DEF RaceFree, OneInCharge, Asked
  <2>7. row'.status \notin Ended /\ Open(row'.steps) \subseteq {approval[a].step}
    BY <1>f, <2>2, <2>3 DEF EndFree, EndIsSound, NobodyGoesOn, OpenInRow
  <2>8. OpenInThread(c)'
    BY <2>1, <2>2, <2>5, <2>7 DEF OpenInThread, Open
  <2>9. ASSUME NEW e \in Calls, e # c PROVE OpenInThread(e)'
    <3>1. OpenInThread(e) /\ thread'[e] = thread[e]
        BY <1>g, <2>1, <2>9
    <3>2. thread[e].at # "load"
        BY <1>f, <2>2 DEF RaceFree, OneInCharge, InCharge
    <3> QED
        BY <2>3, <2>5, <3>1, <3>2 DEF OpenInThread, Open
  <2> QED
    BY <2>6, <2>7, <2>8, <2>9 DEF EndFree, EndIsSound, OpenInRow
<1>4. ASSUME NEW c \in Calls, LoadInstance(c) PROVE EndFree'
  <2> DEFINE p == approval[thread[c].about].step
             copy == [row.steps EXCEPT ![p] =
                         IF thread[c].decision = "APPROVED" THEN "COMPLETED" ELSE "FAILED"]
             t == [thread[c] EXCEPT !.at = "store", !.copy = copy]
  <2>1. /\ thread[c].at = "load" /\ Becomes(c, t) /\ row' = row /\ approval' = approval
        /\ thread[thread[c].about].at # "pause"
    BY <1>4 DEF LoadInstance
  <2>2. row.steps \in [Steps -> StepStatuses] /\ Open(row.steps) \subseteq {p}
    BY <1>0, <1>g, <2>1 DEF AutomationTypeOK, OpenInThread
  <2>3. copy \in [Steps -> StepStatuses] /\ Open(copy) = {}
    <3>1. copy \in [Steps -> StepStatuses]
        BY <2>2 DEF StepStatuses
    <3>2. \A k \in Steps : k # p => copy[k] = row.steps[k]
        BY <2>2
    <3>3. p \in Steps => copy[p] \in {"COMPLETED", "FAILED"}
        BY <2>2
    <3> HIDE DEF copy
    <3> QED
        BY <2>2, <3>1, <3>2, <3>3 DEF Open
  <2> HIDE DEF copy
  <2>4. t \in ThreadStates
    BY <1>t, <2>3, StateWithCopy DEF Deciding
  <2>5. t.at = "store" /\ t.copy = copy
    BY <1>t, <2>4 DEF ThreadStates
  <2> HIDE DEF t
  <2>6. thread'[c] = t /\ \A e \in Calls : e # c => thread'[e] = thread[e]
    BY <1>0, <2>1, <2>4, OneThread
  <2>7. InCharge(c) /\ Alone(c)
    BY <1>f, <2>1, InChargeAlone DEF InCharge
  <2>8. OpenInThread(c)'
    BY <2>3, <2>5, <2>6 DEF OpenInThread, Open
  <2> QED
    BY <1>g, <2>1, <2>6, <2>7, <2>8, AloneEnds
<1>5. ASSUME NEW c \in Calls, StoreDecision(c) PROVE EndFree'
  <2>1. /\ thread[c].at = "store" /\ thread'[c].at = "read" /\ thread'[c].copy = thread[c].copy
        /\ \A d \in Calls : d # c => thread'[d] = thread[d]
    BY <1>0, <1>5, OneMoves DEF StoreDecision, Working
  <2>2. row' = [status |-> "RUNNING", steps |-> thread[c].copy] /\ approval' = approval
    BY <1>5 DEF StoreDecision, Writes
  <2>3. Alone(c) /\ Open(thread[c].copy) = {}
    BY <1>f, <1>g, <2>1, InChargeAlone DEF InCharge, OpenInThread
  <2> QED
    BY <2>1, <2>2, <2>3, StoresAndGoesOn
<1>6. ASSUME NEW c \in Calls, ReadInstance(c) PROVE EndFree'
  <2>1. /\ thread[c].at = "read" /\ row' = row /\ approval' = approval
        /\ row.status \notin Ended => Becomes(c, [thread[c] EXCEPT !.at = "claim", !.copy = row.steps])
    BY <1>g, <1>6 DEF ReadInstance, Returns
  <2>2. InCharge(c) /\ Alone(c) /\ Open(row.steps) = {}
    BY <1>f, <1>g, <2>1, InChargeAlone DEF InCharge, Working, OpenInThread
  <2> DEFINE t == [thread[c] EXCEPT !.at = "claim", !.copy = row.steps]
  <2>3. t \in ThreadStates
    BY <1>0, <1>t, StateWithCopy DEF AutomationTypeOK, Working
  <2>4. t.at = "claim" /\ t.copy = row.steps
    BY <1>t, <2>3 DEF ThreadStates
  <2>5. Becomes(c, t)
    BY <1>g, <2>1, <2>2
  <2> HIDE DEF t
  <2>6. thread'[c] = t /\ \A e \in Calls : e # c => thread'[e] = thread[e]
    BY <1>0, <2>3, <2>5, OneThread
  <2>7. OpenInThread(c)'
    BY <2>2, <2>4, <2>6 DEF OpenInThread, Open
  <2> QED
    BY <1>g, <2>1, <2>2, <2>6, <2>7, AloneEnds
<1>7. ASSUME NEW c \in Calls, ClaimInstance(c) PROVE EndFree'
  <2>1. /\ thread[c].at = "claim" /\ thread'[c].at = "look" /\ thread'[c].copy = thread[c].copy
        /\ \A d \in Calls : d # c => thread'[d] = thread[d]
    BY <1>0, <1>7, OneMoves DEF ClaimInstance, Working
  <2>2. row' = [status |-> "RUNNING", steps |-> thread[c].copy] /\ approval' = approval
    BY <1>7 DEF ClaimInstance, Writes
  <2>3. Alone(c) /\ Open(thread[c].copy) = {}
    BY <1>f, <1>g, <2>1, InChargeAlone DEF InCharge, Working, OpenInThread
  <2> QED
    BY <2>1, <2>2, <2>3, StoresAndGoesOn
<1>8. ASSUME NEW c \in Calls, LookForSteps(c) PROVE EndFree'
  <2> DEFINE ready == ReadySteps(thread[c].copy)
  <2>0. row' = row /\ approval' = approval /\ thread[c].at = "look"
    BY <1>8 DEF LookForSteps, Returns, Goes
  <2>1. InCharge(c) /\ Alone(c) /\ Open(thread[c].copy) = {}
    BY <1>f, <1>g, <2>0, InChargeAlone DEF InCharge, Working, OpenInThread
  <2>2. CASE ready = {}
    <3>1. Goes(c, "look", "conclude")
      <4>1. ~ \E s \in Steps : thread[c].copy[s] = "RUNNING"
        BY <2>1 DEF Open
      <4> QED
        BY <1>8, <2>2, <4>1 DEF LookForSteps
    <3>2. /\ thread'[c].at = "conclude" /\ thread'[c].copy = thread[c].copy
          /\ \A d \in Calls : d # c => thread'[d] = thread[d]
      BY <1>0, <3>1, OneMoves DEF Working
    <3>3. OpenInThread(c)'
      BY <2>1, <2>2, <3>2 DEF OpenInThread, Open, ReadySteps
    <3> QED
      BY <1>g, <2>0, <2>1, <3>2, <3>3, AloneEnds
  <2>3. CASE ready # {}
    <3> DEFINE t == [thread[c] EXCEPT !.at = "begin", !.ready = ready]
    <3>1. Becomes(c, t)
      BY <1>8, <2>3 DEF LookForSteps
    <3>2. ready \subseteq Steps
      BY DEF ReadySteps
    <3> HIDE DEF ready
    <3>3. t \in ThreadStates
      BY <1>t, <3>2, StateWithReady DEF Working
    <3>4. t.at = "begin" /\ t.copy = thread[c].copy
      BY <1>t, <3>3 DEF ThreadStates
    <3> HIDE DEF t
    <3>5. thread'[c] = t /\ \A e \in Calls : e # c => thread'[e] = thread[e]
      BY <1>0, <3>1, <3>3, OneThread
    <3>6. OpenInThread(c)'
      BY <2>1, <3>4, <3>5 DEF OpenInThread, Open
    <3> QED
      BY <1>g, <2>0, <2>1, <3>5, <3>6, AloneEnds
  <2> QED
    BY <2>2, <2>3
<1>9. ASSUME NEW c \in Calls, Conclude(c) PROVE EndFree'
  <2> DEFINE failed == \E s \in Steps : thread[c].copy[s] = "FAILED"
  <2>1. /\ Returns(c, "conclude") /\ approval' = approval
        /\ row' = [status |-> IF failed THEN "FAILED" ELSE "COMPLETED", steps |-> thread[c].copy]
    BY <1>9 DEF Conclude, Writes
  <2>2. /\ thread[c].at = "conclude" /\ thread'[c].at = "returned"
        /\ \A d \in Calls : d # c => thread'[d] = thread[d]
    BY <1>0, <2>1, OneReturns
  <2>3. Alone(c) /\ Open(thread[c].copy) = {} /\ ReadySteps(thread[c].copy) = {}
    BY <1>f, <1>g, <2>2, InChargeAlone DEF InCharge, Working, OpenInThread
  <2>4. row'.steps = thread[c].copy /\ (row'.status = "FAILED" <=> failed)
    BY <2>1
  <2>5. StepsAreOver'
    BY <2>3, <2>4 DEF StepsAreOver, Open, ReadySteps
  <2>6. OpenInThread(c)' /\ ~InCharge(c)' /\ thread'[c].at # "pause"
    BY <2>2 DEF OpenInThread, InCharge, Working
  <2> QED
    BY <2>1, <2>2, <2>3, <2>5, <2>6, AloneEnds
<1>10. ASSUME NEW c \in Calls, BeginStep(c) PROVE EndFree'
  <2>1. PICK s \in Steps :
          LET copy == [thread[c].copy EXCEPT ![s] = "RUNNING"] IN
          /\ thread[c].at = "begin"
          /\ IsFirst(s, thread[c].ready)
          /\ Becomes(c, [thread[c] EXCEPT !.at = IF s \in Approvals THEN "ask" ELSE "perform",
                                         !.copy = copy, !.step = s, !.ready = @ \ {s}])
          /\ Writes("RUNNING", copy)
          /\ UNCHANGED <<approval, history>>
    BY <1>10 DEF BeginStep
  <2> DEFINE copy == [thread[c].copy EXCEPT ![s] = "RUNNING"]
             place == IF s \in Approvals THEN "ask" ELSE "perform"
             t == [thread[c] EXCEPT !.at = place, !.copy = copy, !.step = s, !.ready = @ \ {s}]
  <2>2. /\ row' = [status |-> "RUNNING", steps |-> copy] /\ Becomes(c, t) /\ thread[c].at = "begin"
        /\ approval' = approval
    BY <2>1 DEF Writes
  <2>3. Alone(c) /\ Open(thread[c].copy) = {}
    BY <1>f, <1>g, <2>2, InChargeAlone DEF InCharge, Working, OpenInThread
  <2>c. copy \in [Steps -> StepStatuses]
    BY <1>t DEF ThreadStates, StepStatuses
  <2>4. Open(copy) \subseteq {s}
    BY <1>t, <2>3 DEF ThreadStates, Open
  <2>5. place \in {"ask", "perform"}
    OBVIOUS
  <2> HIDE DEF copy, place
  <2>6. t \in ThreadStates /\ t.at = place /\ t.copy = copy /\ t.step = s
    <3>1. thread[c] \in ThreadStates
        BY <1>t
    <3>2. place \in Working
        BY <2>5 DEF Working
    <3>3. copy \in [Steps -> StepStatuses]
        BY <2>c
    <3>4. t \in ThreadStates
        BY <3>1, <3>2, <3>3, StateBeginning
    <3> QED
        BY <3>1, <3>4 DEF ThreadStates
  <2> HIDE DEF t
  <2>7. thread'[c] = t /\ \A e \in Calls : e # c => thread'[e] = thread[e]
    BY <1>0, <2>2, <2>6, OneThread
  <2>8. row'.status \notin Ended /\ row'.steps = copy
    BY <2>2 DEF Ended
  <2>9. OpenInThread(c)'
    BY <2>4, <2>5, <2>6, <2>7, <2>8 DEF OpenInThread, Open
  <2> QED
    BY <2>2, <2>3, <2>7, <2>8, <2>9, AloneEnds
<1>11. ASSUME NEW c \in Calls, AskForApproval(c) PROVE EndFree'
  <2>1. /\ thread[c].at = "ask" /\ thread'[c].at = "pause" /\ thread'[c].copy = thread[c].copy
        /\ thread'[c].step = thread[c].step
        /\ \A d \in Calls : d # c => thread'[d] = thread[d]
    BY <1>0, <1>11, OneMoves DEF AskForApproval, Working
  <2>2. /\ approval' = [approval EXCEPT ![c] = [step |-> thread[c].step, status |-> "PENDING"]]
        /\ row' = row
    BY <1>11 DEF AskForApproval
  <2>3. /\ approval'[c].step = thread[c].step /\ \A e \in Calls : e # c => approval'[e] = approval[e]
    BY <1>0, <2>2 DEF AutomationTypeOK
  <2>4. InCharge(c) /\ Alone(c) /\ Open(row.steps) \subseteq {thread[c].step}
    BY <1>f, <1>g, <2>1, InChargeAlone DEF InCharge, Working, OpenInThread
  <2>5. \A e \in Calls : Asked(e)' => e = c
    BY <2>3, <2>4 DEF Alone, Asked
  <2>6. row'.status \notin Ended
    BY <1>g, <2>2, <2>4
  <2>7. \A e \in Calls : e # c => thread'[e].at \in {"idle", "returned", "killed"}
    BY <2>1, <2>4 DEF Alone
  <2>8. OpenInThread(c)'
    BY <1>g, <2>1, <2>2, <2>3, <2>4 DEF OpenInThread, Open
  <2>9. \A e \in Calls : e # c => OpenInThread(e)'
    BY <2>7 DEF OpenInThread
  <2>10. OpenInRow'
    BY <2>2, <2>3, <2>4, <2>5 DEF OpenInRow, Open
  <2> QED
    BY <2>6, <2>8, <2>9, <2>10 DEF EndFree, EndIsSound
<1>12. ASSUME NEW c \in Calls, PauseInstance(c) PROVE EndFree'
  <2> DEFINE s == thread[c].step
             copy == [thread[c].copy EXCEPT ![s] = "PAUSED"]
  <2>1. Returns(c, "pause") /\ row' = [status |-> "PAUSED", steps |-> copy] /\ approval' = approval
    BY <1>12 DEF PauseInstance, Writes
  <2>2. /\ thread[c].at = "pause" /\ thread'[c].at = "returned"
        /\ \A d \in Calls : d # c => thread'[d] = thread[d]
    BY <1>0, <2>1, OneReturns
  <2>3. Open(thread[c].copy) \subseteq {s} /\ approval[c].step = s
    BY <1>g, <2>2 DEF OpenInThread
  <2>4. Open(copy) \subseteq {s}
    BY <1>t, <2>3 DEF ThreadStates, Open
  <2> HIDE DEF copy
  <2>5. row'.steps = copy /\ row'.status \notin Ended
    BY <2>1 DEF Ended
  <2>6. Asked(c) \/ \E d \in Calls : thread[d].at = "load" /\ thread[d].about = c
    BY <1>f, <2>2 DEF RaceFree, OneInCharge
  <2>7. OpenInRow'
    <3>1. ASSUME NEW e \in Calls, Asked(e)' PROVE e = c
      <4>1. Asked(e)
        BY <2>1, <3>1 DEF Asked
      <4>2. Asked(c)
        BY <1>f, <2>6, <4>1 DEF RaceFree, OneInCharge, InCharge
      <4> QED
        BY <1>f, <4>1, <4>2 DEF RaceFree, OneInCharge
    <3> QED
      BY <2>1, <2>3, <2>4, <2>5, <3>1 DEF OpenInRow, Open
  <2>8. ASSUME NEW e \in Calls, e # c PROVE OpenInThread(e)'
    <3>1. OpenInThread(e) /\ thread'[e] = thread[e]
      BY <1>g, <2>2, <2>8
    <3>2. thread[e].at # "pause"
      <4>1. ASSUME thread[e].at = "pause" PROVE FALSE
        <5>1. Asked(e) \/ \E d \in Calls : thread[d].at = "load" /\ thread[d].about = e
          BY <1>f, <4>1 DEF RaceFree, OneInCharge
        <5> QED
          BY <1>f, <2>6, <2>8, <5>1 DEF RaceFree, OneInCharge, InCharge
      <4> QED
        BY <4>1
    <3>3. InCharge(e) => thread[e].at = "load" /\ thread[e].about = c
      BY <1>f, <2>6 DEF RaceFree, OneInCharge, InCharge
    <3>4. thread[e].at \notin {"read", "ask", "perform", "store", "claim", "look", "begin", "save", "conclude"}
      BY <3>3 DEF InCharge, Working
    <3>5. thread[e].at = "load" => Open(row'.steps) \subseteq {approval'[thread[e].about].step}
      BY <2>1, <2>3, <2>4, <2>5, <3>3 DEF InCharge
    <3> QED
      BY <3>1, <3>2, <3>4, <3>5 DEF OpenInThread, Open
  <2>9. OpenInThread(c)'
    BY <2>2 DEF OpenInThread
  <2> QED
    BY <2>5, <2>7, <2>8, <2>9 DEF EndFree, EndIsSound
<1>13. ASSUME NEW c \in Calls, StepSucceeds(c) \/ StepFails(c) PROVE EndFree'
  <2> DEFINE s == thread[c].step
  <2>1. thread[c].at = "perform" /\ row' = row /\ approval' = approval
    BY <1>13 DEF StepSucceeds, StepFails
  <2>2. InCharge(c) /\ Alone(c) /\ Open(thread[c].copy) \subseteq {s} /\ s \in Steps
    BY <1>0, <1>f, <1>g, <2>1, InChargeAlone DEF InCharge, Working, OpenInThread, ThreadIsSound
  <2>3. PICK copy \in [Steps -> StepStatuses] :
          /\ Open(copy) = {}
          /\ Becomes(c, [thread[c] EXCEPT !.at = "save", !.copy = copy])
    <3>1. CASE StepSucceeds(c)
      <4>1. PICK skipped \in SkippedBy(s) :
              LET done == skipped \cup {s} IN
              Becomes(c, [thread[c] EXCEPT !.at = "save",
                    !.copy = [t \in Steps |-> IF t \in done THEN "COMPLETED" ELSE @[t]]])
        BY <3>1 DEF StepSucceeds
      <4> DEFINE copy == [k \in Steps |-> IF k \in skipped \cup {s} THEN "COMPLETED" ELSE thread[c].copy[k]]
      <4>2. copy \in [Steps -> StepStatuses]
        BY <1>t DEF ThreadStates, StepStatuses
      <4>3. Open(copy) = {}
        BY <2>2 DEF Open
      <4>4. Becomes(c, [thread[c] EXCEPT !.at = "save", !.copy = copy])
        BY <4>1
      <4> HIDE DEF copy
      <4> QED
        BY <4>2, <4>3, <4>4
    <3>2. CASE StepFails(c)
      <4> DEFINE copy == [thread[c].copy EXCEPT ![s] = "FAILED"]
      <4>1. copy \in [Steps -> StepStatuses] /\ Open(copy) = {}
        BY <1>t, <2>2 DEF ThreadStates, StepStatuses, Open
      <4>2. Becomes(c, [thread[c] EXCEPT !.at = "save", !.copy = copy])
        BY <3>2 DEF StepFails
      <4> HIDE DEF copy
      <4> QED
        BY <4>1, <4>2
    <3> QED
      BY <1>13, <3>1, <3>2
  <2> DEFINE t == [thread[c] EXCEPT !.at = "save", !.copy = copy]
  <2>4. t \in ThreadStates
    BY <1>t, <2>3, StateWithCopy DEF Working
  <2>5. t.at = "save" /\ t.copy = copy
    BY <1>t, <2>4 DEF ThreadStates
  <2> HIDE DEF t
  <2>6. thread'[c] = t /\ \A e \in Calls : e # c => thread'[e] = thread[e]
    BY <1>0, <2>3, <2>4, OneThread DEF t
  <2>7. OpenInThread(c)'
    BY <2>3, <2>5, <2>6 DEF OpenInThread, Open
  <2> QED
    BY <1>g, <2>1, <2>2, <2>6, <2>7, AloneEnds
<1>14. ASSUME NEW c \in Calls, SaveStep(c) PROVE EndFree'
  <2> DEFINE place == IF thread[c].ready = {} THEN "look" ELSE "begin"
  <2>0. place \in {"look", "begin"} /\ place \in {"idle", "returned", "killed"} \cup Deciding \cup Working
    BY DEF Working
  <2>1. Goes(c, "save", place)
    BY <1>14 DEF SaveStep
  <2> HIDE DEF place
  <2>2. /\ thread[c].at = "save" /\ thread'[c].at = place /\ thread'[c].copy = thread[c].copy
        /\ \A d \in Calls : d # c => thread'[d] = thread[d]
    BY <1>0, <2>0, <2>1, OneMoves
  <2>3. row' = [status |-> "RUNNING", steps |-> thread[c].copy] /\ approval' = approval
    BY <1>14 DEF SaveStep, Writes
  <2>4. Alone(c) /\ Open(thread[c].copy) = {}
    BY <1>f, <1>g, <2>2, InChargeAlone DEF InCharge, Working, OpenInThread
  <2> QED
    BY <2>0, <2>2, <2>3, <2>4, StoresAndGoesOn
<1>15. CASE Restart
  <2> DEFINE gone == Outside("killed")
  <2>1. gone.at = "killed"
    BY DEF Outside
  <2>2. /\ thread' = [c \in Calls |-> IF thread[c].at \in Deciding \cup Working
                                     THEN gone ELSE thread[c]]
        /\ row' = row /\ approval' = approval
    BY <1>15 DEF Restart
  <2> HIDE DEF gone
  <2>3. \A c \in Calls : thread'[c].at \in {"idle", "returned", "killed"}
    BY <2>1, <2>2, Places DEF Deciding, Working
  <2>4. \A c \in Calls : OpenInThread(c)' /\ ~InCharge(c)' /\ thread'[c].at # "pause"
    BY <2>3 DEF OpenInThread, InCharge, Working
  <2>5. OpenInRow' /\ \A c \in Calls : Asked(c)' <=> Asked(c)
    BY <1>f, <2>2 DEF EndFree, OpenInRow, Asked, Open
  <2>6. StepsAreOver' <=> StepsAreOver
    BY <2>2 DEF StepsAreOver, Open, ReadySteps
  <2>7. EndIsSound'
    BY <1>f, <2>2, <2>4, <2>5, <2>6 DEF EndFree, EndIsSound, NobodyGoesOn
  <2> QED
    BY <2>4, <2>5, <2>7 DEF EndFree
<1>16. CASE UNCHANGED autoVars
    BY <1>f, <1>16 DEF autoVars, EndFree, OpenInRow, EndIsSound, OpenInThread, NobodyGoesOn, StepsAreOver,
           InCharge, Asked, Open, ReadySteps
<1> QED
    BY <1>1, <1>2, <1>3, <1>4, <1>5, <1>6, <1>7, <1>8, <1>9, <1>10, <1>11, <1>12, <1>13, <1>14, <1>15,
       <1>16 DEF AutomationNext, ThreadStep

\* For any definition: short of a race an instance that has ended has no step
\* under way, waiting or ready, it is FAILED exactly if a step is, and no
\* thread, approver or restart takes it up again.
InstanceIsOver == ~raced /\ row.status \in Ended => NobodyGoesOn /\ StepsAreOver
THEOREM NothingIsGivenUp == AutomationSpec => []InstanceIsOver
<1>1. EndInv => InstanceIsOver
    BY DEF EndInv, EndFree, EndIsSound, InstanceIsOver
<1> QED
    BY <1>1, AutoStart, AutoStep, RaceStart, RaceStep, EndStart, EndStep, PTL DEF AutomationSpec

LEMMA NothingLeft ==
    ASSUME AutoInv, StepsAreOver, row.status = "COMPLETED",
           NEW D \in SUBSET Steps, Complete(D)
    PROVE  D \subseteq settled
<1> USE AutomationAssumption DEF AutomationAssumption
<1> DEFINE P == {s \in D : row.steps[s] = "PENDING"}
<1>1. row.steps \in [Steps -> StepStatuses]
    BY DEF AutoInv, AutomationTypeOK
<1>2. \A s \in D : s \in P \/ row.steps[s] = "COMPLETED"
    BY <1>1 DEF StepsAreOver, Open, StepStatuses
<1>3. P = {}
  <2>1. ASSUME P # {} PROVE FALSE
    <3>1. PICK s \in P : Deps[s] \cap P = {}
      BY <2>1 DEF Complete
    <3>2. \A d \in Deps[s] : d \in Steps /\ row.steps[d] = "COMPLETED"
      BY <1>2, <3>1 DEF Complete
    <3>3. s \in ReadySteps(row.steps)
      BY <3>2 DEF ReadySteps
    <3> QED
      BY <3>3 DEF StepsAreOver
  <2> QED
    BY <2>1
<1> QED
    BY <1>2, <1>3 DEF AutoInv, RowIsSound

\* For any definition, whatever its dependencies and branches name, and any
\* number of calls and restarts: an instance that has ended has no step left
\* that could be done, is FAILED for a step that failed, and COMPLETED with all
\* steps carried out, approved or skipped but those that depend on a circle or
\* on what is no step; or a race was on.
THEOREM EndIsRight == AutomationSpec => []EndReflectsTheSteps
<1>1. ASSUME AutoInv, StepsAreOver, row.status = "COMPLETED" PROVE Feasible \subseteq settled
    BY <1>1, NothingLeft DEF Feasible
<1>2. AutoInv /\ EndInv => EndReflectsTheSteps
    BY <1>1 DEF EndInv, EndFree, EndIsSound, StepsAreOver, EndReflectsTheSteps, Ended
<1> QED
    BY <1>2, AutoStart, AutoStep, RaceStart, RaceStep, EndStart, EndStep, PTL DEF AutomationSpec

\* All together: every step in its turn and once, and the end they make.
THEOREM StepsKeepOrder == AutomationSpec => []StepsRunInOrder
<1>1. StepsWaitForDependencies /\ OnlyARaceRepeatsAStep /\ EndReflectsTheSteps => StepsRunInOrder
    BY DEF StepsRunInOrder
<1>2. QED
    BY <1>1, StepsAreNotEarly, StepsRunOnce, EndIsRight, PTL

---------------------------------------------------------------------------
(* Why a thread comes to its end.  It begins a step once, since it works   *)
(* on its own copy of the statuses, and with four steps of its own for     *)
(* each: begin, perform, save and the next look.                           *)

\* The steps that a thread can still begin.
StepsAhead(t) ==
    CASE t.at \in {"idle", "read"} \cup Deciding -> Steps
      [] t.at \in {"returned", "killed"} -> {}
      [] OTHER -> t.ready \cup {s \in Steps : t.copy[s] = "PENDING"}

\* What it has to do besides.
PlacesAhead ==
    [idle |-> 9, decide |-> 8, load |-> 7, store |-> 6, read |-> 5, claim |-> 4, perform |-> 5,
     save |-> 4, ask |-> 4, pause |-> 3, look |-> 3, begin |-> 2, conclude |-> 2,
     returned |-> 0, killed |-> 0]

WayToGo(c) == 4 * Cardinality(StepsAhead(thread[c])) + PlacesAhead[thread[c].at]

EveryThreadGoesOn ==
    \A c \in Calls : /\ WayToGo(c)' <= WayToGo(c)
                     /\ ThreadStep(c) => WayToGo(c)' < WayToGo(c)

\* The one place where a thread needs something: a ready step to begin.
SomeStepIsNext ==
    \A c \in Calls : thread[c].at = "begin" => \E s \in Steps : IsFirst(s, thread[c].ready)

\* A step leads nearer to the end: to a later place, or back to an earlier one
\* for a step that is now begun.
Nearer(t, u) ==
    \/ StepsAhead(u) \subseteq StepsAhead(t) /\ PlacesAhead[u.at] < PlacesAhead[t.at]
    \/ /\ PlacesAhead[u.at] <= PlacesAhead[t.at] + 3
       /\ \E s \in StepsAhead(t) : StepsAhead(u) \subseteq StepsAhead(t) \ {s}

LEMMA StepsAheadAreSteps == ASSUME NEW t \in ThreadStates PROVE StepsAhead(t) \subseteq Steps
  BY DEF ThreadStates, StepsAhead

LEMMA PlacesAreNumbered == ASSUME NEW t \in ThreadStates PROVE PlacesAhead[t.at] \in 0..9
<1>1. \A p \in {"idle", "returned", "killed"} \cup Deciding \cup Working : PlacesAhead[p] \in 0..9
    BY DEF Deciding, Working, PlacesAhead
<1> QED
    BY <1>1 DEF ThreadStates

LEMMA NearerIsLess ==
    ASSUME IsFiniteSet(Steps), NEW t \in ThreadStates, NEW u \in ThreadStates, Nearer(t, u)
    PROVE  4 * Cardinality(StepsAhead(u)) + PlacesAhead[u.at]
               < 4 * Cardinality(StepsAhead(t)) + PlacesAhead[t.at]
<1> DEFINE T == StepsAhead(t)
           U == StepsAhead(u)
<1>1. /\ IsFiniteSet(T) /\ Cardinality(T) \in Nat
      /\ IsFiniteSet(U) /\ Cardinality(U) \in Nat
    BY StepsAheadAreSteps, FS_Subset, FS_CardinalityType
<1>2. PlacesAhead[t.at] \in Nat /\ PlacesAhead[u.at] \in Nat
    BY PlacesAreNumbered
<1>3. ASSUME U \subseteq T, PlacesAhead[u.at] < PlacesAhead[t.at]
      PROVE  4 * Cardinality(U) + PlacesAhead[u.at] < 4 * Cardinality(T) + PlacesAhead[t.at]
  <2>1. Cardinality(U) <= Cardinality(T)
      BY <1>1, <1>3, FS_Subset
  <2> HIDE DEF T, U
  <2> QED
      BY <1>1, <1>2, <1>3, <2>1
<1>4. ASSUME NEW s \in T, U \subseteq T \ {s}, PlacesAhead[u.at] <= PlacesAhead[t.at] + 3
      PROVE  4 * Cardinality(U) + PlacesAhead[u.at] < 4 * Cardinality(T) + PlacesAhead[t.at]
  <2>1. IsFiniteSet(T \ {s}) /\ Cardinality(T \ {s}) = Cardinality(T) - 1
      BY <1>1, FS_RemoveElement
  <2>2. Cardinality(U) <= Cardinality(T) - 1
      BY <1>4, <2>1, FS_Subset
  <2> HIDE DEF T, U
  <2> QED
      BY <1>1, <1>2, <1>4, <2>2
<1> QED
    BY <1>3, <1>4 DEF Nearer

HasNext(t) == t.at = "begin" => t.ready # {}

LEMMA ThreadStepIsNearer ==
    ASSUME AutomationTypeOK, NEW c \in Calls, ThreadStep(c)
    PROVE  /\ Nearer(thread[c], thread'[c]) /\ HasNext(thread'[c])
           /\ \A d \in Calls : d # c => thread'[d] = thread[d]
<1> DEFINE Goal == /\ Nearer(thread[c], thread'[c]) /\ HasNext(thread'[c])
                   /\ \A d \in Calls : d # c => thread'[d] = thread[d]
<1> USE DEF Deciding, Working
<1>t. thread[c] \in ThreadStates /\ row.steps \in [Steps -> StepStatuses]
    BY DEF AutomationTypeOK
<1>1. ASSUME \/ Goes(c, "decide", "load") \/ Goes(c, "store", "read") \/ Goes(c, "claim", "look")
             \/ Goes(c, "look", "conclude") \/ Goes(c, "ask", "pause") \/ Goes(c, "save", "look")
             \/ thread[c].ready # {} /\ Goes(c, "save", "begin")
      PROVE  Goal
  <2>1. ASSUME NEW from \in {"decide", "store", "claim", "look", "ask", "save"},
               NEW to \in {"load", "read", "look", "conclude", "pause", "begin"},
               Goes(c, from, to)
        PROVE  /\ thread[c].at = from /\ thread'[c].at = to
               /\ thread'[c].copy = thread[c].copy /\ thread'[c].ready = thread[c].ready
               /\ \A d \in Calls : d # c => thread'[d] = thread[d]
    BY <2>1, OneMoves
  <2> QED
    BY <1>1, <2>1 DEF Nearer, HasNext, StepsAhead, PlacesAhead
<1>2. ASSUME NEW from \in {"read", "look", "conclude", "pause"}, Returns(c, from) PROVE Goal
  <2>1. /\ thread[c].at = from /\ thread'[c].at = "returned"
        /\ \A d \in Calls : d # c => thread'[d] = thread[d]
    BY <1>2, OneReturns
  <2> QED
    BY <2>1 DEF Nearer, HasNext, StepsAhead, PlacesAhead
<1>3. CASE LoadInstance(c)
  <2> DEFINE copy == [row.steps EXCEPT ![approval[thread[c].about].step] =
                         IF thread[c].decision = "APPROVED" THEN "COMPLETED" ELSE "FAILED"]
             u == [thread[c] EXCEPT !.at = "store", !.copy = copy]
  <2>1. copy \in [Steps -> StepStatuses]
    BY <1>t DEF StepStatuses
  <2>2. thread[c].at = "load" /\ Becomes(c, u)
    BY <1>3 DEF LoadInstance
  <2> HIDE DEF copy
  <2>3. u \in ThreadStates
    BY <1>t, <2>1, StateWithCopy
  <2>4. u.at = "store"
    BY <1>t DEF ThreadStates
  <2> HIDE DEF u
  <2>5. thread'[c] = u /\ \A d \in Calls : d # c => thread'[d] = thread[d]
    BY <2>2, <2>3, OneThread
  <2> QED
    BY <2>2, <2>4, <2>5 DEF Nearer, HasNext, StepsAhead, PlacesAhead
<1>4. CASE ReadInstance(c)
  <2>1. CASE row.status \in Ended
    BY <1>2, <1>4, <2>1 DEF ReadInstance
  <2>2. CASE row.status \notin Ended
    <3> DEFINE u == [thread[c] EXCEPT !.at = "claim", !.copy = row.steps]
    <3>1. thread[c].at = "read" /\ Becomes(c, u)
      BY <1>4, <2>2 DEF ReadInstance
    <3>2. u \in ThreadStates
      BY <1>t, StateWithCopy
    <3>3. u.at = "claim" /\ StepsAhead(u) \subseteq Steps
      BY <1>t, <3>2, StepsAheadAreSteps DEF ThreadStates
    <3> HIDE DEF u
    <3>4. thread'[c] = u /\ \A d \in Calls : d # c => thread'[d] = thread[d]
      BY <3>1, <3>2, OneThread
    <3>5. StepsAhead(thread[c]) = Steps
      BY <3>1 DEF StepsAhead
    <3> QED
      BY <3>1, <3>3, <3>4, <3>5 DEF Nearer, HasNext, PlacesAhead
  <2> QED
    BY <2>1, <2>2
<1>5. CASE LookForSteps(c)
  <2> DEFINE ready == ReadySteps(thread[c].copy)
             u == [thread[c] EXCEPT !.at = "begin", !.ready = ready]
  <2>1. CASE ready # {}
    <3>1. thread[c].at = "look" /\ Becomes(c, u)
      BY <1>5, <2>1 DEF LookForSteps
    <3>2. ready \subseteq {s \in Steps : thread[c].copy[s] = "PENDING"}
      BY DEF ReadySteps
    <3> HIDE DEF ready
    <3>3. u \in ThreadStates
      BY <1>t, <3>2, StateWithReady
    <3>4. u.at = "begin" /\ u.ready = ready /\ u.copy = thread[c].copy
      BY <1>t DEF ThreadStates
    <3> HIDE DEF u
    <3>5. thread'[c] = u /\ \A d \in Calls : d # c => thread'[d] = thread[d]
      BY <3>1, <3>3, OneThread
    <3>6. StepsAhead(u) \subseteq StepsAhead(thread[c])
      BY <3>1, <3>2, <3>4 DEF StepsAhead
    <3> QED
      BY <2>1, <3>1, <3>4, <3>5, <3>6 DEF Nearer, HasNext, PlacesAhead
  <2>2. CASE ready = {}
    <3>1. Returns(c, "look") \/ Goes(c, "look", "conclude")
      BY <1>5, <2>2 DEF LookForSteps
    <3> QED
      BY <1>1, <1>2, <3>1
  <2> QED
    BY <2>1, <2>2
<1>6. CASE BeginStep(c)
  <2>1. PICK s \in Steps :
          LET copy == [thread[c].copy EXCEPT ![s] = "RUNNING"] IN
          /\ thread[c].at = "begin"
          /\ IsFirst(s, thread[c].ready)
          /\ Becomes(c, [thread[c] EXCEPT !.at = IF s \in Approvals THEN "ask" ELSE "perform",
                                          !.copy = copy, !.step = s, !.ready = @ \ {s}])
    BY <1>6 DEF BeginStep
  <2> DEFINE copy == [thread[c].copy EXCEPT ![s] = "RUNNING"]
             place == IF s \in Approvals THEN "ask" ELSE "perform"
             u == [thread[c] EXCEPT !.at = place, !.copy = copy, !.step = s, !.ready = @ \ {s}]
  <2>2. s \in thread[c].ready /\ Becomes(c, u)
    BY <2>1 DEF IsFirst
  <2>3. /\ copy \in [Steps -> StepStatuses] /\ copy[s] = "RUNNING"
        /\ \A r \in Steps : r # s => copy[r] = thread[c].copy[r]
    BY <1>t DEF ThreadStates, StepStatuses
  <2>4. place \in {"ask", "perform"}
    OBVIOUS
  <2> HIDE DEF copy, place
  <2>5. u \in ThreadStates
    BY <1>t, <2>3, <2>4, StateBeginning
  <2>6. u.at = place /\ u.copy = copy /\ u.ready = thread[c].ready \ {s}
    BY <1>t DEF ThreadStates
  <2> HIDE DEF u
  <2>7. thread'[c] = u /\ \A d \in Calls : d # c => thread'[d] = thread[d]
    BY <2>2, <2>5, OneThread
  <2>8. s \in StepsAhead(thread[c]) /\ StepsAhead(u) \subseteq StepsAhead(thread[c]) \ {s}
    BY <2>1, <2>2, <2>3, <2>4, <2>6 DEF StepsAhead
  <2>9. PlacesAhead[u.at] <= PlacesAhead[thread[c].at] + 3
    BY <2>1, <2>4, <2>6 DEF PlacesAhead
  <2> QED
    BY <2>4, <2>6, <2>7, <2>8, <2>9 DEF Nearer, HasNext
<1>7. ASSUME NEW copy \in [Steps -> StepStatuses],
             \A s \in Steps : copy[s] = "PENDING" => thread[c].copy[s] = "PENDING",
             thread[c].at = "perform",
             Becomes(c, [thread[c] EXCEPT !.at = "save", !.copy = copy])
      PROVE  Goal
  <2> DEFINE u == [thread[c] EXCEPT !.at = "save", !.copy = copy]
  <2>1. u \in ThreadStates
    BY <1>t, StateWithCopy
  <2>2. u.at = "save" /\ u.copy = copy /\ u.ready = thread[c].ready
    BY <1>t DEF ThreadStates
  <2>3. Becomes(c, u)
    BY <1>7
  <2> HIDE DEF u
  <2>4. thread'[c] = u /\ \A d \in Calls : d # c => thread'[d] = thread[d]
    BY <2>1, <2>3, OneThread
  <2>5. StepsAhead(u) \subseteq StepsAhead(thread[c])
    BY <1>7, <2>2 DEF StepsAhead
  <2> QED
    BY <1>7, <2>2, <2>4, <2>5 DEF Nearer, HasNext, PlacesAhead
<1>8. CASE StepSucceeds(c)
  <2>1. PICK done :
          Becomes(c, [thread[c] EXCEPT !.at = "save",
             !.copy = [t \in Steps |-> IF t \in done THEN "COMPLETED" ELSE @[t]]])
    BY <1>8 DEF StepSucceeds
  <2> DEFINE copy == [t \in Steps |-> IF t \in done THEN "COMPLETED" ELSE thread[c].copy[t]]
  <2>2. copy \in [Steps -> StepStatuses]
    BY <1>t DEF ThreadStates, StepStatuses
  <2>3. \A s \in Steps : copy[s] = "PENDING" => thread[c].copy[s] = "PENDING"
    OBVIOUS
  <2>4. thread[c].at = "perform" /\ Becomes(c, [thread[c] EXCEPT !.at = "save", !.copy = copy])
    BY <1>8, <2>1 DEF StepSucceeds
  <2> HIDE DEF copy
  <2> QED
    BY <1>7, <2>2, <2>3, <2>4
<1>9. CASE StepFails(c)
  <2> DEFINE copy == [thread[c].copy EXCEPT ![thread[c].step] = "FAILED"]
  <2>1. copy \in [Steps -> StepStatuses]
    BY <1>t DEF ThreadStates, StepStatuses
  <2>2. \A s \in Steps : copy[s] = "PENDING" => thread[c].copy[s] = "PENDING"
    BY <1>t DEF ThreadStates
  <2>3. thread[c].at = "perform" /\ Becomes(c, [thread[c] EXCEPT !.at = "save", !.copy = copy])
    BY <1>9 DEF StepFails
  <2> HIDE DEF copy
  <2> QED
    BY <1>7, <2>1, <2>2, <2>3
<1>10. CASE Decide(c) \/ StoreDecision(c) \/ ClaimInstance(c) \/ AskForApproval(c) \/ SaveStep(c)
  <2>1. CASE SaveStep(c)
    <3>1. \/ Goes(c, "save", "look")
          \/ thread[c].ready # {} /\ Goes(c, "save", "begin")
      BY <2>1 DEF SaveStep
    <3> QED
      BY <1>1, <3>1
  <2> QED
    BY <1>1, <1>10, <2>1 DEF Decide, StoreDecision, ClaimInstance, AskForApproval
<1>11. CASE Conclude(c) \/ PauseInstance(c)
    BY <1>2, <1>11 DEF Conclude, PauseInstance
<1> QED
    BY <1>3, <1>4, <1>5, <1>6, <1>8, <1>9, <1>10, <1>11 DEF ThreadStep

\* What a step does not touch it leaves as it is, or kills.
LEMMA ThreadsGoOn ==
    IsFiniteSet(Steps) /\ AutoInv /\ [AutomationNext]_autoVars => EveryThreadGoesOn
<1> SUFFICES ASSUME IsFiniteSet(Steps), AutoInv, [AutomationNext]_autoVars
             PROVE  EveryThreadGoesOn
    OBVIOUS
<1>1. /\ AutomationTypeOK /\ AutomationTypeOK'
      /\ \A c \in Calls : thread[c] \in ThreadStates /\ thread'[c] \in ThreadStates
    BY AutoStep DEF AutoInv, AutomationTypeOK
<1>2. \A c \in Calls : WayToGo(c) \in Nat
  <2> SUFFICES ASSUME NEW c \in Calls PROVE WayToGo(c) \in Nat
      OBVIOUS
  <2>1. Cardinality(StepsAhead(thread[c])) \in Nat
      BY <1>1, StepsAheadAreSteps, FS_Subset, FS_CardinalityType
  <2>2. PlacesAhead[thread[c].at] \in Nat
      BY <1>1, PlacesAreNumbered
  <2> QED
      BY <2>1, <2>2 DEF WayToGo
<1>3. ASSUME NEW c \in Calls, Nearer(thread[c], thread'[c]) PROVE WayToGo(c)' < WayToGo(c)
    BY <1>1, <1>3, NearerIsLess DEF WayToGo
<1>4. ASSUME NEW c \in Calls, thread'[c] = thread[c] PROVE WayToGo(c)' = WayToGo(c)
    BY <1>4 DEF WayToGo, StepsAhead
<1>5. \A c \in Calls : WayToGo(c)' \in Nat
  <2> SUFFICES ASSUME NEW c \in Calls PROVE WayToGo(c)' \in Nat
      OBVIOUS
  <2>1. StepsAhead(thread'[c]) \subseteq Steps
      BY <1>1, StepsAheadAreSteps
  <2>2. Cardinality(StepsAhead(thread'[c])) \in Nat
      BY <2>1, FS_Subset, FS_CardinalityType
  <2>3. PlacesAhead[thread'[c].at] \in Nat
      BY <1>1, PlacesAreNumbered
  <2> QED
      BY <2>2, <2>3 DEF WayToGo
<1>6. ASSUME NEW c \in Calls, Nearer(thread[c], thread'[c]) \/ thread'[c] = thread[c]
      PROVE  WayToGo(c)' <= WayToGo(c)
    BY <1>2, <1>3, <1>4, <1>5, <1>6
<1>7. ASSUME NEW c \in Calls, ThreadStep(c)
      PROVE  WayToGo(c)' < WayToGo(c) /\ \A d \in Calls : WayToGo(d)' <= WayToGo(d)
    BY <1>1, <1>3, <1>6, <1>7, ThreadStepIsNearer
<1>8. ASSUME NEW c \in Calls, ExecuteDefinition(c)
      PROVE  \A d \in Calls : WayToGo(d)' <= WayToGo(d)
  <2>1. /\ thread[c].at = "idle" /\ thread'[c].at = "read"
        /\ \A d \in Calls : d # c => thread'[d] = thread[d]
      BY <1>1, <1>8, OneMoves DEF ExecuteDefinition, Working
  <2>2. Nearer(thread[c], thread'[c])
      BY <2>1 DEF Nearer, StepsAhead, PlacesAhead, Deciding
  <2> QED
      BY <1>6, <2>1, <2>2
<1>9. ASSUME NEW c \in Calls, NEW a \in Calls, NEW v \in Decisions, CheckApproval(c, a, v)
      PROVE  \A d \in Calls : WayToGo(d)' <= WayToGo(d)
  <2> DEFINE u == [thread[c] EXCEPT !.at = "decide", !.about = a, !.decision = v]
  <2>1. thread[c].at = "idle" /\ Becomes(c, u)
      BY <1>9 DEF CheckApproval
  <2>2. u \in ThreadStates
      BY <1>1, StateDeciding
  <2>3. u.at = "decide"
      BY <1>1 DEF ThreadStates
  <2> HIDE DEF u
  <2>4. thread'[c] = u /\ \A d \in Calls : d # c => thread'[d] = thread[d]
      BY <1>1, <2>1, <2>2, OneThread
  <2>5. Nearer(thread[c], thread'[c])
      BY <2>1, <2>3, <2>4 DEF Nearer, StepsAhead, PlacesAhead, Deciding
  <2> QED
      BY <1>6, <2>4, <2>5
<1>10. ASSUME Restart PROVE \A d \in Calls : WayToGo(d)' <= WayToGo(d)
  <2>1. \A d \in Calls :
            \/ thread[d].at \in Deciding \cup Working /\ thread'[d].at = "killed"
            \/ thread'[d] = thread[d]
      BY <1>10 DEF Restart, Outside
  <2>2. ASSUME NEW d \in Calls, thread[d].at \in Deciding \cup Working, thread'[d].at = "killed"
        PROVE  Nearer(thread[d], thread'[d])
      BY <2>2 DEF Nearer, StepsAhead, PlacesAhead, Deciding, Working
  <2> QED
      BY <1>6, <2>1, <2>2
<1>11. ASSUME UNCHANGED autoVars PROVE \A d \in Calls : WayToGo(d)' <= WayToGo(d)
    BY <1>6, <1>11 DEF autoVars
<1>12. \A d \in Calls : WayToGo(d)' <= WayToGo(d)
    BY <1>7, <1>8, <1>9, <1>10, <1>11 DEF AutomationNext
<1> QED
    BY <1>7, <1>12 DEF EveryThreadGoesOn

\* For any definition of finitely many steps: each step of a thread brings it
\* nearer to its end, of at most four for each step of the definition and nine
\* besides; no other thread, approver or restart takes it back, whatever they
\* write into the row meanwhile.
THEOREM ThreadsAreBounded ==
    ASSUME IsFiniteSet(Steps)
    PROVE  AutomationSpec =>
               /\ [](\A c \in Calls : WayToGo(c) \in 0..(4 * Cardinality(Steps) + 9))
               /\ [][EveryThreadGoesOn]_autoVars
<1>1. ASSUME AutoInv, NEW c \in Calls PROVE WayToGo(c) \in 0..(4 * Cardinality(Steps) + 9)
  <2>1. thread[c] \in ThreadStates
      BY <1>1 DEF AutoInv, AutomationTypeOK
  <2>2. /\ IsFiniteSet(StepsAhead(thread[c]))
        /\ Cardinality(StepsAhead(thread[c])) <= Cardinality(Steps)
      BY <2>1, StepsAheadAreSteps, FS_Subset
  <2>3. Cardinality(StepsAhead(thread[c])) \in Nat /\ Cardinality(Steps) \in Nat
      BY <2>2, FS_CardinalityType
  <2>4. PlacesAhead[thread[c].at] \in 0..9
      BY <2>1, PlacesAreNumbered
  <2> QED
      BY <2>2, <2>3, <2>4 DEF WayToGo
<1>2. AutoInv => \A c \in Calls : WayToGo(c) \in 0..(4 * Cardinality(Steps) + 9)
    BY <1>1
<1>3. AutoInv /\ [AutomationNext]_autoVars => [EveryThreadGoesOn]_autoVars
    BY ThreadsGoOn
<1> QED
    BY <1>2, <1>3, AutoStart, AutoStep, PTL DEF AutomationSpec

LEMMA OneIsFirst ==
    ASSUME NEW ready \in SUBSET Steps, ready # {}
    PROVE  \E s \in Steps : IsFirst(s, ready)
<1> USE AutomationAssumption DEF AutomationAssumption
<1> DEFINE T == {Position[s] : s \in ready}
<1>1. T \subseteq Nat /\ T # {}
    OBVIOUS
<1>2. PICK x \in T : \A y \in T : ~ (<<y, x>> \in OpToRel(<, Nat))
    BY <1>1, NatLessThanWellFounded, WFMin
<1>3. \A y \in T : ~ (y < x)
    BY <1>1, <1>2 DEF OpToRel
<1>4. \A y \in T : x <= y
    BY <1>1, <1>3
<1>5. PICK s \in ready : x = Position[s]
    OBVIOUS
<1> QED
    BY <1>4, <1>5 DEF IsFirst

LEMMA NextStays ==
    AutoInv /\ (\A c \in Calls : HasNext(thread[c])) /\ [AutomationNext]_autoVars
        => (\A c \in Calls : HasNext(thread[c]))'
<1> SUFFICES ASSUME AutoInv, \A c \in Calls : HasNext(thread[c]), [AutomationNext]_autoVars
             PROVE  \A c \in Calls : HasNext(thread'[c])
    OBVIOUS
<1>1. AutomationTypeOK /\ \A c \in Calls : thread[c] \in ThreadStates
    BY DEF AutoInv, AutomationTypeOK
<1>2. ASSUME NEW c \in Calls, ThreadStep(c) PROVE \A d \in Calls : HasNext(thread'[d])
    BY <1>1, <1>2, ThreadStepIsNearer
<1>3. ASSUME NEW c \in Calls, ExecuteDefinition(c) PROVE \A d \in Calls : HasNext(thread'[d])
    BY <1>1, <1>3, OneMoves DEF ExecuteDefinition, Working, HasNext
<1>4. ASSUME NEW c \in Calls, NEW a \in Calls, NEW v \in Decisions, CheckApproval(c, a, v)
      PROVE  \A d \in Calls : HasNext(thread'[d])
  <2> DEFINE u == [thread[c] EXCEPT !.at = "decide", !.about = a, !.decision = v]
  <2>1. Becomes(c, u)
      BY <1>4 DEF CheckApproval
  <2>2. u \in ThreadStates
      BY <1>1, StateDeciding
  <2>3. u.at = "decide"
      BY <1>1 DEF ThreadStates
  <2> HIDE DEF u
  <2> QED
      BY <1>1, <2>1, <2>2, <2>3, OneThread DEF HasNext
<1>5. CASE Restart
    BY <1>5 DEF Restart, Outside, HasNext
<1>6. CASE UNCHANGED autoVars
    BY <1>6 DEF autoVars
<1> QED
    BY <1>2, <1>3, <1>4, <1>5, <1>6 DEF AutomationNext

\* The head of the loop finds a next step whenever it is to begin one, for any
\* definition: nowhere does a thread wait.
THEOREM ThreadsDoNotHang == AutomationSpec => []SomeStepIsNext
<1>1. AutomationInit => \A c \in Calls : HasNext(thread[c])
    BY DEF AutomationInit, Outside, HasNext
<1>2. AutoInv /\ (\A c \in Calls : HasNext(thread[c])) => SomeStepIsNext
    BY OneIsFirst DEF AutoInv, AutomationTypeOK, ThreadStates, HasNext, SomeStepIsNext
<1> QED
    BY <1>1, <1>2, NextStays, AutoStart, AutoStep, PTL DEF AutomationSpec

=============================================================================
