--------------------------- MODULE WorkerSilence ---------------------------
(***************************************************************************)
(* Membership on its own, with a callback that does nothing, and a history *)
(* of what the workers really did: `silent' holds the registered nodes     *)
(* that neither registered nor sent a heartbeat for timeout_seconds.       *)
(***************************************************************************)
EXTENDS Membership

VARIABLE silent

silenceVars == <<memberVars, silent>>

SilenceInit == MembershipInit /\ silent = {}

MonitorTurn == MonitorStep /\ UNCHANGED silent

SilenceNext ==
    \/ \E n \in Nodes : \/ RegisterWorker(n) /\ silent' = silent \ {n}
                        \/ Heartbeat(n)      /\ silent' = silent \ {n}
                        \/ RemoveWorker(n)   /\ silent' = silent \ {n}
                        \/ DrainWorker(n)    /\ UNCHANGED silent
                        \/ Lapse(n)          /\ silent' = silent \cup {n}
    \/ MonitorTurn

SilenceSpec == SilenceInit /\ [][SilenceNext]_silenceVars /\ WF_silenceVars(MonitorTurn)

---------------------------------------------------------------------------
\* What the monitor is about to evict a node for is still true of the node:
\* the timer of an object that was found past the cutoff is either still
\* lapsed or the object is no longer the registered one.
PastIsLate == past \subseteq late \cup detached

\* A node is picked for eviction on evidence that holds at that moment:
\* only the snapshot of a removed worker can condemn its fresh successor.
EvictionHasEvidence ==
    [][mpc = "check" /\ mpc' = "evict" => suspect' \in late \cup detached]_silenceVars

\* A silent ONLINE node does not stay so: the monitor takes it offline unless
\* it is heard from, drained or removed first.
SilentNodeIsEvicted ==
    \A n \in Nodes : (nodeStatus[n] = "online" /\ n \in silent)
                        ~> (nodeStatus[n] # "online" \/ n \notin silent)
============================================================================
