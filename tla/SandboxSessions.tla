-------------------------- MODULE SandboxSessions --------------------------
(***************************************************************************)
(* SandboxManager and ExecutionSession (backend/sandbox/sandbox_manager.py,*)
(* execution_session.py, sandbox_executor.py): a table of sessions under a *)
(* lock, and sessions whose status and directory are under none.  Requests *)
(* take a session from the table and use it afterwards; a termination      *)
(* takes it out first and then marks it and removes its directory.  A      *)
(* command runs as a process of its own; when it is given up after its     *)
(* timeout the shell is killed, and what the shell started may go on.      *)
(* Nothing keeps a process from removing a session's directory, or from    *)
(* making it again.                                                        *)
(***************************************************************************)
EXTENDS FiniteSets

CONSTANTS Sessions, Requests, NoSession

ASSUME SandboxAssumption == NoSession \notin Sessions

VARIABLES table,           \* _sessions
          status,          \* of each session object
          directory,       \* the sessions whose directory exists
          removal,         \* where each session's termination is
          request,         \* where each upload or command is
          uses,            \* the session it took from the table
          processes,       \* the requests whose command's process runs
          cause            \* history: what each session's directory went through

sandboxVars == <<table, status, directory, removal, request, uses, processes, cause>>

\* The session was marked while an upload had passed its check; the removal
\* failed; a command removed the directory or made it again.
Causes == {"upload", "removal", "command"}

SandboxTypeOK ==
    /\ table \subseteq Sessions /\ directory \subseteq Sessions
    /\ processes \subseteq Requests
    /\ cause \in [Sessions -> SUBSET Causes]
    /\ status \in [Sessions -> {"none", "active", "terminated"}]
    /\ removal \in [Sessions -> {"none", "mark", "remove", "over"}]
    /\ request \in [Requests -> {"new", "found", "checked", "write", "launch", "command", "over"}]
    /\ uses \in [Requests -> Sessions \cup {NoSession}]

SandboxInit ==
    /\ table = {} /\ directory = {} /\ processes = {}
    /\ cause = [s \in Sessions |-> {}]
    /\ status = [s \in Sessions |-> "none"]
    /\ removal = [s \in Sessions |-> "none"]
    /\ request = [r \in Requests |-> "new"]
    /\ uses = [r \in Requests |-> NoSession]

Moves(r, from, to) == request[r] = from /\ request' = [request EXCEPT ![r] = to]

\* create_session: the directory and the object, and then the table.
CreateSession(s) ==
    /\ status[s] = "none"
    /\ status' = [status EXCEPT ![s] = "active"]
    /\ directory' = directory \cup {s}
    /\ table' = table \cup {s}
    /\ UNCHANGED <<removal, request, uses, processes, cause>>

\* upload_to_session and execute_in_session: the session, under the lock.
FindSession(r, s) ==
    /\ Moves(r, "new", "found")
    /\ s \in table
    /\ uses' = [uses EXCEPT ![r] = s]
    /\ UNCHANGED <<table, status, directory, removal, processes, cause>>

\* Faulty variant: the status is not asked.
StartAnyway(r) ==
    /\ Moves(r, "found", "checked")
    /\ UNCHANGED <<table, status, directory, removal, uses, processes, cause>>

\* upload_file: if self.status != "active" ...
CheckUpload(r) ==
    /\ Moves(r, "found", IF status[uses[r]] = "active" THEN "checked" ELSE "over")
    /\ UNCHANGED <<table, status, directory, removal, uses, processes, cause>>

\* ... os.makedirs, which makes the session's directory, too, unless the name
\* leads out of it, or the call fails, ...
MakeDirectory(r) ==
    /\ \/ Moves(r, "checked", "write") /\ directory' = directory \cup {uses[r]}
       \/ Moves(r, "checked", "over") /\ UNCHANGED directory
    /\ UNCHANGED <<table, status, removal, uses, processes, cause>>

\* ... and the file, which is an error when the directory is gone.
WriteFile(r) ==
    /\ Moves(r, "write", "over")
    /\ UNCHANGED <<table, status, directory, removal, uses, processes, cause>>

\* execute_command: if self.status != "active" ...
CheckCommand(r) ==
    /\ Moves(r, "found", IF status[uses[r]] = "active" THEN "launch" ELSE "over")
    /\ UNCHANGED <<table, status, directory, removal, uses, processes, cause>>

\* ... and a process in the directory, if it exists and the policy allows it.
LaunchCommand(r) ==
    /\ Moves(r, "launch", "command")
    /\ \/ uses[r] \in directory /\ processes' = processes \cup {r}
       \/ UNCHANGED processes
    /\ UNCHANGED <<table, status, directory, removal, uses, cause>>

\* What a process may do to the directory it runs in, or to another session's.
CommandActs(r, s) ==
    /\ r \in processes /\ status[s] # "none"
    /\ directory' = IF s \in directory THEN directory \ {s} ELSE directory \cup {s}
    /\ cause' = [cause EXCEPT ![s] = @ \cup {"command"}]
    /\ UNCHANGED <<table, status, removal, request, uses, processes>>

\* communicate() returns, or the timeout is over and the shell is killed.
EndCommand(r) ==
    /\ Moves(r, "command", "over")
    /\ processes' \in {processes, processes \ {r}}
    /\ UNCHANGED <<table, status, directory, removal, uses, cause>>

\* What a killed shell left running ends.
EndProcess(r) ==
    /\ r \in processes /\ request[r] = "over"
    /\ processes' = processes \ {r}
    /\ UNCHANGED <<table, status, directory, removal, request, uses, cause>>

\* terminate_session and shutdown: out of the table ...
TakeOut(ss) ==
    /\ ss # {} /\ ss \subseteq table
    /\ table' = table \ ss
    /\ removal' = [s \in Sessions |-> IF s \in ss THEN "mark" ELSE removal[s]]
    /\ UNCHANGED <<status, directory, request, uses, processes, cause>>

InUse(s, where) == \E r \in Requests : uses[r] = s /\ request[r] \in where

Marked(s) ==
    cause' = IF InUse(s, {"checked", "write"})
             THEN [cause EXCEPT ![s] = @ \cup {"upload"}] ELSE cause

\* Faulty variant: the directory is removed before the session is marked.
RemoveUnmarked(s) ==
    /\ removal[s] = "mark"
    /\ removal' = [removal EXCEPT ![s] = "remove"]
    /\ directory' = directory \ {s}
    /\ Marked(s)
    /\ UNCHANGED <<table, status, request, uses, processes>>

\* ... terminate: the mark ...
MarkTerminated(s) ==
    /\ removal[s] = "mark"
    /\ removal' = [removal EXCEPT ![s] = "remove"]
    /\ status' = [status EXCEPT ![s] = "terminated"]
    /\ Marked(s)
    /\ UNCHANGED <<table, directory, request, uses, processes>>

\* ... and rmtree, which may fail on any file; its errors are ignored.
RemoveDirectory(s) ==
    /\ removal[s] = "remove"
    /\ removal' = [removal EXCEPT ![s] = "over"]
    /\ \/ directory' = directory \ {s} /\ UNCHANGED cause
       \/ /\ s \in directory
          /\ cause' = [cause EXCEPT ![s] = @ \cup {"removal"}]
          /\ UNCHANGED directory
    /\ UNCHANGED <<table, status, request, uses, processes>>

SandboxNext ==
    \/ \E s \in Sessions : CreateSession(s) \/ MarkTerminated(s) \/ RemoveDirectory(s)
    \/ \E ss \in SUBSET Sessions : (ss = table \/ Cardinality(ss) = 1) /\ TakeOut(ss)
    \/ \E r \in Requests : \/ CheckUpload(r) \/ MakeDirectory(r) \/ WriteFile(r)
                           \/ CheckCommand(r) \/ LaunchCommand(r)
                           \/ EndCommand(r) \/ EndProcess(r)
                           \/ \E s \in Sessions : FindSession(r, s) \/ CommandActs(r, s)

SandboxSpec == SandboxInit /\ [][SandboxNext]_sandboxVars

---------------------------------------------------------------------------
\* A directory outlives the termination of its session only if the removal
\* failed, an upload had passed its check before the session was marked, or a
\* command made it: a request that only holds the session object does no harm.
LeftoversHaveACause ==
    \A s \in directory : removal[s] = "over" => cause[s] # {}

\* An active session can be used: as long as it says so its directory exists,
\* unless a command removed it.
ActiveHasDirectory ==
    \A s \in Sessions : status[s] = "active" => s \in directory \/ "command" \in cause[s]

\* So a session has a directory while it may be used, and none once it is over.
DirectoryFollowsSession == LeftoversHaveACause /\ ActiveHasDirectory

---------------------------------------------------------------------------
\* execution_session.py:69, terminate "Cleans up the working directory and
\* marks the session terminated".
TerminateCleansUp == \A s \in directory : removal[s] # "over"
=============================================================================
