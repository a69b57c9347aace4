--------------------------- MODULE CommandExecutor ---------------------------
(***************************************************************************)
(* The local command executor (adapters/local/command_executor.py) on top  *)
(* of the workspace adapter it shares with other callers: it reauthorizes  *)
(* a command, probes the sandbox, takes an execution lease and runs the    *)
(* command in it, and looks at the pinned executable before and after.     *)
(* Meanwhile other threads use the workspaces, and the executable and      *)
(* bubblewrap may be replaced.  What the sandbox does inside an execution  *)
(* is the module ProcessCapture; here it is one of its reports.            *)
(***************************************************************************)
EXTENDS GitWorkspace, CommandPolicy

CONSTANTS
    Policy,       \* the policy of the authorized commands
    Registered,   \* logical executables of the trusted registry
    Replaces      \* what others replace: subset of {"executable", "bubblewrap"}

ASSUME ExecutorAssumption == Policy \in Policies

VARIABLES
    task,         \* the execution each thread is inside
    outcome,      \* the outcome of each thread's last execution, until its next call
    executable,   \* the file of the trusted executable
    bubblewrap    \* the bubblewrap file; one that is missing fails like a changed one

executorVars == <<task, outcome, executable, bubblewrap>>
allVars == <<vars, executorVars>>

File == {"pinned", "changed", "missing"}
Causes == {"policy_denied", "workspace_not_found", "executable_unavailable",
           "spawn_failed", "cleanup_failed", "isolation_failure"}

NoTask == [at |-> "idle"]
NoOutcome == [result |-> "none", ran |-> None, left |-> None]
TaskStep == {"probing", "verifying", "leasing", "preparing", "spawning", "running",
             "rechecking", "leaving"}
TaskAt(at, q, handle) ==
    [at |-> at, request |-> q, handle |-> handle, result |-> None, ran |-> None]

ExecutorTypeOK ==
    /\ TypeOK
    /\ task \in [Threads -> {NoTask} \cup
            [at : TaskStep, request : Requests, handle : Handle,
             result : Causes \cup {"returned", None}, ran : File \cup {None}]]
    /\ outcome \in [Threads ->
            [result : Causes \cup {"returned", "none", "sandbox_error"},
             ran : File \cup {None},
             left : Shape \cup {None}]]
    /\ executable \in File
    /\ bubblewrap \in {"pinned", "changed"}

ExecutorInit ==
    /\ Init
    /\ task = [t \in Threads |-> NoTask]
    /\ outcome = [t \in Threads |-> NoOutcome]
    /\ executable = "pinned" /\ bubblewrap = "pinned"

-----------------------------------------------------------------------------
Doing(t, at) == task[t] # NoTask /\ task[t].at = at
NextStep(t, at) == task' = [task EXCEPT ![t].at = at]

\* The call is over: an error that is raised, or the result.
Conclude(t, result) ==
    /\ outcome' = [outcome EXCEPT ![t] = [NoOutcome EXCEPT !.result = result]]
    /\ task' = [task EXCEPT ![t] = NoTask]

\* The same, after the lease was left: a result, with the file that ran and the
\* workspace as the last validation found it, or an error.
ConcludeLease(t, result) ==
    /\ outcome' = [outcome EXCEPT ![t] =
            IF result = "returned"
            THEN [result |-> result, ran |-> task[t].ran,
                  left |-> entry[task[t].handle.id]]
            ELSE [NoOutcome EXCEPT !.result = result]]
    /\ task' = [task EXCEPT ![t] = NoTask]

\* An error or a result inside the with block, which still has to leave it.
LeaveWith(t, result) == task' = [task EXCEPT ![t].at = "leaving", ![t].result = result]

\* TrustedExecutable.verify: the cause of what it raises.
FileFault(file) ==
    CASE file = "pinned" -> "ok"
      [] file = "changed" -> "isolation_failure"
      [] file = "missing" -> "executable_unavailable"

Execute_TrustsTheCaller(t, q, handle) ==
    /\ task[t] = NoTask /\ call[t] = Idle
    /\ q.executable \in Registered
    /\ task' = [task EXCEPT ![t] = TaskAt("probing", q, handle)]
    /\ outcome' = [outcome EXCEPT ![t] = NoOutcome]
    /\ reply' = [reply EXCEPT ![t] = NoReply]
    /\ UNCHANGED <<mapping, files, issued, call, lease, executable, bubblewrap>>

\* authorize_command, then the registry.  A request can only be built with a
\* workspace of its run, so the handle belongs to the request.
Execute(t, q, handle) ==
    /\ task[t] = NoTask /\ call[t] = Idle
    /\ \/ /\ Verdict(q, Policy) # "ok"
          /\ Conclude(t, "policy_denied")
       \/ /\ Verdict(q, Policy) = "ok" /\ q.executable \notin Registered
          /\ Conclude(t, "executable_unavailable")
       \/ /\ Verdict(q, Policy) = "ok" /\ q.executable \in Registered
          /\ task' = [task EXCEPT ![t] = TaskAt("probing", q, handle)]
          /\ outcome' = [outcome EXCEPT ![t] = NoOutcome]
    /\ reply' = [reply EXCEPT ![t] = NoReply]
    /\ UNCHANGED <<mapping, files, issued, call, lease, executable, bubblewrap>>

\* sandbox.supports verifies bubblewrap, which raises a SandboxError here,
\* outside the try that translates one; the probe itself may say no.
Probe(t) ==
    /\ Doing(t, "probing")
    /\ \/ /\ bubblewrap # "pinned"
          /\ Conclude(t, "sandbox_error")
       \/ /\ bubblewrap = "pinned"
          /\ Conclude(t, "policy_denied")
       \/ /\ bubblewrap = "pinned"
          /\ NextStep(t, "verifying")
          /\ UNCHANGED outcome
    /\ UNCHANGED <<vars, executable, bubblewrap>>

VerifyFirst(t) ==
    /\ Doing(t, "verifying")
    /\ \/ /\ FileFault(executable) = "ok"
          /\ NextStep(t, "leasing")
          /\ UNCHANGED outcome
       \/ /\ FileFault(executable) # "ok"
          /\ Conclude(t, FileFault(executable))
    /\ UNCHANGED <<vars, executable, bubblewrap>>

LeaseFault_Untranslated(result) == result

LeaseFault(result) ==
    IF result = "not_found" THEN "workspace_not_found" ELSE "isolation_failure"

TakeLease(t) ==
    /\ Doing(t, "leasing")
    /\ EnterLease(t, task[t].handle)
    /\ \/ /\ lease'[t] # None
          /\ NextStep(t, "preparing")
          /\ UNCHANGED outcome
       \/ /\ lease'[t] = None
          /\ Conclude(t, LeaseFault(reply'[t].result))
    /\ UNCHANGED <<executable, bubblewrap>>

\* _resolve_working_directory, then the executable once more.
PrepareInvocation(t) ==
    /\ Doing(t, "preparing")
    /\ \/ LeaveWith(t, "isolation_failure")
       \/ /\ FileFault(executable) # "ok"
          /\ LeaveWith(t, FileFault(executable))
       \/ /\ FileFault(executable) = "ok"
          /\ NextStep(t, "spawning")
    /\ UNCHANGED <<vars, outcome, executable, bubblewrap>>

\* sandbox.execute probes and verifies again before it starts the process,
\* which opens the executable by its path.
Spawn(t) ==
    /\ Doing(t, "spawning")
    /\ \/ /\ bubblewrap = "pinned" /\ executable # "missing"
          /\ task' = [task EXCEPT ![t].at = "running", ![t].ran = executable]
       \/ LeaveWith(t, "isolation_failure")
       \/ LeaveWith(t, "spawn_failed")
    /\ UNCHANGED <<vars, outcome, executable, bubblewrap>>

\* The command writes to the workspace while it runs.
RunInWorkspace(t) ==
    /\ Doing(t, "running")
    /\ Work(t)
    /\ UNCHANGED executorVars

\* The report of the sandbox: a termination, or a failure; bubblewrap is
\* verified after every execution.
Report(t) ==
    /\ Doing(t, "running")
    /\ \/ bubblewrap = "pinned" /\ NextStep(t, "rechecking")
       \/ LeaveWith(t, "isolation_failure")
       \/ bubblewrap = "pinned" /\ LeaveWith(t, "cleanup_failed")
    /\ UNCHANGED <<vars, outcome, executable, bubblewrap>>

VerifyLast_Dropped(t) ==
    /\ Doing(t, "rechecking")
    /\ LeaveWith(t, "returned") \/ LeaveWith(t, "isolation_failure")
    /\ UNCHANGED <<vars, outcome, executable, bubblewrap>>

\* The executable after the execution; and a result that ExecutionResult
\* refuses (a clock that went back between the two timestamps, say).
VerifyLast(t) ==
    /\ Doing(t, "rechecking")
    /\ \/ /\ FileFault(executable) # "ok"
          /\ LeaveWith(t, FileFault(executable))
       \/ /\ FileFault(executable) = "ok"
          /\ LeaveWith(t, "returned") \/ LeaveWith(t, "isolation_failure")
    /\ UNCHANGED <<vars, outcome, executable, bubblewrap>>

\* A lease that finds the workspace corrupt replaces the outcome in flight.
Leave(t) ==
    /\ Doing(t, "leaving")
    /\ ExitLease(t)
    /\ ConcludeLease(t, IF reply'[t].result = "ok" THEN task[t].result ELSE "isolation_failure")
    /\ UNCHANGED <<executable, bubblewrap>>

-----------------------------------------------------------------------------
\* Others replace a trusted file; the bound: it does not come back.
ReplaceExecutable ==
    /\ "executable" \in Replaces /\ executable = "pinned"
    /\ executable' \in {"changed", "missing"}
    /\ UNCHANGED <<vars, task, outcome, bubblewrap>>

ReplaceBubblewrap ==
    /\ "bubblewrap" \in Replaces /\ bubblewrap = "pinned"
    /\ bubblewrap' = "changed"
    /\ UNCHANGED <<vars, task, outcome, executable>>

\* Threads that are not executing use the workspaces directly.
UseWorkspaces(t) ==
    /\ task[t] = NoTask
    /\ Prepare(t) \/ Load(t) \/ Snapshot(t) \/ Release(t)
    /\ outcome' = [outcome EXCEPT ![t] = NoOutcome]
    /\ UNCHANGED <<task, executable, bubblewrap>>

Disturb ==
    /\ \E i \in Ids : Tamper(i)
    /\ UNCHANGED executorVars

Run(t) ==
    \/ \E q \in Requests, handle \in Handle : Execute(t, q, handle)
    \/ Probe(t) \/ VerifyFirst(t) \/ TakeLease(t) \/ PrepareInvocation(t) \/ Spawn(t)
    \/ RunInWorkspace(t) \/ Report(t) \/ VerifyLast(t) \/ Leave(t)

ExecutorNext ==
    \/ \E t \in Threads : Run(t) \/ UseWorkspaces(t)
    \/ ReplaceExecutable \/ ReplaceBubblewrap \/ Disturb

ExecutorSpec == ExecutorInit /\ [][ExecutorNext]_allVars

-----------------------------------------------------------------------------
(* Properties. *)

\* A result is only returned for a command that ran the pinned executable, even
\* if the file was replaced between its verification and its start, and whose
\* workspace still passed the validation when the lease was left.
ResultIsTrusted ==
    \A t \in Threads :
        outcome[t].result = "returned" =>
            outcome[t].ran = "pinned" /\ Validates(outcome[t].left)

\* A command that runs is covered by a rule of the policy, and its thread has
\* the lease of exactly the workspace the request names, which is still the
\* published workspace of that run.
RunsInItsWorkspace ==
    \A t \in Threads :
        Doing(t, "running") =>
            /\ Authorized(task[t].request, Policy)
            /\ lease[t] = task[t].handle
            /\ records[task[t].handle.id] = task[t].handle.run

\* No two commands run at the same time, and no operation of another thread is
\* in the middle of its work on a workspace while one runs.
CommandsRunAlone ==
    \A t, u \in Threads :
        t # u /\ Doing(t, "running") => call[u] = Idle /\ ~Doing(u, "running")

\* Every failure of an execution has one of the stable causes of the port.
FailuresAreTyped ==
    \A t \in Threads : outcome[t].result \in Causes \cup {"returned", "none"}
=============================================================================
