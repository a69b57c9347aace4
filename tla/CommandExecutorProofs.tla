----------------------- MODULE CommandExecutorProofs -----------------------
(***************************************************************************)
(* Proofs about CommandExecutor, for any number of threads and workspaces, *)
(* any policy and any replacement of the trusted files.  They rest on the  *)
(* invariant of the workspace adapter: a thread that runs a command holds  *)
(* a lease, so it is alone inside the lock.                                *)
(***************************************************************************)
EXTENDS CommandExecutor, GitWorkspaceProofs, TLAPS

-----------------------------------------------------------------------------
(* The inductive invariant. *)

InLease == {"preparing", "spawning", "running", "rechecking", "leaving"}
Executing(t, steps) == task[t] # NoTask /\ task[t].at \in steps

\* A thread that executes is in no other operation; it has the lease of the
\* workspace of its request inside the with block and none outside.
Holds(t) ==
    /\ task[t] = NoTask => lease[t] = None
    /\ task[t] # NoTask => call[t] = Idle /\ Verdict(task[t].request, Policy) = "ok"
    /\ Executing(t, TaskStep \ InLease) => lease[t] = None
    /\ Executing(t, InLease) =>
        /\ lease[t] = task[t].handle
        /\ records[task[t].handle.id] = task[t].handle.run

\* A file that ran and was not the pinned one is not the pinned one afterwards, so
\* that the last verification refuses the result.
Ran(t) ==
    /\ Executing(t, {"running", "rechecking"}) /\ task[t].ran # "pinned" =>
        executable # "pinned"
    /\ Executing(t, {"leaving"}) =>
        /\ task[t].result \in Causes \cup {"returned"}
        /\ task[t].result = "returned" => task[t].ran = "pinned"

ExecutorInv ==
    /\ ExecutorTypeOK /\ WorkspaceInv
    /\ \A t \in Threads : Holds(t) /\ Ran(t)
    /\ ResultIsTrusted

-----------------------------------------------------------------------------
(* What the small actions on tasks and outcomes do. *)

TaskType ==
    [at : TaskStep, request : Requests, handle : Handle,
     result : Causes \cup {"returned", None}, ran : File \cup {None}]
OutcomeType ==
    [result : Causes \cup {"returned", "none", "sandbox_error"},
     ran : File \cup {None}, left : Shape \cup {None}]

OnlyTaskOf(t) ==
    /\ task' \in [Threads -> {NoTask} \cup TaskType]
    /\ \A u \in Threads \ {t} : task'[u] = task[u]
OnlyOutcomeOf(t) ==
    /\ outcome' \in [Threads -> OutcomeType]
    /\ \A u \in Threads \ {t} : outcome'[u] = outcome[u]

\* What a result that was returned promises.
Trusted(t) ==
    outcome[t].result = "returned" =>
        outcome[t].ran = "pinned" /\ Validates(outcome[t].left)

\* A task has all its parts, and is not the empty one.
LEMMA TaskHasParts ==
    /\ \A x \in TaskType : x # NoTask
    /\ ExecutorTypeOK =>
        \A t \in Threads : task[t] # NoTask =>
            task[t] \in TaskType /\ task[t].handle \in Handle /\ task[t].request \in Requests
<1>1. \A x \in TaskType : x # NoTask
  BY DEF TaskType, NoTask, TaskStep
<1>2. ASSUME ExecutorTypeOK, NEW t \in Threads, task[t] # NoTask
      PROVE  task[t] \in TaskType /\ task[t].handle \in Handle /\ task[t].request \in Requests
  BY <1>2 DEF ExecutorTypeOK, TaskType
<1> QED
  BY <1>1, <1>2

\* A task moves on to another step.
LEMMA NextStepEffect ==
    ASSUME ExecutorTypeOK, NEW t \in Threads, task[t] # NoTask, NEW at \in TaskStep,
           NextStep(t, at)
    PROVE  /\ OnlyTaskOf(t) /\ task'[t] # NoTask /\ task'[t].at = at
           /\ task'[t].handle = task[t].handle /\ task'[t].request = task[t].request
           /\ task'[t].ran = task[t].ran
<1>1. task[t] \in TaskType /\ task'[t] = [task[t] EXCEPT !.at = at]
  BY TaskHasParts DEF NextStep, ExecutorTypeOK
<1>2. /\ task'[t] \in TaskType /\ task'[t].at = at
      /\ task'[t].handle = task[t].handle /\ task'[t].request = task[t].request
      /\ task'[t].ran = task[t].ran
  BY <1>1 DEF TaskType
<1>3. OnlyTaskOf(t)
  BY <1>2 DEF ExecutorTypeOK, NextStep, OnlyTaskOf, TaskType
<1> QED
  BY <1>2, <1>3, TaskHasParts

\* A task leaves the with block with what it will report.
LEMMA LeaveWithEffect ==
    ASSUME ExecutorTypeOK, NEW t \in Threads, task[t] # NoTask,
           NEW result \in Causes \cup {"returned"}, LeaveWith(t, result)
    PROVE  /\ OnlyTaskOf(t) /\ task'[t] # NoTask /\ task'[t].at = "leaving"
           /\ task'[t].handle = task[t].handle /\ task'[t].request = task[t].request
           /\ task'[t].ran = task[t].ran /\ task'[t].result = result
<1>1. /\ task[t] \in TaskType
      /\ task'[t] = [task[t] EXCEPT !.at = "leaving", !.result = result]
  BY TaskHasParts DEF LeaveWith, ExecutorTypeOK
<1>2. /\ task'[t] \in TaskType /\ task'[t].at = "leaving"
      /\ task'[t].handle = task[t].handle /\ task'[t].request = task[t].request
      /\ task'[t].ran = task[t].ran /\ task'[t].result = result
  BY <1>1 DEF TaskType, TaskStep
<1>3. OnlyTaskOf(t)
  BY <1>2 DEF ExecutorTypeOK, LeaveWith, OnlyTaskOf, TaskType
<1> QED
  BY <1>2, <1>3, TaskHasParts

\* The call is over.
LEMMA ConcludeEffect ==
    ASSUME ExecutorTypeOK, NEW t \in Threads, NEW result \in Causes \cup {"sandbox_error"},
           Conclude(t, result)
    PROVE  OnlyTaskOf(t) /\ OnlyOutcomeOf(t) /\ task'[t] = NoTask /\ Trusted(t)'
<1>1. OnlyTaskOf(t) /\ task'[t] = NoTask
  BY DEF ExecutorTypeOK, Conclude, OnlyTaskOf, TaskType
<1>2. /\ [NoOutcome EXCEPT !.result = result] \in OutcomeType
      /\ [NoOutcome EXCEPT !.result = result].result = result
  BY DEF NoOutcome, OutcomeType
<1>3. OnlyOutcomeOf(t) /\ outcome'[t].result = result
  BY <1>2 DEF ExecutorTypeOK, Conclude, OnlyOutcomeOf, OutcomeType
<1> QED
  BY <1>1, <1>3 DEF Trusted, Causes

\* What is left to show of a step of one thread's execution.
LEMMA ExecutorAloneStep ==
    ASSUME ExecutorInv, NEW t \in Threads, WorkspaceInv',
           OnlyTaskOf(t), OnlyOutcomeOf(t), UNCHANGED <<executable, bubblewrap>>,
           \A u \in Threads \ {t} : call'[u] = call[u] /\ lease'[u] = lease[u],
           \A u \in Threads \ {t} : lease[u] # None => UNCHANGED records,
           Holds(t)', Ran(t)', Trusted(t)'
    PROVE  ExecutorInv'
<1>1. ExecutorTypeOK'
  BY DEF ExecutorInv, ExecutorTypeOK, OnlyTaskOf, OnlyOutcomeOf, TaskType, OutcomeType,
         WorkspaceInv
<1>2. ASSUME NEW u \in Threads \ {t} PROVE Holds(u)' /\ Ran(u)'
  <2>1. task'[u] = task[u] /\ call'[u] = call[u] /\ lease'[u] = lease[u] /\ Holds(u) /\ Ran(u)
    BY DEF OnlyTaskOf, ExecutorInv
  <2>2. Ran(u)'
    BY <2>1 DEF Ran, Executing
  <2>3. Executing(u, InLease) => lease[u] # None
    BY <2>1, TaskHasParts, WorkspaceAssumption DEF Executing, ExecutorInv, Holds, Handle
  <2>4. Holds(u)'
    BY <2>1, <2>3 DEF Holds, Executing
  <2> QED
    BY <2>2, <2>4
<1>3. ResultIsTrusted'
  BY DEF ExecutorInv, ResultIsTrusted, Trusted, OnlyOutcomeOf
<1> QED
  BY <1>1, <1>2, <1>3 DEF ExecutorInv

-----------------------------------------------------------------------------
(* The steps of an execution. *)

\* A request that passes every check is covered by a rule.
LEMMA OkIsAuthorized ==
    ASSUME NEW q, Verdict(q, Policy) = "ok"
    PROVE  Authorized(q, Policy)
<1>1. q.hash = Policy.hash /\ ForLimits(q, Policy) # {}
  BY DEF Verdict
<1>2. PICK rule : rule \in ForLimits(q, Policy)
  BY <1>1
<1>3. rule \in Policy.rules /\ Covers(rule, q)
  BY <1>2 DEF ForLimits, ForEnvironment, ForDirectory, ForArguments, ForExecutable,
              ForAction, Covers
<1> QED
  BY <1>1, <1>3 DEF Authorized

\* Taking a reply back is all the workspace adapter sees of the call of execute.
LEMMA ReplyTakenBack ==
    ASSUME WorkspaceInv, NEW t \in Threads, reply' = [reply EXCEPT ![t] = NoReply],
           UNCHANGED <<mapping, files, issued, call, lease>>
    PROVE  WorkspaceInv'
<1>1. TypeOK' /\ \A u \in Threads : reply'[u] \in {NoReply, reply[u]}
  BY DEF WorkspaceInv, TypeOK, mapping, files
<1>2. SnapshotSound'
  BY <1>1 DEF WorkspaceInv, SnapshotSound
<1>3. (Exclusive /\ Mapped /\ Knows)'
  BY DEF WorkspaceInv, Exclusive, InsideLock, Mapped, IndexInverse, Recorded, FreshIsClean,
         NeverBlocked, ReleaseNeverBlocked, Knows, Prepares, Uses, Leases, Inside, mapping,
         files
<1> QED
  BY <1>1, <1>2, <1>3 DEF WorkspaceInv

\* The call: a request that is not authorized never becomes a task.
LEMMA ExecuteStep ==
    ASSUME ExecutorInv, NEW t \in Threads, NEW q \in Requests, NEW handle \in Handle,
           Execute(t, q, handle)
    PROVE  ExecutorInv'
<1>1. /\ task[t] = NoTask /\ call[t] = Idle /\ lease[t] = None /\ ExecutorTypeOK
      /\ UNCHANGED <<mapping, files, issued, call, lease, executable, bubblewrap>>
      /\ reply' = [reply EXCEPT ![t] = NoReply]
  BY DEF Execute, ExecutorInv, Holds
<1>2. WorkspaceInv' /\ UNCHANGED records
  BY <1>1, ReplyTakenBack DEF ExecutorInv, mapping
<1>3. ASSUME NEW result \in Causes \cup {"sandbox_error"}, Conclude(t, result)
      PROVE  ExecutorInv'
  <2>1. OnlyTaskOf(t) /\ OnlyOutcomeOf(t) /\ task'[t] = NoTask /\ Trusted(t)'
    BY <1>1, <1>3, ConcludeEffect
  <2>2. Holds(t)' /\ Ran(t)'
    BY <1>1, <2>1 DEF Holds, Ran, Executing
  <2> QED
    BY <1>1, <1>2, <2>1, <2>2, ExecutorAloneStep
<1>4. CASE /\ Verdict(q, Policy) = "ok"
           /\ task' = [task EXCEPT ![t] = TaskAt("probing", q, handle)]
           /\ outcome' = [outcome EXCEPT ![t] = NoOutcome]
  <2>1. TaskAt("probing", q, handle) \in TaskType
    BY DEF TaskAt, TaskType, TaskStep
  <2>2. OnlyTaskOf(t) /\ task'[t] = TaskAt("probing", q, handle)
    BY <1>1, <1>4, <2>1 DEF ExecutorTypeOK, OnlyTaskOf, TaskType
  <2>3. NoOutcome \in OutcomeType
    BY DEF NoOutcome, OutcomeType
  <2>4. OnlyOutcomeOf(t) /\ outcome'[t] = NoOutcome
    BY <1>1, <1>4, <2>3 DEF ExecutorTypeOK, OnlyOutcomeOf, OutcomeType
  <2>5. Trusted(t)'
    BY <2>4 DEF Trusted, NoOutcome
  <2>6. Holds(t)' /\ Ran(t)'
    BY <1>1, <1>4, <2>2 DEF Holds, Ran, Executing, TaskAt, InLease
  <2> QED
    BY <1>1, <1>2, <2>2, <2>4, <2>5, <2>6, ExecutorAloneStep
<1> QED
  BY <1>3, <1>4 DEF Execute, Causes

\* A step of an execution that leaves the workspaces as they are.
LEMMA InnerStep ==
    ASSUME ExecutorInv, NEW t \in Threads, UNCHANGED <<vars, executable, bubblewrap>>,
           OnlyTaskOf(t), OnlyOutcomeOf(t), Holds(t)', Ran(t)', Trusted(t)'
    PROVE  ExecutorInv'
<1>1. WorkspaceInv'
  BY WorkspaceStep DEF ExecutorInv
<1> QED
  BY <1>1, ExecutorAloneStep DEF vars

\* The steps before the lease.
LEMMA BeforeLeaseStep ==
    ASSUME ExecutorInv, NEW t \in Threads, Probe(t) \/ VerifyFirst(t)
    PROVE  ExecutorInv'
<1>1. /\ ExecutorTypeOK /\ task[t] # NoTask /\ Holds(t) /\ executable \in File
      /\ Executing(t, TaskStep \ InLease) /\ UNCHANGED <<vars, executable, bubblewrap>>
  BY DEF ExecutorInv, ExecutorTypeOK, Probe, VerifyFirst, Doing, Executing, TaskStep, InLease
<1>2. lease[t] = None /\ UNCHANGED <<call, lease, records>>
  BY <1>1 DEF Holds, vars
<1>3. ASSUME NEW result \in Causes \cup {"sandbox_error"}, Conclude(t, result)
      PROVE  ExecutorInv'
  <2>1. OnlyTaskOf(t) /\ OnlyOutcomeOf(t) /\ task'[t] = NoTask /\ Trusted(t)'
    BY <1>1, <1>3, ConcludeEffect
  <2>2. Holds(t)' /\ Ran(t)'
    BY <1>2, <2>1 DEF Holds, Ran, Executing
  <2> QED
    BY <1>1, <2>1, <2>2, InnerStep
<1>4. ASSUME NEW at \in TaskStep \ InLease, NextStep(t, at), UNCHANGED outcome
      PROVE  ExecutorInv'
  <2>1. /\ OnlyTaskOf(t) /\ task'[t] # NoTask /\ task'[t].at = at
        /\ task'[t].request = task[t].request
    BY <1>1, <1>4, NextStepEffect
  <2>2. OnlyOutcomeOf(t) /\ Trusted(t)'
    BY <1>1, <1>4
       DEF ExecutorInv, ExecutorTypeOK, OnlyOutcomeOf, OutcomeType, ResultIsTrusted, Trusted
  <2>3. Holds(t)'
    BY <1>1, <1>2, <1>4, <2>1 DEF Holds, Executing
  <2>4. Ran(t)'
    BY <1>4, <2>1 DEF Ran, Executing, InLease
  <2> QED
    BY <1>1, <2>1, <2>2, <2>3, <2>4, InnerStep
<1>5. FileFault(executable) # "ok" => FileFault(executable) \in Causes
  BY <1>1 DEF FileFault, File, Causes
<1> QED
  BY <1>3, <1>4, <1>5 DEF Probe, VerifyFirst, Causes, TaskStep, InLease

\* The lease is taken, or its fault is translated.
LEMMA TakeLeaseStep == ASSUME ExecutorInv, NEW t \in Threads, TakeLease(t) PROVE ExecutorInv'
<1> DEFINE handle == task[t].handle
<1>1. /\ ExecutorTypeOK /\ task[t] # NoTask /\ Holds(t) /\ lease[t] = None /\ handle \in Handle
      /\ EnterLease(t, handle) /\ UNCHANGED <<executable, bubblewrap>>
  BY TaskHasParts
     DEF ExecutorInv, TakeLease, Doing, Holds, Executing, TaskStep, InLease
<1>2. WorkspaceInv'
  BY <1>1, EnterLeaseStep DEF ExecutorInv
<1>3. /\ UNCHANGED records /\ call[t] = Idle
      /\ lease' = lease \/
           (lease' = [lease EXCEPT ![t] = handle] /\ RecordFault(handle) = "ok")
  BY <1>1 DEF EnterLease, mapping, MayCall
<1>4. PICK result : Answer(t, "lease", handle, result, None)
  BY <1>1 DEF EnterLease
<1>5. call'[t] = Idle /\ \A u \in Threads \ {t} : call'[u] = call[u] /\ lease'[u] = lease[u]
  BY <1>1, <1>3, <1>4 DEF Answer, ExecutorTypeOK, TypeOK
<1>6. CASE lease'[t] # None /\ NextStep(t, "preparing") /\ UNCHANGED outcome
  <2>1. /\ OnlyTaskOf(t) /\ task'[t] # NoTask /\ task'[t].at = "preparing"
        /\ task'[t].request = task[t].request /\ task'[t].handle = handle
    BY <1>1, <1>6, NextStepEffect DEF TaskStep
  <2>2. OnlyOutcomeOf(t) /\ Trusted(t)'
    BY <1>1, <1>6
       DEF ExecutorInv, ExecutorTypeOK, OnlyOutcomeOf, OutcomeType, ResultIsTrusted, Trusted
  <2>3. lease'[t] = handle /\ records[handle.id] = handle.run
    BY <1>1, <1>3, <1>6, RecordFaultIsTrue DEF ExecutorTypeOK, TypeOK
  <2>4. Holds(t)'
    BY <1>1, <1>3, <1>5, <2>1, <2>3 DEF Holds, Executing, InLease
  <2>5. Ran(t)'
    BY <2>1 DEF Ran, Executing
  <2> QED
    BY <1>1, <1>2, <1>3, <1>5, <2>1, <2>2, <2>4, <2>5, ExecutorAloneStep
<1>7. CASE lease'[t] = None /\ Conclude(t, LeaseFault(reply'[t].result))
  <2>1. OnlyTaskOf(t) /\ OnlyOutcomeOf(t) /\ task'[t] = NoTask /\ Trusted(t)'
    BY <1>1, <1>7, ConcludeEffect DEF LeaseFault, Causes
  <2>2. Holds(t)' /\ Ran(t)'
    BY <1>7, <2>1 DEF Holds, Ran, Executing
  <2> QED
    BY <1>1, <1>2, <1>3, <1>5, <2>1, <2>2, ExecutorAloneStep
<1> QED
  BY <1>6, <1>7 DEF TakeLease

\* The steps inside the with block: what ran is remembered, and a result is only
\* made when the executable is still the pinned one.
LEMMA InsideLeaseStep ==
    ASSUME ExecutorInv, NEW t \in Threads,
           PrepareInvocation(t) \/ Spawn(t) \/ Report(t) \/ VerifyLast(t)
    PROVE  ExecutorInv'
<1>1. /\ ExecutorTypeOK /\ task[t] # NoTask /\ Holds(t) /\ Ran(t) /\ executable \in File
      /\ Executing(t, InLease) /\ UNCHANGED <<vars, executable, bubblewrap, outcome>>
  BY DEF ExecutorInv, ExecutorTypeOK, PrepareInvocation, Spawn, Report, VerifyLast, Doing,
         Executing, InLease
<1>2. /\ lease[t] = task[t].handle /\ records[task[t].handle.id] = task[t].handle.run
      /\ UNCHANGED <<call, lease, records>>
  BY <1>1 DEF Holds, vars
<1>3. OnlyOutcomeOf(t) /\ Trusted(t)'
  BY <1>1
     DEF ExecutorInv, ExecutorTypeOK, OnlyOutcomeOf, OutcomeType, ResultIsTrusted, Trusted
<1>4. ASSUME OnlyTaskOf(t), task'[t] # NoTask, task'[t].at \in InLease,
             task'[t].request = task[t].request, task'[t].handle = task[t].handle
      PROVE  Holds(t)'
  BY <1>1, <1>2, <1>4 DEF Holds, Executing
<1>5. ASSUME NEW result \in Causes \cup {"returned"}, LeaveWith(t, result),
             result = "returned" => task[t].ran = "pinned"
      PROVE  ExecutorInv'
  <2>1. /\ OnlyTaskOf(t) /\ task'[t] # NoTask /\ task'[t].at = "leaving"
        /\ task'[t].handle = task[t].handle /\ task'[t].request = task[t].request
        /\ task'[t].ran = task[t].ran /\ task'[t].result = result
    BY <1>1, <1>5, LeaveWithEffect
  <2>2. Ran(t)'
    BY <1>5, <2>1 DEF Ran, Executing
  <2> QED
    BY <1>1, <1>3, <1>4, <2>1, <2>2, InnerStep DEF InLease
<1>6. ASSUME NEW at \in {"spawning", "rechecking"}, NextStep(t, at),
             at = "rechecking" => task[t].at = "running"
      PROVE  ExecutorInv'
  <2>1. /\ OnlyTaskOf(t) /\ task'[t] # NoTask /\ task'[t].at = at
        /\ task'[t].handle = task[t].handle /\ task'[t].request = task[t].request
        /\ task'[t].ran = task[t].ran
    BY <1>1, <1>6, NextStepEffect DEF TaskStep
  <2>2. Ran(t)'
    BY <1>1, <1>6, <2>1 DEF Ran, Executing
  <2> QED
    BY <1>1, <1>3, <1>4, <1>6, <2>1, <2>2, InnerStep DEF InLease
<1>7. CASE task' = [task EXCEPT ![t].at = "running", ![t].ran = executable]
  <2>1. /\ task[t] \in TaskType
        /\ task'[t] = [task[t] EXCEPT !.at = "running", !.ran = executable]
    BY <1>1, <1>7, TaskHasParts DEF ExecutorTypeOK
  <2>2. /\ task'[t] \in TaskType /\ task'[t].at = "running" /\ task'[t].ran = executable
        /\ task'[t].handle = task[t].handle /\ task'[t].request = task[t].request
    BY <1>1, <2>1 DEF TaskType, TaskStep
  <2>3. OnlyTaskOf(t) /\ task'[t] # NoTask
    BY <1>1, <1>7, <2>2, TaskHasParts DEF ExecutorTypeOK, OnlyTaskOf, TaskType
  <2>4. Ran(t)'
    BY <1>1, <2>2 DEF Ran, Executing
  <2> QED
    BY <1>1, <1>3, <1>4, <2>2, <2>3, <2>4, InnerStep DEF InLease
<1>8. FileFault(executable) # "ok" => FileFault(executable) \in Causes
  BY <1>1 DEF FileFault, File, Causes
<1>9. CASE PrepareInvocation(t)
  BY <1>5, <1>6, <1>8, <1>9 DEF PrepareInvocation, Causes
<1>10. CASE Spawn(t)
  BY <1>5, <1>7, <1>10 DEF Spawn, Causes
<1>11. CASE Report(t)
  BY <1>5, <1>6, <1>11 DEF Report, Doing, Causes
<1>12. CASE VerifyLast(t)
  <2>1. FileFault(executable) = "ok" => task[t].ran = "pinned"
    BY <1>1, <1>12 DEF VerifyLast, Doing, Ran, Executing, FileFault, File
  <2> QED
    BY <1>5, <1>8, <1>12, <2>1 DEF VerifyLast, Causes
<1> QED
  BY <1>9, <1>10, <1>11, <1>12

\* The command works in the leased workspace.
LEMMA RunInWorkspaceStep ==
    ASSUME ExecutorInv, NEW t \in Threads, RunInWorkspace(t)
    PROVE  ExecutorInv'
<1>1. /\ ExecutorTypeOK /\ Holds(t) /\ Ran(t) /\ Work(t)
      /\ UNCHANGED <<task, outcome, executable, bubblewrap>>
  BY DEF ExecutorInv, RunInWorkspace, executorVars
<1>2. WorkspaceInv' /\ UNCHANGED <<records, call, lease>>
  BY <1>1, WorkStep DEF ExecutorInv, Work, mapping
<1>3. OnlyTaskOf(t) /\ OnlyOutcomeOf(t) /\ Trusted(t)'
  BY <1>1
     DEF ExecutorInv, ExecutorTypeOK, OnlyTaskOf, TaskType, OnlyOutcomeOf, OutcomeType,
         ResultIsTrusted, Trusted
<1>4. Holds(t)' /\ Ran(t)'
  BY <1>1, <1>2 DEF Holds, Ran, Executing
<1> QED
  BY <1>1, <1>2, <1>3, <1>4, ExecutorAloneStep

\* The lease is left: a result is returned only if the workspace validates.
LEMMA LeaveStep == ASSUME ExecutorInv, NEW t \in Threads, Leave(t) PROVE ExecutorInv'
<1> DEFINE i == lease[t].id
           result == IF reply'[t].result = "ok" THEN task[t].result ELSE "isolation_failure"
<1>1. /\ ExecutorTypeOK /\ task[t] # NoTask /\ task[t].at = "leaving" /\ Holds(t) /\ Ran(t)
      /\ ExitLease(t) /\ ConcludeLease(t, result) /\ UNCHANGED <<executable, bubblewrap>>
  BY DEF ExecutorInv, Leave, Doing
<1>2. WorkspaceInv' /\ UNCHANGED records
  BY <1>1, ExitLeaseStep DEF ExecutorInv, ExitLease, mapping
<1>3. /\ task[t] \in TaskType /\ lease[t] = task[t].handle /\ lease[t] \in Handle
      /\ entry[i] \in Shape
      /\ task[t].result \in Causes \cup {"returned"}
      /\ task[t].result = "returned" => task[t].ran = "pinned"
  <2>1. /\ task[t] \in TaskType /\ task[t].handle \in Handle
        /\ lease[t] = task[t].handle
        /\ task[t].result \in Causes \cup {"returned"}
        /\ task[t].result = "returned" => task[t].ran = "pinned"
    BY <1>1, TaskHasParts DEF Holds, Ran, Executing, InLease
  <2>2. entry[i] \in Shape
    BY <1>1, <2>1 DEF ExecutorTypeOK, TypeOK, Handle
  <2> QED
    BY <2>1, <2>2
<1>4. PICK verdict \in Verdicts(entry[i]) : Answer(t, "lease", lease[t], verdict, entry[i])
  BY <1>1 DEF ExitLease
<1>5. reply'[t].result = verdict /\ call'[t] = Idle
      /\ \A u \in Threads \ {t} : call'[u] = call[u]
  BY <1>1, <1>4 DEF Answer, Reply, ExecutorTypeOK, TypeOK
<1>6. result = "returned" => task[t].ran = "pinned" /\ Validates(entry[i])
  BY <1>3, <1>5 DEF Verdicts
<1>7. result \in Causes \cup {"returned"}
  BY <1>3 DEF Causes
<1> HIDE DEF result
<1>8. lease'[t] = None /\ \A u \in Threads \ {t} : lease'[u] = lease[u]
  BY <1>1 DEF ExitLease, ExecutorTypeOK, TypeOK
<1>9. OnlyTaskOf(t) /\ task'[t] = NoTask
  BY <1>1 DEF ExecutorTypeOK, ConcludeLease, OnlyTaskOf, TaskType
<1>10. OnlyOutcomeOf(t) /\ Trusted(t)'
  <2> DEFINE new == IF result = "returned"
                    THEN [result |-> result, ran |-> task[t].ran,
                          left |-> entry[task[t].handle.id]]
                    ELSE [NoOutcome EXCEPT !.result = result]
  <2>1. new \in OutcomeType
    BY <1>3, <1>7 DEF OutcomeType, NoOutcome, TaskType
  <2>2. new.result = "returned" => new.ran = "pinned" /\ Validates(new.left)
    BY <1>3, <1>6 DEF NoOutcome
  <2>3. outcome' = [outcome EXCEPT ![t] = new]
    BY <1>1 DEF ConcludeLease
  <2> HIDE DEF new
  <2>4. OnlyOutcomeOf(t) /\ outcome'[t] = new
    BY <1>1, <2>1, <2>3 DEF ExecutorTypeOK, OnlyOutcomeOf, OutcomeType
  <2> QED
    BY <2>2, <2>4 DEF Trusted
<1>11. Holds(t)' /\ Ran(t)'
  BY <1>8, <1>9 DEF Holds, Ran, Executing
<1> QED
  BY <1>1, <1>2, <1>5, <1>8, <1>9, <1>10, <1>11, ExecutorAloneStep

\* Other threads use the workspaces only when nobody is in a lease.
LEMMA UseWorkspacesStep ==
    ASSUME ExecutorInv, NEW t \in Threads, UseWorkspaces(t)
    PROVE  ExecutorInv'
<1>1. /\ ExecutorTypeOK /\ WorkspaceInv /\ task[t] = NoTask /\ lease[t] = None
      /\ Prepare(t) \/ Load(t) \/ Snapshot(t) \/ Release(t)
      /\ outcome' = [outcome EXCEPT ![t] = NoOutcome]
      /\ UNCHANGED <<task, executable, bubblewrap>>
  BY DEF ExecutorInv, UseWorkspaces, Holds
<1>2. WorkspaceInv'
  BY <1>1, ThreadStep
<1>3. UNCHANGED lease
  BY <1>1 DEF Prepare, Load, Snapshot, Release, Deletion, CallPrepare, Clone, Populate,
              ValidateNew, Discard, CallSnapshot, StageTree, Recheck, CallRelease,
              DetachWorks, DetachFails, DeleteWorks, DeleteFails, Restore, RecoverWorks,
              RecoverFails
<1>4. \A u \in Threads \ {t} : call'[u] = call[u]
  <2>1. call \in [Threads -> {Idle} \cup CallType]
    BY <1>1 DEF ExecutorTypeOK, TypeOK, CallType
  <2> QED
    BY <1>1, <2>1
       DEF Prepare, Load, Snapshot, Release, Deletion, CallPrepare, Clone, Populate,
           ValidateNew, Discard, CallSnapshot, StageTree, Recheck, CallRelease,
           DetachWorks, DetachFails, DeleteWorks, DeleteFails, Restore, RecoverWorks,
           RecoverFails, Begin, Answer, Goto, Fail
<1>5. \A u \in Threads \ {t} : lease[u] = None
  BY <1>1, OthersWait DEF InsideLock
<1>6. OnlyTaskOf(t)
  BY <1>1 DEF ExecutorTypeOK, OnlyTaskOf, TaskType
<1>7. OnlyOutcomeOf(t) /\ Trusted(t)'
  <2>1. NoOutcome \in OutcomeType
    BY DEF NoOutcome, OutcomeType
  <2>2. OnlyOutcomeOf(t) /\ outcome'[t] = NoOutcome
    BY <1>1, <2>1 DEF ExecutorTypeOK, OnlyOutcomeOf, OutcomeType
  <2> QED
    BY <2>2 DEF Trusted, NoOutcome
<1>8. Holds(t)' /\ Ran(t)'
  BY <1>1, <1>3 DEF Holds, Ran, Executing
<1> QED
  BY <1>1, <1>2, <1>3, <1>4, <1>5, <1>6, <1>7, <1>8, ExecutorAloneStep

\* Others change a directory or a trusted file, at any moment.  An executable that
\* was replaced does not become the pinned one again.
LEMMA OthersStep ==
    ASSUME ExecutorInv,
           ReplaceExecutable \/ ReplaceBubblewrap \/ Disturb \/ UNCHANGED allVars
    PROVE  ExecutorInv'
<1>1. /\ UNCHANGED <<task, outcome, records, call, lease>>
      /\ UNCHANGED vars \/ \E i \in Ids : Tamper(i)
  BY DEF ReplaceExecutable, ReplaceBubblewrap, Disturb, Tamper, executorVars, allVars, vars,
         mapping
<1>2. /\ executable' \in File /\ bubblewrap' \in {"pinned", "changed"}
      /\ executable # "pinned" => executable' # "pinned"
  BY DEF ExecutorInv, ExecutorTypeOK, ReplaceExecutable, ReplaceBubblewrap, Disturb, File,
         executorVars, allVars
<1>3. WorkspaceInv'
  BY <1>1, WorkspaceStep, EnvironmentStep DEF ExecutorInv
<1>4. ExecutorTypeOK' /\ ResultIsTrusted'
  BY <1>1, <1>2, <1>3 DEF ExecutorInv, ExecutorTypeOK, WorkspaceInv, ResultIsTrusted
<1>5. ASSUME NEW t \in Threads PROVE Holds(t)' /\ Ran(t)'
  BY <1>1, <1>2 DEF ExecutorInv, Holds, Ran, Executing
<1> QED
  BY <1>3, <1>4, <1>5 DEF ExecutorInv

-----------------------------------------------------------------------------
(* The invariant, and what it gives. *)

\* At first nothing is executed.
LEMMA ExecutorStart == ExecutorInit => ExecutorInv
<1> SUFFICES ASSUME ExecutorInit PROVE ExecutorInv
  OBVIOUS
<1>1. WorkspaceInv /\ \A t \in Threads : lease[t] = None
  BY WorkspaceInit DEF ExecutorInit, Init
<1>2. NoOutcome \in OutcomeType
  BY DEF NoOutcome, OutcomeType
<1>3. ExecutorTypeOK
  BY <1>1, <1>2 DEF ExecutorInit, ExecutorTypeOK, WorkspaceInv, OutcomeType, File
<1>4. \A t \in Threads : Holds(t) /\ Ran(t)
  BY <1>1 DEF ExecutorInit, Holds, Ran, Executing
<1>5. ResultIsTrusted
  BY DEF ExecutorInit, ResultIsTrusted, NoOutcome
<1> QED
  BY <1>1, <1>3, <1>4, <1>5 DEF ExecutorInv

\* Every step of the composition preserves the invariant.
LEMMA ExecutorStep == ExecutorInv /\ [ExecutorNext]_allVars => ExecutorInv'
<1> SUFFICES ASSUME ExecutorInv, [ExecutorNext]_allVars PROVE ExecutorInv'
  OBVIOUS
<1>1. ASSUME NEW t \in Threads, Run(t) PROVE ExecutorInv'
  BY <1>1, ExecuteStep, BeforeLeaseStep, TakeLeaseStep, InsideLeaseStep, RunInWorkspaceStep,
     LeaveStep DEF Run
<1> QED
  BY <1>1, UseWorkspacesStep, OthersStep DEF ExecutorNext

\* The inductive invariant holds in every reachable state.
THEOREM ExecutorInvariance == ExecutorSpec => []ExecutorInv
BY ExecutorStart, ExecutorStep, PTL DEF ExecutorSpec

\* The variables of the executor and of the adapter under it keep their types.
THEOREM ExecutorTyped == ExecutorSpec => []ExecutorTypeOK
BY ExecutorInvariance, PTL DEF ExecutorInv

\* A result is only returned for a command that ran the pinned executable and whose
\* workspace validated when the lease was left.
THEOREM ResultsAreTrusted == ExecutorSpec => []ResultIsTrusted
BY ExecutorInvariance, PTL DEF ExecutorInv

\* A command that runs is covered by a rule of the policy, and has the lease of the
\* workspace its request names, which is still published for that run.
THEOREM CommandsRunWhereTheyShould == ExecutorSpec => []RunsInItsWorkspace
<1>1. ExecutorInv => RunsInItsWorkspace
  BY OkIsAuthorized DEF ExecutorInv, RunsInItsWorkspace, Holds, Doing, Executing, InLease
<1> QED
  BY <1>1, ExecutorInvariance, PTL

\* No two commands run at the same time, and no operation of another thread is in
\* progress while one runs.
THEOREM CommandsAreAlone == ExecutorSpec => []CommandsRunAlone
<1>1. ExecutorInv => CommandsRunAlone
  <2> SUFFICES ASSUME ExecutorInv, NEW t \in Threads, NEW u \in Threads, t # u,
                      Doing(t, "running")
               PROVE  call[u] = Idle /\ ~Doing(u, "running")
    BY DEF CommandsRunAlone
  <2>1. \A v \in Threads : Doing(v, "running") => lease[v] # None
    BY TaskHasParts, WorkspaceAssumption
       DEF ExecutorInv, Holds, Doing, Executing, InLease, Handle
  <2> QED
    BY <2>1 DEF ExecutorInv, WorkspaceInv, Exclusive, InsideLock
<1> QED
  BY <1>1, ExecutorInvariance, PTL
=============================================================================
