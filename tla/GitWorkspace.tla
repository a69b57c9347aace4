---------------------------- MODULE GitWorkspace ----------------------------
(***************************************************************************)
(* The local Git workspace adapter (adapters/local/git_workspace.py): one  *)
(* adapter object, called by several threads under one re-entrant lock,    *)
(* keeping directories on disk that outlive it.  Every operation holds the *)
(* lock from end to end; what interleaves with it is the file system (the  *)
(* candidate's own writes under a lease, foreign changes to the root), the *)
(* failure of any system call, and the death of the process, which loses   *)
(* the in-memory mapping and keeps the files.                              *)
(***************************************************************************)
EXTENDS Naturals, FiniteSets

CONSTANTS
    Runs,        \* run identities
    Ids,         \* workspace capabilities, each the name of a child of the root
    Threads,     \* threads that share the adapter object
    None,        \* the absent value
    Reissues,    \* TRUE if the identifier generator may repeat an identifier
    Environment  \* what happens around the adapter: see the actions below

ASSUME WorkspaceAssumption ==
    /\ None \notin Runs \cup Ids \cup [id : Ids, run : Runs]
    /\ Reissues \in BOOLEAN
    /\ Environment \subseteq {"work", "tamper", "intrude", "crash"}

VARIABLES
    records,     \* _records: the run of each published capability
    runIndex,    \* _run_index: the capability of each run
    entry,       \* what is at root/<id>
    quarantine,  \* what is at root/.release-<id>
    issued,      \* identifiers the generator has handed out
    call,        \* the operation each thread is inside
    lease,       \* the workspace each thread holds an execution lease on
    reply        \* the outcome of each thread's last operation, until its next one

vars == <<records, runIndex, entry, quarantine, issued, call, lease, reply>>

(***************************************************************************)
(* What a name under the root can be.  "whole" and "cut" both pass the     *)
(* validation, which looks at links, .git/config, HEAD and the remotes;    *)
(* "cut" has lost working files to a deletion that did not finish, and     *)
(* "altered" fails the validation.  "foreign" was put there by others.     *)
(***************************************************************************)
Directory == {"partial", "whole", "cut", "altered", "foreign"}
Shape == Directory \cup {"absent", "symlink", "file"}

Validates(shape) == shape \in {"whole", "cut"}

Handle == [id : Ids, run : Runs]
Step == {"cloning", "populating", "validating", "discarding", "staging",
         "rechecking", "detaching", "deleting", "restoring", "recovering"}
Result == {"ok", "none", "already_exists", "not_found", "conflict",
           "isolation_failure", "storage_failure"}
Fault == {"isolation_failure", "storage_failure"}

Idle == [at |-> "idle"]
NoReply == [op |-> "none"]
CallAt(at, handle) == [at |-> at, handle |-> handle, cause |-> None, tree |-> None]
Reply(op, handle, result, tree) ==
    [op |-> op, handle |-> handle, result |-> result, tree |-> tree]

TypeOK ==
    /\ records \in [Ids -> Runs \cup {None}]
    /\ runIndex \in [Runs -> Ids \cup {None}]
    /\ entry \in [Ids -> Shape]
    /\ quarantine \in [Ids -> Shape \ {"foreign"}]
    /\ issued \subseteq Ids
    /\ call \in [Threads -> {Idle} \cup [at : Step, handle : Handle,
                             cause : Fault \cup {None}, tree : Shape \cup {None}]]
    /\ lease \in [Threads -> Handle \cup {None}]
    /\ reply \in [Threads -> {NoReply} \cup
                    [op : {"prepare", "load", "snapshot", "release", "lease"},
                     handle : Handle, result : Result, tree : Shape \cup {None}]]

Init ==
    /\ records = [i \in Ids |-> None]
    /\ runIndex = [r \in Runs |-> None]
    /\ entry = [i \in Ids |-> "absent"]
    /\ quarantine = [i \in Ids |-> "absent"]
    /\ issued = {}
    /\ call = [t \in Threads |-> Idle]
    /\ lease = [t \in Threads |-> None]
    /\ reply = [t \in Threads |-> NoReply]

-----------------------------------------------------------------------------
(* The lock, the calls and the mapping. *)

\* A thread is inside the lock during an operation and for as long as it
\* holds a lease.
InsideLock(t) == call[t] # Idle \/ lease[t] # None

LockFree_NotHeldByLease(t) == \A u \in Threads \ {t} : call[u] = Idle

\* threading.RLock: free, or taken by this very thread.
LockFree(t) == \A u \in Threads \ {t} : ~InsideLock(u)

MayCall(t) == call[t] = Idle /\ LockFree(t)
AtStep(t, at) == call[t] # Idle /\ call[t].at = at

Goto(t, at) == call' = [call EXCEPT ![t].at = at]
Begin(t, at, handle) ==
    /\ call' = [call EXCEPT ![t] = CallAt(at, handle)]
    /\ reply' = [reply EXCEPT ![t] = NoReply]
Answer(t, op, handle, result, tree) ==
    /\ reply' = [reply EXCEPT ![t] = Reply(op, handle, result, tree)]
    /\ call' = [call EXCEPT ![t] = Idle]

NewIds_Repeats == Ids

\* The generator promises a new identifier for every call.
NewIds == IF Reissues THEN Ids ELSE Ids \ issued

Publish_WrongValue(handle) ==
    /\ records' = [records EXCEPT ![handle.id] = handle.run]
    /\ runIndex' = [runIndex EXCEPT ![handle.run] = handle.run]

Publish(handle) ==
    /\ records' = [records EXCEPT ![handle.id] = handle.run]
    /\ runIndex' = [runIndex EXCEPT ![handle.run] = handle.id]

Forget_KeepsRun(handle) ==
    /\ records' = [records EXCEPT ![handle.id] = None]
    /\ UNCHANGED runIndex

Forget(handle) ==
    /\ records' = [records EXCEPT ![handle.id] = None]
    /\ runIndex' = [runIndex EXCEPT ![handle.run] = None]

mapping == <<records, runIndex>>
files == <<entry, quarantine>>

\* Mutant: a capability is found by its identifier alone.
RecordFault_AnyRun(handle) == IF records[handle.id] = None THEN "not_found" ELSE "ok"

\* _require_record: the error of a handle that is not the recorded one.
RecordFault(handle) ==
    CASE records[handle.id] = None -> "not_found"
      [] records[handle.id] \notin {None, handle.run} -> "conflict"
      [] OTHER -> "ok"

\* _validate_record: what it can say of a directory.  The Git subprocess and
\* the file system may fail whatever the directory holds.
Verdicts(shape) ==
    {"storage_failure"} \cup {IF Validates(shape) THEN "ok" ELSE "isolation_failure"}

-----------------------------------------------------------------------------
(* prepare: check, clone, validate, publish; discard what failed. *)

CallPrepare_NoCollisionCheck(t) ==
    /\ MayCall(t)
    /\ \E r \in Runs, i \in NewIds :
        /\ runIndex[r] = None
        /\ issued' = issued \cup {i}
        /\ Begin(t, "cloning", [id |-> i, run |-> r])
        /\ UNCHANGED <<mapping, files, lease>>

CallPrepare(t) ==
    /\ MayCall(t)
    /\ \E r \in Runs, i \in NewIds :
        LET handle == [id |-> i, run |-> r] IN
        \/ /\ runIndex[r] # None
           /\ Answer(t, "prepare", handle, "already_exists", None)
           /\ UNCHANGED <<mapping, files, issued, lease>>
        \/ /\ runIndex[r] = None
           /\ issued' = issued \cup {i}
           /\ \/ /\ records[i] # None \/ entry[i] # "absent"
                 /\ Answer(t, "prepare", handle, "already_exists", None)
              \/ /\ records[i] = None /\ entry[i] = "absent"
                 /\ Begin(t, "cloning", handle)
           /\ UNCHANGED <<mapping, files, lease>>

Fail(t, cause) == call' = [call EXCEPT ![t].at = "discarding", ![t].cause = cause]

\* materialize_baseline looks at the destination again, then starts the clone.
Clone(t) ==
    /\ AtStep(t, "cloning")
    /\ LET i == call[t].handle.id IN
        \/ /\ entry[i] # "absent"
           /\ Fail(t, "isolation_failure")
           /\ UNCHANGED entry
        \/ /\ entry[i] = "absent"
           /\ entry' = [entry EXCEPT ![i] = "partial"]
           /\ Goto(t, "populating")
        \/ /\ Fail(t, "storage_failure")
           /\ UNCHANGED entry
    /\ UNCHANGED <<mapping, quarantine, issued, lease, reply>>

\* The clone and the checkout end; a failure removes what it can.
Populate(t) ==
    /\ AtStep(t, "populating")
    /\ LET i == call[t].handle.id IN
        \/ /\ entry[i] = "partial"
           /\ entry' = [entry EXCEPT ![i] = "whole"]
           /\ Goto(t, "validating")
        \/ /\ \E cause \in Fault : Fail(t, cause)
           /\ \/ UNCHANGED entry
              \/ /\ entry[i] \in Directory
                 /\ entry' = [entry EXCEPT ![i] = "absent"]
    /\ UNCHANGED <<mapping, quarantine, issued, lease, reply>>

\* Links, configuration digest, HEAD and remotes; the record is published last.
ValidateNew(t) ==
    /\ AtStep(t, "validating")
    /\ LET handle == call[t].handle IN
        \E verdict \in Verdicts(entry[handle.id]) :
            \/ /\ verdict = "ok"
               /\ Publish(handle)
               /\ Answer(t, "prepare", handle, "ok", entry[handle.id])
            \/ /\ verdict # "ok"
               /\ Fail(t, verdict)
               /\ UNCHANGED <<mapping, reply>>
    /\ UNCHANGED <<files, issued, lease>>

\* _discard_unpublished is best effort: an OSError is swallowed.
Discard(t) ==
    /\ AtStep(t, "discarding")
    /\ LET handle == call[t].handle IN
        /\ \/ entry' = [entry EXCEPT ![handle.id] = "absent"]
           \/ UNCHANGED entry
        /\ Answer(t, "prepare", handle, call[t].cause, None)
    /\ UNCHANGED <<mapping, quarantine, issued, lease>>

-----------------------------------------------------------------------------
(* load and snapshot. *)

Load(t) ==
    /\ MayCall(t)
    /\ \E i \in Ids, r \in Runs :
        \/ /\ records[i] = None
           /\ Answer(t, "load", [id |-> i, run |-> r], "none", None)
        \/ /\ records[i] = r
           /\ \E verdict \in Verdicts(entry[i]) :
                Answer(t, "load", [id |-> i, run |-> r], verdict, entry[i])
    /\ UNCHANGED <<mapping, files, issued, lease>>

CallSnapshot(t) ==
    /\ MayCall(t)
    /\ \E handle \in Handle :
        \/ /\ RecordFault(handle) # "ok"
           /\ Answer(t, "snapshot", handle, RecordFault(handle), None)
        \/ /\ RecordFault(handle) = "ok"
           /\ \E verdict \in Verdicts(entry[handle.id]) :
                \/ /\ verdict = "ok"
                   /\ Begin(t, "staging", handle)
                \/ /\ verdict # "ok"
                   /\ Answer(t, "snapshot", handle, verdict, None)
    /\ UNCHANGED <<mapping, files, issued, lease>>

\* snapshot_candidate: stage the tree into a temporary index and write it.
StageTree(t) ==
    /\ AtStep(t, "staging")
    /\ LET handle == call[t].handle IN
        \/ /\ entry[handle.id] \in Directory
           /\ call' = [call EXCEPT ![t].at = "rechecking", ![t].tree = entry[handle.id]]
           /\ UNCHANGED reply
        \/ /\ \E cause \in Fault : Answer(t, "snapshot", handle, cause, None)
    /\ UNCHANGED <<mapping, files, issued, lease>>

\* The complete validation once more, before the candidate is bound.
Recheck(t) ==
    /\ AtStep(t, "rechecking")
    /\ LET handle == call[t].handle IN
        \E verdict \in Verdicts(entry[handle.id]) :
            Answer(t, "snapshot", handle, verdict,
                   IF verdict = "ok" THEN call[t].tree ELSE None)
    /\ UNCHANGED <<mapping, files, issued, lease>>

-----------------------------------------------------------------------------
(* release: rename into the quarantine, delete there, forget the record. *)

CallRelease_QuarantineIsFailure(t, handle) ==
    /\ MayCall(t)
    /\ records[handle.id] = handle.run
    /\ \/ /\ quarantine[handle.id] = "absent" /\ entry[handle.id] # "absent"
          /\ Begin(t, "detaching", handle)
       \/ /\ quarantine[handle.id] # "absent"
          /\ Answer(t, "release", handle, "storage_failure", None)
    /\ UNCHANGED <<mapping, files, issued, lease>>

CallRelease(t, handle) ==
    /\ MayCall(t)
    /\ LET i == handle.id IN
        \/ /\ records[i] = None
           /\ Answer(t, "release", handle, "ok", None)
           /\ UNCHANGED mapping
        \/ /\ records[i] \notin {None, handle.run}
           /\ Answer(t, "release", handle, "conflict", None)
           /\ UNCHANGED mapping
        \/ /\ records[i] = handle.run
           /\ \/ /\ entry[i] = "absent" /\ quarantine[i] = "absent"
                 /\ Forget(handle)
                 /\ Answer(t, "release", handle, "ok", None)
              \/ /\ entry[i] = "absent" /\ quarantine[i] # "absent"
                 /\ Begin(t, "recovering", handle)
                 /\ UNCHANGED mapping
              \/ /\ entry[i] # "absent" /\ quarantine[i] # "absent"
                 /\ Answer(t, "release", handle, "storage_failure", None)
                 /\ UNCHANGED mapping
              \/ /\ entry[i] # "absent" /\ quarantine[i] = "absent"
                 /\ Begin(t, "detaching", handle)
                 /\ UNCHANGED mapping
    /\ UNCHANGED <<files, issued, lease>>

\* A deletion that fails may have removed a part of a directory.
Remains(shape) == {shape} \cup IF shape \in Directory THEN {"cut", "altered"} ELSE {}

DetachWorks(t) ==
    /\ AtStep(t, "detaching")
    /\ LET i == call[t].handle.id IN
        /\ entry[i] # "absent"
        /\ quarantine' = [quarantine EXCEPT ![i] = entry[i]]
        /\ entry' = [entry EXCEPT ![i] = "absent"]
    /\ Goto(t, "deleting")
    /\ UNCHANGED <<mapping, issued, lease, reply>>

DetachFails(t) ==
    /\ AtStep(t, "detaching")
    /\ Goto(t, "restoring")
    /\ UNCHANGED <<mapping, files, issued, lease, reply>>

\* A symlink or a file found in the quarantine is unlinked, and reported.
DeleteWorks(t) ==
    /\ AtStep(t, "deleting")
    /\ LET handle == call[t].handle IN
        /\ quarantine' = [quarantine EXCEPT ![handle.id] = "absent"]
        /\ Forget(handle)
        /\ Answer(t, "release", handle,
                  IF quarantine[handle.id] \in Directory THEN "ok"
                  ELSE "isolation_failure", None)
    /\ UNCHANGED <<entry, issued, lease>>

DeleteFails_Forgets(t) ==
    /\ AtStep(t, "deleting")
    /\ \E left \in Remains(quarantine[call[t].handle.id]) :
        quarantine' = [quarantine EXCEPT ![call[t].handle.id] = left]
    /\ Forget(call[t].handle)
    /\ Goto(t, "restoring")
    /\ UNCHANGED <<entry, issued, lease, reply>>

DeleteFails(t) ==
    /\ AtStep(t, "deleting")
    /\ \E left \in Remains(quarantine[call[t].handle.id]) :
        quarantine' = [quarantine EXCEPT ![call[t].handle.id] = left]
    /\ Goto(t, "restoring")
    /\ UNCHANGED <<mapping, entry, issued, lease, reply>>

\* The rollback renames back if it can; the record is kept either way.
Restore(t) ==
    /\ AtStep(t, "restoring")
    /\ LET i == call[t].handle.id IN
        \/ /\ quarantine[i] # "absent" /\ entry[i] = "absent"
           /\ entry' = [entry EXCEPT ![i] = quarantine[i]]
           /\ quarantine' = [quarantine EXCEPT ![i] = "absent"]
        \/ UNCHANGED files
    /\ Answer(t, "release", call[t].handle, "storage_failure", None)
    /\ UNCHANGED <<mapping, issued, lease>>

RecoverWorks(t) ==
    /\ AtStep(t, "recovering")
    /\ quarantine' = [quarantine EXCEPT ![call[t].handle.id] = "absent"]
    /\ Forget(call[t].handle)
    /\ Answer(t, "release", call[t].handle, "ok", None)
    /\ UNCHANGED <<entry, issued, lease>>

RecoverFails(t) ==
    /\ AtStep(t, "recovering")
    /\ \E left \in Remains(quarantine[call[t].handle.id]) :
        quarantine' = [quarantine EXCEPT ![call[t].handle.id] = left]
    /\ Answer(t, "release", call[t].handle, "storage_failure", None)
    /\ UNCHANGED <<mapping, entry, issued, lease>>

-----------------------------------------------------------------------------
(* execution_lease: the lock is held while the caller uses the path.  The  *)
(* bound: a thread does not nest leases.                                   *)

EnterLease(t, handle) ==
    /\ MayCall(t)
    /\ lease[t] = None
    /\ \/ /\ RecordFault(handle) # "ok"
          /\ Answer(t, "lease", handle, RecordFault(handle), None)
          /\ UNCHANGED lease
       \/ /\ RecordFault(handle) = "ok"
          /\ \E verdict \in Verdicts(entry[handle.id]) :
               /\ lease' = IF verdict = "ok" THEN [lease EXCEPT ![t] = handle] ELSE lease
               /\ Answer(t, "lease", handle, verdict, None)
    /\ UNCHANGED <<mapping, files, issued>>

\* The finally clause validates the record it captured, even one that the
\* thread itself has released meanwhile.
ExitLease(t) ==
    /\ call[t] = Idle
    /\ lease[t] # None
    /\ \E verdict \in Verdicts(entry[lease[t].id]) :
        Answer(t, "lease", lease[t], verdict, entry[lease[t].id])
    /\ lease' = [lease EXCEPT ![t] = None]
    /\ UNCHANGED <<mapping, files, issued>>

-----------------------------------------------------------------------------
(* What happens around the adapter. *)

\* The candidate's command runs in the leased workspace: it may break or mend
\* what the validation looks at.
Work(t) ==
    /\ "work" \in Environment
    /\ lease[t] # None /\ call[t] = Idle
    /\ entry[lease[t].id] \in {"whole", "cut", "altered"}
    /\ \E shape \in {"whole", "altered"} :
        entry' = [entry EXCEPT ![lease[t].id] = shape]
    /\ UNCHANGED <<mapping, quarantine, issued, call, lease, reply>>

\* A process of the same user replaces, alters or removes what is there.
Tamper(i) ==
    /\ "tamper" \in Environment
    /\ entry[i] \notin {"absent", "foreign"}
    /\ \E shape \in {"altered", "symlink", "file", "absent"} :
        entry' = [entry EXCEPT ![i] = shape]
    /\ UNCHANGED <<mapping, quarantine, issued, call, lease, reply>>

\* Somebody else creates a directory under a name the adapter does not use.
Intrude(i) ==
    /\ "intrude" \in Environment
    /\ entry[i] = "absent" /\ records[i] = None
    /\ entry' = [entry EXCEPT ![i] = "foreign"]
    /\ UNCHANGED <<mapping, quarantine, issued, call, lease, reply>>

\* The process dies; a new adapter starts with an empty mapping.
Crash ==
    /\ "crash" \in Environment
    /\ records' = [i \in Ids |-> None]
    /\ runIndex' = [r \in Runs |-> None]
    /\ call' = [t \in Threads |-> Idle]
    /\ lease' = [t \in Threads |-> None]
    /\ reply' = [t \in Threads |-> NoReply]
    /\ UNCHANGED <<files, issued>>

-----------------------------------------------------------------------------
Prepare(t) == CallPrepare(t) \/ Clone(t) \/ Populate(t) \/ ValidateNew(t) \/ Discard(t)
Snapshot(t) == CallSnapshot(t) \/ StageTree(t) \/ Recheck(t)
Deletion(t) ==
    \/ DetachWorks(t) \/ DetachFails(t) \/ DeleteWorks(t) \/ DeleteFails(t)
    \/ Restore(t) \/ RecoverWorks(t) \/ RecoverFails(t)
Release(t) == (\E handle \in Handle : CallRelease(t, handle)) \/ Deletion(t)
Lease(t) == (\E handle \in Handle : EnterLease(t, handle)) \/ ExitLease(t) \/ Work(t)

Next ==
    \/ \E t \in Threads : Prepare(t) \/ Load(t) \/ Snapshot(t) \/ Release(t) \/ Lease(t)
    \/ \E i \in Ids : Tamper(i) \/ Intrude(i)
    \/ Crash

Spec == Init /\ [][Next]_vars

(***************************************************************************)
(* Fairness.  An operation that has started runs on, and a lease ends: the *)
(* code between two of their steps is a bounded computation.  The caller   *)
(* keeps releasing a workspace that is still recorded, and the file system *)
(* does not fail for ever: that is what "a later release retries" means.   *)
(***************************************************************************)
Running(t) ==
    \/ Clone(t) \/ Populate(t) \/ ValidateNew(t) \/ Discard(t)
    \/ StageTree(t) \/ Recheck(t)
    \/ Deletion(t)

\* One of the operation's deletion steps on workspace i, done by any thread.
On(i, A(_)) == \E t \in Threads : call[t] # Idle /\ call[t].handle.id = i /\ A(t)

Fairness ==
    /\ \A t \in Threads : WF_vars(Running(t)) /\ WF_vars(ExitLease(t))
    /\ \A i \in Ids :
        /\ SF_vars(On(i, DetachWorks))
        /\ SF_vars(On(i, DeleteWorks))
        /\ SF_vars(On(i, RecoverWorks))
    /\ \A handle \in Handle :
        SF_vars(records[handle.id] = handle.run /\ \E t \in Threads : CallRelease(t, handle))

FairSpec == Spec /\ Fairness

-----------------------------------------------------------------------------
(* Properties. *)

\* The two maps of the adapter stay inverses of each other, so that a run has
\* at most one workspace and a released run can be prepared again (prepare
\* refuses a run that is in _run_index, release only looks into _records).
IndexInverse ==
    \A i \in Ids, r \in Runs : records[i] = r <=> runIndex[r] = i

\* A record is dropped only when nothing of the workspace is left on disk,
\* under its own name or in the quarantine: whatever fails in the middle of a
\* release, the capability still leads to the files (release, _forget).
Dropped(i) == records[i] # None /\ records'[i] = None
ForgottenIsGone ==
    [][\A i \in Ids :
        Dropped(i) /\ ~Crash => entry'[i] = "absent" /\ quarantine'[i] = "absent"]_vars

\* A candidate identity is only handed out for a tree that passes the
\* validation at the moment it is staged, although the command of another
\* thread may write to the workspace (snapshot under the lock of the lease).
SnapshotSound ==
    \A t \in Threads :
        reply[t] # NoReply /\ reply[t].op = "snapshot" /\ reply[t].result = "ok"
            => Validates(reply[t].tree)

\* While a thread uses a leased workspace, nobody else takes the capability
\* or the directory away from it (execution_lease holds the lock): only a
\* release of its own does.
LeaseProtects ==
    [][\A t \in Threads :
        (/\ lease[t] # None /\ lease'[t] = lease[t]
         /\ call[t] = Idle /\ call'[t] = Idle
         /\ ~\E handle \in Handle : CallRelease(t, handle))
            => UNCHANGED <<mapping, quarantine>>]_vars

\* A recorded workspace can be detached: its quarantine name is never taken
\* while the directory is in place, so no release is refused for ever
\* (prepare looks at the destination and not at the quarantine).
ReleaseNeverBlocked ==
    \A i \in Ids : records[i] # None => "absent" \in {entry[i], quarantine[i]}

\* A preparation, and the discarding of one that failed, never touches the
\* directory of a published workspace, even if the generator repeats an
\* identifier (prepare checks records and path before it clones).
PreparationSparesPublished ==
    [][\A i \in Ids :
        records[i] # None /\ (\E t \in Threads : Prepare(t)) => entry'[i] = entry[i]]_vars

\* What others put into the workspace root is left alone (a failed
\* preparation removes only the child it created).
ForeignUntouched == [][\A i \in Ids : entry[i] = "foreign" => entry'[i] = "foreign"]_vars

\* A workspace whose owner keeps releasing it is reclaimed in the end, also
\* when deletions and roll-backs fail on the way.
ReleaseReclaims == \A i \in Ids : records[i] # None ~> records[i] = None

\* The answers as the port knows them, without what the adapter looked at.
Answers ==
    [t \in Threads |->
        IF reply[t] = NoReply THEN NoReply
        ELSE [op |-> reply[t].op, handle |-> reply[t].handle, result |-> reply[t].result]]

Port == INSTANCE WorkspacePort WITH owner <- records, answer <- Answers

\* The adapter implements the port: a run never has two workspaces, every answer
\* of every thread is true when it is given, and what a dead process left behind
\* (a clone that was never published, a quarantine) never refuses a preparation.
ImplementsPort == Port!Spec
=============================================================================
