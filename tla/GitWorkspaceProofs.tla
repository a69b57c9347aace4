------------------------- MODULE GitWorkspaceProofs -------------------------
(***************************************************************************)
(* Proofs about GitWorkspace for any number of threads, runs and           *)
(* identifiers and in every environment.  The inductive invariant says     *)
(* that at most one thread is inside the lock, and what that thread knows  *)
(* of the mapping and of the files at each step of its operation.          *)
(***************************************************************************)
EXTENDS GitWorkspace, TLAPS

-----------------------------------------------------------------------------
(* The inductive invariant. *)

Inside(t, steps) == call[t] # Idle /\ call[t].at \in steps

Preparing == {"cloning", "populating", "validating", "discarding"}
Snapshotting == {"staging", "rechecking"}
Releasing == {"detaching", "deleting", "restoring", "recovering"}

\* The lock: at most one thread is inside it.
Exclusive == \A t, u \in Threads : InsideLock(t) /\ InsideLock(u) => t = u

\* A recorded workspace was issued, and nobody else's directory is in its place.
Recorded ==
    \A i \in Ids : records[i] # None => i \in issued /\ entry[i] # "foreign"

\* If no identifier is repeated, one that was not issued has nothing in the
\* quarantine, and only an intruder's directory in its place.
FreshIsClean ==
    ~Reissues => \A i \in Ids \ issued :
        /\ quarantine[i] = "absent"
        /\ "intrude" \notin Environment => entry[i] = "absent"
NeverBlocked == ~Reissues => ReleaseNeverBlocked

\* What a preparation knows: the identifier and the run are not in use.
Prepares(t) ==
    Inside(t, Preparing) =>
        /\ records[call[t].handle.id] = None
        /\ runIndex[call[t].handle.run] = None
        /\ call[t].handle.id \in issued
        /\ ~Reissues => quarantine[call[t].handle.id] = "absent"
        /\ call[t].at = "discarding" => call[t].cause \in Fault

\* What the other operations know: the handle is the recorded one; a snapshot
\* has staged a tree that validates, or will be refused; what is deleted is no
\* longer in its place.
Uses(t) ==
    /\ Inside(t, Snapshotting \cup Releasing) =>
            records[call[t].handle.id] = call[t].handle.run
    /\ Inside(t, {"rechecking"}) =>
            Validates(call[t].tree) \/ ~Validates(entry[call[t].handle.id])
    /\ Inside(t, {"deleting", "recovering"}) => entry[call[t].handle.id] = "absent"

\* What a lease knows if no identifier is repeated: the workspace is still the
\* recorded one, or its own thread has released it and the directory is gone.
Leases(t) ==
    lease[t] # None =>
        /\ lease[t].id \in issued
        /\ ~Reissues =>
            /\ Inside(t, Preparing) => call[t].handle.id # lease[t].id
            /\ \/ records[lease[t].id] = lease[t].run
               \/ /\ records[lease[t].id] = None
                  /\ entry[lease[t].id] \in {"absent", "foreign"}

Mapped == IndexInverse /\ Recorded /\ FreshIsClean /\ NeverBlocked
Knows == \A t \in Threads : Prepares(t) /\ Uses(t) /\ Leases(t)

WorkspaceInv == TypeOK /\ Exclusive /\ Mapped /\ Knows /\ SnapshotSound

-----------------------------------------------------------------------------
(* What the small actions on calls and replies do. *)

CallType ==
    [at : Step, handle : Handle, cause : Fault \cup {None}, tree : Shape \cup {None}]
ReplyType ==
    [op : {"prepare", "load", "snapshot", "release", "lease"}, handle : Handle,
     result : Result, tree : Shape \cup {None}]

\* The calls and replies of the other threads are left alone, and all have their
\* types.
OnlyCallOf(t) ==
    /\ call' \in [Threads -> {Idle} \cup CallType]
    /\ \A u \in Threads \ {t} : call'[u] = call[u]
OnlyReplyOf(t) ==
    /\ reply' \in [Threads -> {NoReply} \cup ReplyType]
    /\ \A u \in Threads \ {t} : reply'[u] = reply[u]

\* A call that is not idle has all its parts.
LEMMA CallHasParts ==
    ASSUME TypeOK, NEW t \in Threads, call[t] # Idle
    PROVE  /\ call[t] \in CallType
           /\ call[t].handle \in Handle
           /\ call[t].handle.id \in Ids /\ call[t].handle.run \in Runs
BY DEF TypeOK, CallType, Handle

\* No call and no reply with its parts is the empty one.
LEMMA NotEmpty ==
    /\ \A c \in CallType : c # Idle
    /\ \A r \in ReplyType : r # NoReply
<1>1. \A c \in CallType : c # Idle
  BY DEF CallType, Idle, Step
<1>2. \A r \in ReplyType : r # NoReply
  BY DEF ReplyType, NoReply
<1> QED
  BY <1>1, <1>2

\* Begin starts a call of the thread at a step, and takes its reply back.
LEMMA BeginEffect ==
    ASSUME TypeOK, NEW t \in Threads, NEW at \in Step, NEW handle \in Handle,
           Begin(t, at, handle)
    PROVE  /\ OnlyCallOf(t) /\ OnlyReplyOf(t)
           /\ call'[t] # Idle /\ call'[t].at = at /\ call'[t].handle = handle
           /\ reply'[t] = NoReply
<1>1. CallAt(at, handle) \in CallType
  BY DEF CallAt, CallType
<1>2. OnlyCallOf(t) /\ call'[t] = CallAt(at, handle)
  BY <1>1 DEF TypeOK, Begin, OnlyCallOf, CallType
<1>3. OnlyReplyOf(t) /\ reply'[t] = NoReply
  BY DEF TypeOK, Begin, OnlyReplyOf, ReplyType
<1> QED
  BY <1>1, <1>2, <1>3, NotEmpty DEF CallAt

\* Answer ends the call with a reply.
LEMMA AnswerEffect ==
    ASSUME TypeOK, NEW t \in Threads, NEW op, NEW handle \in Handle, NEW result, NEW tree,
           op \in {"prepare", "load", "snapshot", "release", "lease"},
           result \in Result, tree \in Shape \cup {None},
           Answer(t, op, handle, result, tree)
    PROVE  /\ OnlyCallOf(t) /\ OnlyReplyOf(t)
           /\ call'[t] = Idle
           /\ reply'[t] # NoReply /\ reply'[t] = Reply(op, handle, result, tree)
<1>1. Reply(op, handle, result, tree) \in ReplyType
  BY DEF Reply, ReplyType
<1>2. OnlyReplyOf(t) /\ reply'[t] = Reply(op, handle, result, tree)
  BY <1>1 DEF TypeOK, Answer, OnlyReplyOf, ReplyType
<1>3. OnlyCallOf(t) /\ call'[t] = Idle
  BY DEF TypeOK, Answer, OnlyCallOf, CallType
<1> QED
  BY <1>1, <1>2, <1>3, NotEmpty

\* Goto moves the call to another step.
LEMMA GotoEffect ==
    ASSUME TypeOK, NEW t \in Threads, call[t] # Idle, NEW at \in Step, Goto(t, at)
    PROVE  /\ OnlyCallOf(t)
           /\ call'[t] # Idle /\ call'[t].at = at
           /\ call'[t].handle = call[t].handle
<1>1. call[t] \in CallType
  BY CallHasParts
<1>2. call'[t] = [call[t] EXCEPT !.at = at]
  BY DEF TypeOK, Goto
<1>3. call'[t] \in CallType /\ call'[t].at = at /\ call'[t].handle = call[t].handle
  BY <1>1, <1>2 DEF CallType
<1>4. OnlyCallOf(t)
  BY <1>3 DEF TypeOK, Goto, OnlyCallOf, CallType
<1> QED
  BY <1>3, <1>4, NotEmpty

\* Fail moves a preparation to its clean-up, with the cause it will report.
LEMMA FailEffect ==
    ASSUME TypeOK, NEW t \in Threads, call[t] # Idle, NEW cause \in Fault, Fail(t, cause)
    PROVE  /\ OnlyCallOf(t)
           /\ call'[t] # Idle /\ call'[t].at = "discarding" /\ call'[t].cause = cause
           /\ call'[t].handle = call[t].handle
<1>1. call[t] \in CallType
  BY CallHasParts
<1>2. call'[t] = [call[t] EXCEPT !.at = "discarding", !.cause = cause]
  BY DEF TypeOK, Fail
<1>3. /\ call'[t] \in CallType /\ call'[t].at = "discarding" /\ call'[t].cause = cause
      /\ call'[t].handle = call[t].handle
  BY <1>1, <1>2 DEF CallType, Step
<1>4. OnlyCallOf(t)
  BY <1>3 DEF TypeOK, Fail, OnlyCallOf, CallType
<1> QED
  BY <1>3, <1>4, NotEmpty

-----------------------------------------------------------------------------
(* A step of a thread inside the lock. *)

\* No other thread is inside the lock.
Alone(t) == \A u \in Threads \ {t} : call[u] = Idle /\ lease[u] = None

\* What a reply of a snapshot promises.
Faithful(t) ==
    reply[t] # NoReply /\ reply[t].op = "snapshot" /\ reply[t].result = "ok"
        => Validates(reply[t].tree)

\* Whoever may call, is at a step or has a lease is alone inside the lock.
LEMMA LockIsExclusive ==
    ASSUME Exclusive, NEW t \in Threads, MayCall(t) \/ call[t] # Idle \/ lease[t] # None
    PROVE  Alone(t)
BY DEF Exclusive, MayCall, LockFree, InsideLock, Alone

\* What is left to show of a step of a thread that is alone: the types of what it
\* changes, the mapping, and what the thread itself knows afterwards.
LEMMA AloneStep ==
    ASSUME WorkspaceInv, NEW t \in Threads, Alone(t),
           OnlyCallOf(t), OnlyReplyOf(t),
           lease' \in [Threads -> Handle \cup {None}],
           \A u \in Threads \ {t} : lease'[u] = lease[u],
           TypeOK', Mapped', Prepares(t)', Uses(t)', Leases(t)', Faithful(t)'
    PROVE  WorkspaceInv'
<1>1. \A u \in Threads \ {t} : call'[u] = Idle /\ lease'[u] = None
  BY DEF Alone, OnlyCallOf
<1>2. Exclusive'
  BY <1>1 DEF Exclusive, InsideLock
<1>3. Knows'
  BY <1>1 DEF Knows, Prepares, Uses, Leases, Inside
<1>4. SnapshotSound'
  BY DEF WorkspaceInv, SnapshotSound, Faithful, OnlyReplyOf
<1> QED
  BY <1>2, <1>3, <1>4 DEF WorkspaceInv

\* A step that changes neither the mapping nor the files nor the lease.
LEMMA PlainStep ==
    ASSUME WorkspaceInv, NEW t \in Threads, Alone(t),
           OnlyCallOf(t), OnlyReplyOf(t), UNCHANGED <<mapping, files, lease>>,
           issued \subseteq issued', issued' \subseteq Ids,
           Prepares(t)', Uses(t)', Leases(t)', Faithful(t)'
    PROVE  WorkspaceInv'
<1>1. TypeOK'
  BY DEF WorkspaceInv, TypeOK, OnlyCallOf, OnlyReplyOf, CallType, ReplyType, mapping, files
<1>2. Mapped'
  BY DEF WorkspaceInv, Mapped, IndexInverse, Recorded, FreshIsClean, NeverBlocked,
         ReleaseNeverBlocked, mapping, files
<1> QED
  BY <1>1, <1>2, AloneStep DEF WorkspaceInv, TypeOK

\* An operation that changes nothing and gives its answer.
LEMMA PlainAnswer ==
    ASSUME WorkspaceInv, NEW t \in Threads, Alone(t),
           NEW op \in {"prepare", "load", "snapshot", "release", "lease"},
           NEW handle \in Handle, NEW result \in Result, NEW tree \in Shape \cup {None},
           Answer(t, op, handle, result, tree),
           op = "snapshot" /\ result = "ok" => Validates(tree),
           UNCHANGED <<mapping, files, lease>>,
           issued \subseteq issued', issued' \subseteq Ids
    PROVE  WorkspaceInv'
<1>1. /\ OnlyCallOf(t) /\ OnlyReplyOf(t) /\ call'[t] = Idle
      /\ reply'[t] = Reply(op, handle, result, tree)
  BY AnswerEffect DEF WorkspaceInv
<1>2. Prepares(t)' /\ Uses(t)'
  BY <1>1 DEF Prepares, Uses, Inside
<1>3. Leases(t)'
  BY <1>1 DEF WorkspaceInv, Knows, Leases, Inside, mapping, files
<1>4. Faithful(t)'
  BY <1>1 DEF Faithful, Reply
<1> QED
  BY <1>1, <1>2, <1>3, <1>4, PlainStep

\* An operation that takes up its work.
LEMMA PlainBegin ==
    ASSUME WorkspaceInv, NEW t \in Threads, Alone(t),
           NEW at \in Step, NEW handle \in Handle, Begin(t, at, handle),
           UNCHANGED <<mapping, files, lease>>,
           issued \subseteq issued', issued' \subseteq Ids,
           Prepares(t)', Uses(t)', Leases(t)'
    PROVE  WorkspaceInv'
<1>1. OnlyCallOf(t) /\ OnlyReplyOf(t) /\ reply'[t] = NoReply
  BY BeginEffect DEF WorkspaceInv
<1>2. Faithful(t)'
  BY <1>1 DEF Faithful
<1> QED
  BY <1>1, <1>2, PlainStep

-----------------------------------------------------------------------------
(* prepare. *)

\* The call finds the run or the identifier taken, or starts a preparation that
\* nothing stands in the way of.
LEMMA CallPrepareStep ==
    ASSUME WorkspaceInv, NEW t \in Threads, CallPrepare(t)
    PROVE  WorkspaceInv'
<1>1. Alone(t)
  BY LockIsExclusive DEF WorkspaceInv, CallPrepare
<1>2. PICK r \in Runs, i \in NewIds :
        LET handle == [id |-> i, run |-> r] IN
        \/ /\ runIndex[r] # None
           /\ Answer(t, "prepare", handle, "already_exists", None)
           /\ UNCHANGED <<mapping, files, issued, lease>>
        \/ /\ runIndex[r] = None
           /\ issued' = issued \cup {i}
           /\ \/ /\ records[i] # None \/ entry[i] # "absent"
                 /\ Answer(t, "prepare", handle, "already_exists", None)
              \/ /\ records[i] = None /\ entry[i] = "absent"
                 /\ Begin(t, "cloning", handle)
           /\ UNCHANGED <<mapping, files, lease>>
  BY DEF CallPrepare
<1> DEFINE handle == [id |-> i, run |-> r]
<1>3. i \in Ids /\ handle \in Handle /\ handle.id = i /\ handle.run = r
  BY DEF NewIds, Handle
<1>4. /\ issued \subseteq issued' /\ issued' \subseteq Ids
      /\ UNCHANGED <<mapping, files, lease>>
  BY <1>2, <1>3 DEF WorkspaceInv, TypeOK
<1>5. CASE Answer(t, "prepare", handle, "already_exists", None)
  BY <1>1, <1>3, <1>4, <1>5, PlainAnswer DEF Result
<1>6. CASE /\ runIndex[r] = None /\ records[i] = None /\ issued' = issued \cup {i}
           /\ Begin(t, "cloning", handle)
  <2>1. call'[t] # Idle /\ call'[t].at = "cloning" /\ call'[t].handle = handle
    BY <1>3, <1>6, BeginEffect DEF WorkspaceInv, Step
  <2>2. ~Reissues => i \notin issued
    BY DEF NewIds
  <2>3. Prepares(t)'
    BY <1>3, <1>4, <1>6, <2>1, <2>2
       DEF WorkspaceInv, Mapped, FreshIsClean, Prepares, Inside, mapping, files
  <2>4. Uses(t)'
    BY <2>1 DEF Uses, Inside, Snapshotting, Releasing
  <2>5. Leases(t)'
    BY <1>3, <1>4, <2>1, <2>2 DEF WorkspaceInv, Knows, Leases, mapping, files
  <2> QED
    BY <1>1, <1>3, <1>4, <1>6, <2>3, <2>4, <2>5, PlainBegin DEF Step
<1> QED
  BY <1>2, <1>5, <1>6

\* The entry of a workspace in preparation is nobody's: whatever happens to it
\* leaves the mapping and the leased workspace as they were.
LEMMA PreparationOwnsEntry ==
    ASSUME WorkspaceInv, NEW t \in Threads, Inside(t, Preparing),
           entry' \in [Ids -> Shape],
           \A j \in Ids \ {call[t].handle.id} : entry'[j] = entry[j],
           UNCHANGED <<mapping, quarantine, issued, lease>>
    PROVE  /\ Mapped'
           /\ lease[t] # None /\ ~Reissues => entry'[lease[t].id] = entry[lease[t].id]
<1>1. /\ call[t].handle.id \in Ids
      /\ records[call[t].handle.id] = None /\ call[t].handle.id \in issued
  BY CallHasParts DEF WorkspaceInv, Knows, Prepares, Inside
<1>2. Mapped'
  BY <1>1 DEF WorkspaceInv, Mapped, IndexInverse, Recorded, FreshIsClean, NeverBlocked,
              ReleaseNeverBlocked, mapping
<1>3. ASSUME lease[t] # None, ~Reissues PROVE entry'[lease[t].id] = entry[lease[t].id]
  BY <1>3 DEF WorkspaceInv, TypeOK, Handle, Knows, Leases
<1> QED
  BY <1>2, <1>3

\* A step of a preparation that stays inside it, or hands over to its clean-up.
LEMMA PreparationGoesOn ==
    ASSUME WorkspaceInv, NEW t \in Threads, Inside(t, Preparing),
           OnlyCallOf(t), Inside(t, Preparing)', call'[t].handle = call[t].handle,
           call'[t].at = "discarding" => call'[t].cause \in Fault,
           entry' \in [Ids -> Shape],
           \A j \in Ids \ {call[t].handle.id} : entry'[j] = entry[j],
           UNCHANGED <<mapping, quarantine, issued, lease, reply>>
    PROVE  WorkspaceInv'
<1>1. Alone(t)
  BY LockIsExclusive DEF WorkspaceInv, Inside
<1>2. /\ Mapped'
      /\ lease[t] # None /\ ~Reissues => entry'[lease[t].id] = entry[lease[t].id]
  BY PreparationOwnsEntry
<1>3. TypeOK' /\ OnlyReplyOf(t)
  BY DEF WorkspaceInv, TypeOK, OnlyCallOf, OnlyReplyOf, CallType, ReplyType, mapping
<1>4. Prepares(t)'
  BY DEF WorkspaceInv, Knows, Prepares, mapping
<1>5. Uses(t)'
  BY DEF Uses, Inside, Preparing, Snapshotting, Releasing
<1>6. Leases(t)'
  BY <1>2 DEF WorkspaceInv, Knows, Leases, mapping
<1>7. Faithful(t)'
  BY DEF WorkspaceInv, SnapshotSound, Faithful
<1> QED
  BY <1>1, <1>2, <1>3, <1>4, <1>5, <1>6, <1>7, AloneStep DEF WorkspaceInv, TypeOK

\* The clone starts, or finds the destination taken, or fails.
LEMMA CloneStep == ASSUME WorkspaceInv, NEW t \in Threads, Clone(t) PROVE WorkspaceInv'
<1>1. call[t] # Idle /\ call[t].at = "cloning" /\ Inside(t, Preparing)
  BY DEF Clone, AtStep, Inside, Preparing
<1>2. call[t].handle.id \in Ids
  BY <1>1, CallHasParts DEF WorkspaceInv
<1>3. /\ entry' \in [Ids -> Shape]
      /\ \A j \in Ids \ {call[t].handle.id} : entry'[j] = entry[j]
  BY <1>2 DEF Clone, WorkspaceInv, TypeOK, Shape, Directory
<1>4. /\ OnlyCallOf(t) /\ Inside(t, Preparing)' /\ call'[t].handle = call[t].handle
      /\ call'[t].at = "discarding" => call'[t].cause \in Fault
  <2>1. CASE Goto(t, "populating")
    BY <1>1, <2>1, GotoEffect DEF WorkspaceInv, Step, Inside, Preparing
  <2>2. ASSUME NEW cause \in Fault, Fail(t, cause)
        PROVE  /\ OnlyCallOf(t) /\ Inside(t, Preparing)' /\ call'[t].handle = call[t].handle
               /\ call'[t].at = "discarding" => call'[t].cause \in Fault
    BY <1>1, <2>2, FailEffect DEF WorkspaceInv, Inside, Preparing
  <2> QED
    BY <2>1, <2>2 DEF Clone, Fault
<1> QED
  BY <1>1, <1>3, <1>4, PreparationGoesOn DEF Clone

\* The clone and the checkout end.
LEMMA PopulateStep == ASSUME WorkspaceInv, NEW t \in Threads, Populate(t) PROVE WorkspaceInv'
<1>1. call[t] # Idle /\ Inside(t, Preparing)
  BY DEF Populate, AtStep, Inside, Preparing
<1>2. call[t].handle.id \in Ids
  BY <1>1, CallHasParts DEF WorkspaceInv
<1>3. /\ entry' \in [Ids -> Shape]
      /\ \A j \in Ids \ {call[t].handle.id} : entry'[j] = entry[j]
  BY <1>2 DEF Populate, WorkspaceInv, TypeOK, Shape, Directory
<1>4. /\ OnlyCallOf(t) /\ Inside(t, Preparing)' /\ call'[t].handle = call[t].handle
      /\ call'[t].at = "discarding" => call'[t].cause \in Fault
  <2>1. CASE Goto(t, "validating")
    BY <1>1, <2>1, GotoEffect DEF WorkspaceInv, Step, Inside, Preparing
  <2>2. ASSUME NEW cause \in Fault, Fail(t, cause)
        PROVE  /\ OnlyCallOf(t) /\ Inside(t, Preparing)' /\ call'[t].handle = call[t].handle
               /\ call'[t].at = "discarding" => call'[t].cause \in Fault
    BY <1>1, <2>2, FailEffect DEF WorkspaceInv, Inside, Preparing
  <2> QED
    BY <2>1, <2>2 DEF Populate
<1> QED
  BY <1>1, <1>3, <1>4, PreparationGoesOn DEF Populate

\* A preparation that validates is published: neither the identifier nor the run
\* was in use, so the two maps stay inverses.
LEMMA ValidateNewStep ==
    ASSUME WorkspaceInv, NEW t \in Threads, ValidateNew(t)
    PROVE  WorkspaceInv'
<1> DEFINE handle == call[t].handle
<1>1. call[t] # Idle /\ Inside(t, Preparing)
  BY DEF ValidateNew, AtStep, Inside, Preparing
<1>2. handle \in Handle /\ handle.id \in Ids /\ handle.run \in Runs
  BY <1>1, CallHasParts DEF WorkspaceInv
<1>3. Alone(t)
  BY <1>1, LockIsExclusive DEF WorkspaceInv
<1>4. PICK verdict \in Verdicts(entry[handle.id]) :
        \/ /\ verdict = "ok"
           /\ Publish(handle)
           /\ Answer(t, "prepare", handle, "ok", entry[handle.id])
        \/ /\ verdict # "ok"
           /\ Fail(t, verdict)
           /\ UNCHANGED <<mapping, reply>>
  BY DEF ValidateNew
<1>5. CASE verdict # "ok"
  <2>1. verdict \in Fault
    BY <1>4, <1>5 DEF Verdicts, Fault
  <2>2. /\ OnlyCallOf(t) /\ Inside(t, Preparing)' /\ call'[t].handle = call[t].handle
        /\ call'[t].at = "discarding" => call'[t].cause \in Fault
    BY <1>1, <1>4, <1>5, <2>1, FailEffect DEF WorkspaceInv, Inside, Preparing
  <2> QED
    BY <1>1, <1>4, <1>5, <2>2, PreparationGoesOn DEF ValidateNew, files, WorkspaceInv, TypeOK
<1>6. CASE verdict = "ok"
  <2>1. Validates(entry[handle.id]) /\ Publish(handle) /\ UNCHANGED <<files, issued, lease>>
    BY <1>4, <1>6 DEF Verdicts, ValidateNew
  <2>2. /\ OnlyCallOf(t) /\ OnlyReplyOf(t) /\ call'[t] = Idle
        /\ reply'[t] = Reply("prepare", handle, "ok", entry[handle.id])
    BY <1>2, <1>4, <1>6, AnswerEffect DEF WorkspaceInv, TypeOK, Result
  <2>3. /\ records[handle.id] = None /\ runIndex[handle.run] = None
        /\ handle.id \in issued
        /\ ~Reissues => quarantine[handle.id] = "absent"
    BY <1>1 DEF WorkspaceInv, Knows, Prepares
  <2> HIDE DEF handle
  <2>4. TypeOK'
    BY <1>2, <2>1, <2>2
       DEF WorkspaceInv, TypeOK, Publish, OnlyCallOf, OnlyReplyOf, CallType, ReplyType, files
  <2>5. IndexInverse'
    BY <1>2, <2>1, <2>3, WorkspaceAssumption
       DEF WorkspaceInv, TypeOK, Mapped, IndexInverse, Publish
  <2>6. (Recorded /\ FreshIsClean /\ NeverBlocked)'
    BY <1>2, <2>1, <2>3
       DEF WorkspaceInv, TypeOK, Mapped, Recorded, FreshIsClean, NeverBlocked,
           ReleaseNeverBlocked, Publish, files, Validates
  <2>7. (Prepares(t) /\ Uses(t) /\ Faithful(t))'
    BY <2>2 DEF Prepares, Uses, Inside, Faithful, Reply
  <2>8. Leases(t)'
    BY <1>1, <1>2, <2>1, <2>2
       DEF handle, WorkspaceInv, TypeOK, Knows, Leases, Publish, Handle, files, Inside
  <2> QED
    BY <1>3, <2>1, <2>2, <2>4, <2>5, <2>6, <2>7, <2>8, AloneStep
       DEF WorkspaceInv, TypeOK, Mapped
<1> QED
  BY <1>5, <1>6

\* The clean-up of a failed preparation.
LEMMA DiscardStep == ASSUME WorkspaceInv, NEW t \in Threads, Discard(t) PROVE WorkspaceInv'
<1> DEFINE handle == call[t].handle
<1>1. call[t] # Idle /\ call[t].at = "discarding" /\ Inside(t, Preparing)
  BY DEF Discard, AtStep, Inside, Preparing
<1>2. handle \in Handle /\ handle.id \in Ids
  BY <1>1, CallHasParts DEF WorkspaceInv
<1>3. call[t].cause \in Fault
  BY <1>1 DEF WorkspaceInv, Knows, Prepares
<1>4. /\ OnlyCallOf(t) /\ OnlyReplyOf(t) /\ call'[t] = Idle
      /\ reply'[t] = Reply("prepare", handle, call[t].cause, None)
  <2>1. Answer(t, "prepare", handle, call[t].cause, None)
    BY DEF Discard
  <2> QED
    BY <1>2, <1>3, <2>1, AnswerEffect DEF WorkspaceInv, Fault, Result
<1>5. /\ entry' \in [Ids -> Shape] /\ \A j \in Ids \ {handle.id} : entry'[j] = entry[j]
      /\ UNCHANGED <<mapping, quarantine, issued, lease>>
  BY <1>2 DEF Discard, WorkspaceInv, TypeOK, Shape
<1>6. /\ Mapped'
      /\ lease[t] # None /\ ~Reissues => entry'[lease[t].id] = entry[lease[t].id]
  BY <1>1, <1>5, PreparationOwnsEntry
<1>7. TypeOK'
  BY <1>4, <1>5
     DEF WorkspaceInv, TypeOK, OnlyCallOf, OnlyReplyOf, CallType, ReplyType, mapping
<1>8. (Prepares(t) /\ Uses(t) /\ Faithful(t))'
  BY <1>4 DEF Prepares, Uses, Inside, Faithful, Reply
<1>9. Leases(t)'
  BY <1>4, <1>5, <1>6 DEF WorkspaceInv, Knows, Leases, Inside, mapping
<1> QED
  BY <1>1, <1>4, <1>5, <1>6, <1>7, <1>8, <1>9, AloneStep, LockIsExclusive
     DEF WorkspaceInv, TypeOK

-----------------------------------------------------------------------------
(* load and snapshot. *)

\* A load changes nothing.
LEMMA LoadStep == ASSUME WorkspaceInv, NEW t \in Threads, Load(t) PROVE WorkspaceInv'
<1>1. Alone(t)
  BY LockIsExclusive DEF WorkspaceInv, Load
<1>2. PICK i \in Ids, r \in Runs :
        \/ Answer(t, "load", [id |-> i, run |-> r], "none", None)
        \/ \E verdict \in Verdicts(entry[i]) :
                Answer(t, "load", [id |-> i, run |-> r], verdict, entry[i])
  BY DEF Load
<1>3. [id |-> i, run |-> r] \in Handle /\ entry[i] \in Shape /\ Verdicts(entry[i]) \subseteq Result
  BY DEF Handle, WorkspaceInv, TypeOK, Verdicts, Result
<1>4. UNCHANGED <<mapping, files, lease, issued>> /\ issued \subseteq Ids
  BY DEF Load, WorkspaceInv, TypeOK
<1>5. CASE Answer(t, "load", [id |-> i, run |-> r], "none", None)
  BY <1>1, <1>3, <1>4, <1>5, PlainAnswer DEF Result
<1>6. ASSUME NEW verdict \in Verdicts(entry[i]),
             Answer(t, "load", [id |-> i, run |-> r], verdict, entry[i])
      PROVE  WorkspaceInv'
  BY <1>1, <1>3, <1>4, <1>6, PlainAnswer
<1> QED
  BY <1>2, <1>5, <1>6

\* A snapshot starts on the recorded handle only.
LEMMA CallSnapshotStep ==
    ASSUME WorkspaceInv, NEW t \in Threads, CallSnapshot(t)
    PROVE  WorkspaceInv'
<1>1. Alone(t)
  BY LockIsExclusive DEF WorkspaceInv, CallSnapshot
<1>2. PICK handle \in Handle :
        \/ /\ RecordFault(handle) # "ok"
           /\ Answer(t, "snapshot", handle, RecordFault(handle), None)
        \/ /\ RecordFault(handle) = "ok"
           /\ \E verdict \in Verdicts(entry[handle.id]) :
                \/ /\ verdict = "ok"
                   /\ Begin(t, "staging", handle)
                \/ /\ verdict # "ok"
                   /\ Answer(t, "snapshot", handle, verdict, None)
  BY DEF CallSnapshot
<1>3. /\ Verdicts(entry[handle.id]) \subseteq Result /\ RecordFault(handle) \in Result
      /\ RecordFault(handle) = "ok" => records[handle.id] = handle.run
  BY DEF Verdicts, Result, RecordFault
<1>4. UNCHANGED <<mapping, files, lease, issued>> /\ issued \subseteq Ids
  BY DEF CallSnapshot, WorkspaceInv, TypeOK
<1>5. ASSUME NEW result \in Result, result # "ok", Answer(t, "snapshot", handle, result, None)
      PROVE  WorkspaceInv'
  BY <1>1, <1>4, <1>5, PlainAnswer
<1>6. CASE RecordFault(handle) = "ok" /\ Begin(t, "staging", handle)
  <2>1. call'[t] # Idle /\ call'[t].at = "staging" /\ call'[t].handle = handle
    BY <1>6, BeginEffect DEF WorkspaceInv, Step
  <2>2. Prepares(t)' /\ Uses(t)'
    BY <1>3, <1>4, <1>6, <2>1 DEF Prepares, Uses, Inside, Preparing, mapping
  <2>3. Leases(t)'
    BY <1>4, <2>1 DEF WorkspaceInv, Knows, Leases, Inside, Preparing, mapping, files
  <2> QED
    BY <1>1, <1>4, <1>6, <2>2, <2>3, PlainBegin DEF Step
<1> QED
  BY <1>2, <1>3, <1>5, <1>6

\* The tree that is staged is the one in place; an answer is a failure.
LEMMA StageTreeStep == ASSUME WorkspaceInv, NEW t \in Threads, StageTree(t) PROVE WorkspaceInv'
<1> DEFINE handle == call[t].handle
<1>1. call[t] # Idle /\ call[t].at = "staging"
  BY DEF StageTree, AtStep
<1>2. handle \in Handle /\ handle.id \in Ids /\ call[t] \in CallType
  BY <1>1, CallHasParts DEF WorkspaceInv
<1>3. Alone(t)
  BY <1>1, LockIsExclusive DEF WorkspaceInv
<1>4. UNCHANGED <<mapping, files, lease, issued>> /\ issued \subseteq Ids
  BY DEF StageTree, WorkspaceInv, TypeOK
<1>5. ASSUME NEW cause \in Fault, Answer(t, "snapshot", handle, cause, None)
      PROVE  WorkspaceInv'
  BY <1>2, <1>3, <1>4, <1>5, PlainAnswer DEF Fault, Result
<1>6. CASE /\ call' = [call EXCEPT ![t].at = "rechecking", ![t].tree = entry[handle.id]]
           /\ UNCHANGED reply
  <2>1. call'[t] = [call[t] EXCEPT !.at = "rechecking", !.tree = entry[handle.id]]
    BY <1>6 DEF WorkspaceInv, TypeOK
  <2>2. entry[handle.id] \in Shape
    BY <1>2 DEF WorkspaceInv, TypeOK
  <2>3. /\ call'[t] \in CallType /\ call'[t].at = "rechecking"
        /\ call'[t].handle = handle /\ call'[t].tree = entry[handle.id]
    BY <1>2, <2>1, <2>2 DEF CallType, Step
  <2>4. OnlyCallOf(t) /\ OnlyReplyOf(t)
    BY <1>6, <2>3
       DEF WorkspaceInv, TypeOK, OnlyCallOf, OnlyReplyOf, CallType, ReplyType
  <2>5. Prepares(t)' /\ Uses(t)'
    BY <1>1, <1>4, <2>3 DEF WorkspaceInv, Knows, Prepares, Uses, Inside, Preparing,
                            Snapshotting, mapping, files
  <2>6. Leases(t)'
    BY <1>4, <2>3 DEF WorkspaceInv, Knows, Leases, Inside, Preparing, mapping, files
  <2>7. Faithful(t)'
    BY <1>6 DEF WorkspaceInv, SnapshotSound, Faithful
  <2> QED
    BY <1>3, <1>4, <2>4, <2>5, <2>6, <2>7, PlainStep
<1> QED
  BY <1>5, <1>6 DEF StageTree

\* A tree that was staged while it did not validate is refused by the second
\* validation: nobody else can have mended the workspace in between.
LEMMA RecheckStep == ASSUME WorkspaceInv, NEW t \in Threads, Recheck(t) PROVE WorkspaceInv'
<1> DEFINE handle == call[t].handle
<1>1. call[t] # Idle /\ call[t].at = "rechecking"
  BY DEF Recheck, AtStep
<1>2. handle \in Handle /\ handle.id \in Ids /\ call[t].tree \in Shape \cup {None}
  BY <1>1, CallHasParts DEF WorkspaceInv, CallType
<1>3. PICK verdict \in Verdicts(entry[handle.id]) :
        Answer(t, "snapshot", handle, verdict, IF verdict = "ok" THEN call[t].tree ELSE None)
  BY DEF Recheck
<1>4. verdict \in Result /\ (verdict = "ok" => Validates(call[t].tree))
  BY <1>1 DEF Verdicts, Result, WorkspaceInv, Knows, Uses, Inside
<1>5. UNCHANGED <<mapping, files, lease, issued>> /\ issued \subseteq Ids
  BY DEF Recheck, WorkspaceInv, TypeOK
<1>6. Alone(t)
  BY <1>1, LockIsExclusive DEF WorkspaceInv
<1>7. (IF verdict = "ok" THEN call[t].tree ELSE None) \in Shape \cup {None}
  BY <1>2
<1> QED
  BY <1>2, <1>3, <1>4, <1>5, <1>6, <1>7, PlainAnswer

-----------------------------------------------------------------------------
(* release. *)

\* A step of a release that drops nothing: only the files of its handle change,
\* and one of the two names stays free.
LEMMA ReleaseGoesOn ==
    ASSUME WorkspaceInv, NEW t \in Threads, Inside(t, Releasing),
           OnlyCallOf(t), OnlyReplyOf(t), Faithful(t)',
           call'[t] = Idle \/
              (Inside(t, Releasing)' /\ call'[t].handle = call[t].handle),
           Inside(t, {"deleting", "recovering"})' => entry'[call[t].handle.id] = "absent",
           entry' \in [Ids -> Shape], quarantine' \in [Ids -> Shape \ {"foreign"}],
           \A j \in Ids \ {call[t].handle.id} :
              entry'[j] = entry[j] /\ quarantine'[j] = quarantine[j],
           entry'[call[t].handle.id] # "foreign",
           "absent" \in {entry[call[t].handle.id], quarantine[call[t].handle.id]} =>
              "absent" \in {entry'[call[t].handle.id], quarantine'[call[t].handle.id]},
           UNCHANGED <<mapping, issued, lease>>
    PROVE  WorkspaceInv'
<1> DEFINE i == call[t].handle.id
<1>1. Alone(t)
  BY LockIsExclusive DEF WorkspaceInv, Inside
<1>2. i \in Ids /\ call[t].handle.run \in Runs
  BY CallHasParts DEF WorkspaceInv, Inside
<1>3. records[i] = call[t].handle.run /\ records[i] # None /\ i \in issued
  BY <1>2, WorkspaceAssumption
     DEF WorkspaceInv, Knows, Uses, Inside, Mapped, Recorded, TypeOK
<1>4. TypeOK'
  BY DEF WorkspaceInv, TypeOK, OnlyCallOf, OnlyReplyOf, CallType, ReplyType, mapping
<1>5. Mapped'
  BY <1>2, <1>3
     DEF WorkspaceInv, Mapped, IndexInverse, Recorded, FreshIsClean, NeverBlocked,
         ReleaseNeverBlocked, mapping
<1>6. Prepares(t)'
  BY DEF Prepares, Inside, Preparing, Releasing
<1>7. Uses(t)'
  BY <1>3 DEF Uses, Inside, Snapshotting, Releasing, mapping
<1>8. Leases(t)'
  BY <1>2, <1>3, WorkspaceAssumption
     DEF WorkspaceInv, TypeOK, Handle, Knows, Leases, Inside, Preparing, Releasing, mapping
<1> QED
  BY <1>1, <1>4, <1>5, <1>6, <1>7, <1>8, AloneStep DEF WorkspaceInv, TypeOK

\* A release that drops the record: nothing is left under either name.
LEMMA ReleaseForgets ==
    ASSUME WorkspaceInv, NEW t \in Threads, Alone(t), NEW handle \in Handle,
           records[handle.id] = handle.run, Forget(handle),
           entry[handle.id] = "absent",
           quarantine' = [quarantine EXCEPT ![handle.id] = "absent"],
           NEW result \in Result, Answer(t, "release", handle, result, None),
           UNCHANGED <<entry, issued, lease>>
    PROVE  WorkspaceInv'
<1>1. handle.id \in Ids /\ handle.run \in Runs
  BY DEF Handle
<1>2. /\ OnlyCallOf(t) /\ OnlyReplyOf(t) /\ call'[t] = Idle
      /\ reply'[t] = Reply("release", handle, result, None)
  BY AnswerEffect DEF WorkspaceInv
<1>3. TypeOK'
  BY <1>1, <1>2
     DEF WorkspaceInv, TypeOK, Forget, OnlyCallOf, OnlyReplyOf, CallType, ReplyType, Shape,
         Directory
<1>4. runIndex[handle.run] = handle.id
  BY <1>1 DEF WorkspaceInv, Mapped, IndexInverse
<1>5. IndexInverse'
  BY <1>1, <1>4, WorkspaceAssumption
     DEF WorkspaceInv, TypeOK, Mapped, IndexInverse, Forget
<1>6. (Recorded /\ FreshIsClean /\ NeverBlocked)'
  BY <1>1 DEF WorkspaceInv, TypeOK, Mapped, Recorded, FreshIsClean, NeverBlocked,
              ReleaseNeverBlocked, Forget
<1>7. (Prepares(t) /\ Uses(t) /\ Faithful(t))'
  BY <1>2 DEF Prepares, Uses, Inside, Faithful, Reply
<1>8. Leases(t)'
  BY <1>1, <1>2 DEF WorkspaceInv, TypeOK, Handle, Knows, Leases, Inside, Forget
<1> QED
  BY <1>2, <1>3, <1>5, <1>6, <1>7, <1>8, AloneStep DEF WorkspaceInv, TypeOK, Mapped

\* The call of release, in each of the states it may find.
LEMMA CallReleaseStep ==
    ASSUME WorkspaceInv, NEW t \in Threads, NEW handle \in Handle, CallRelease(t, handle)
    PROVE  WorkspaceInv'
<1> DEFINE i == handle.id
<1>1. Alone(t)
  BY LockIsExclusive DEF WorkspaceInv, CallRelease
<1>2. i \in Ids /\ handle.run \in Runs /\ handle.run # None
  BY WorkspaceAssumption DEF Handle
<1>3. UNCHANGED <<files, issued, lease>> /\ issued \subseteq Ids
  BY DEF CallRelease, WorkspaceInv, TypeOK
<1>4. ASSUME UNCHANGED mapping, NEW result \in Result, Answer(t, "release", handle, result, None)
      PROVE  WorkspaceInv'
  BY <1>1, <1>3, <1>4, PlainAnswer
<1>5. CASE /\ records[i] = handle.run /\ entry[i] = "absent" /\ quarantine[i] = "absent"
           /\ Forget(handle) /\ Answer(t, "release", handle, "ok", None)
  <2>1. quarantine' = [quarantine EXCEPT ![i] = "absent"]
    BY <1>2, <1>3, <1>5 DEF files, WorkspaceInv, TypeOK
  <2> QED
    BY <1>1, <1>3, <1>5, <2>1, ReleaseForgets DEF files, Result
<1>6. ASSUME records[i] = handle.run, UNCHANGED mapping,
             NEW at \in {"recovering", "detaching"}, Begin(t, at, handle),
             at = "recovering" => entry[i] = "absent"
      PROVE  WorkspaceInv'
  <2>1. call'[t] # Idle /\ call'[t].at = at /\ call'[t].handle = handle
    BY <1>6, BeginEffect DEF WorkspaceInv, Step
  <2>2. Prepares(t)' /\ Uses(t)'
    BY <1>3, <1>6, <2>1 DEF Prepares, Uses, Inside, Preparing, mapping, files
  <2>3. Leases(t)'
    BY <1>3, <1>6, <2>1 DEF WorkspaceInv, Knows, Leases, Inside, Preparing, mapping, files
  <2> QED
    BY <1>1, <1>3, <1>6, <2>2, <2>3, PlainBegin DEF Step
<1> QED
  BY <1>2, <1>4, <1>5, <1>6 DEF CallRelease, Result

\* The steps of a deletion.
LEMMA DeletionStep == ASSUME WorkspaceInv, NEW t \in Threads, Deletion(t) PROVE WorkspaceInv'
<1> DEFINE handle == call[t].handle
           i == call[t].handle.id
<1>1. call[t] # Idle /\ Inside(t, Releasing)
  BY DEF Deletion, DetachWorks, DetachFails, DeleteWorks, DeleteFails, Restore, RecoverWorks,
         RecoverFails, AtStep, Inside, Releasing
<1>2. handle \in Handle /\ i \in Ids /\ handle.run \in Runs
  BY <1>1, CallHasParts DEF WorkspaceInv
<1>3. records[i] = handle.run /\ entry[i] # "foreign"
  BY <1>1, <1>2, WorkspaceAssumption DEF WorkspaceInv, Knows, Uses, Inside, Mapped, Recorded
<1>4. Alone(t)
  BY <1>1, LockIsExclusive DEF WorkspaceInv
<1>5. entry[i] \in Shape /\ quarantine[i] \in Shape \ {"foreign"}
  BY <1>2 DEF WorkspaceInv, TypeOK
<1>6. Remains(quarantine[i]) \subseteq Shape \ {"foreign"}
  BY <1>5 DEF Remains, Shape, Directory
<1>7. Inside(t, {"deleting", "recovering"}) => entry[i] = "absent"
  BY DEF WorkspaceInv, Knows, Uses
<1>8. ASSUME NEW at \in Releasing, Goto(t, at), UNCHANGED reply
      PROVE  /\ OnlyCallOf(t) /\ OnlyReplyOf(t) /\ Faithful(t)'
             /\ Inside(t, Releasing)' /\ call'[t].at = at /\ call'[t].handle = handle
  BY <1>1, <1>8, GotoEffect
     DEF WorkspaceInv, TypeOK, Step, Releasing, Inside, OnlyReplyOf, ReplyType, SnapshotSound,
         Faithful
<1>9. ASSUME Answer(t, "release", handle, "storage_failure", None)
      PROVE  OnlyCallOf(t) /\ OnlyReplyOf(t) /\ Faithful(t)' /\ call'[t] = Idle
  <2>1. /\ OnlyCallOf(t) /\ OnlyReplyOf(t) /\ call'[t] = Idle
        /\ reply'[t] = Reply("release", handle, "storage_failure", None)
    BY <1>2, <1>9, AnswerEffect DEF WorkspaceInv, Result
  <2> QED
    BY <2>1 DEF Faithful, Reply
<1>10. CASE DetachWorks(t)
  <2>1. /\ OnlyCallOf(t) /\ OnlyReplyOf(t) /\ Faithful(t)'
        /\ Inside(t, Releasing)' /\ call'[t].handle = handle
    BY <1>8, <1>10 DEF DetachWorks, Releasing
  <2>2. /\ entry' = [entry EXCEPT ![i] = "absent"]
        /\ quarantine' = [quarantine EXCEPT ![i] = entry[i]]
        /\ UNCHANGED <<mapping, issued, lease>>
    BY <1>10 DEF DetachWorks
  <2>3. /\ entry' \in [Ids -> Shape] /\ quarantine' \in [Ids -> Shape \ {"foreign"}]
        /\ entry'[i] = "absent"
        /\ \A j \in Ids \ {i} : entry'[j] = entry[j] /\ quarantine'[j] = quarantine[j]
    BY <1>2, <1>3, <1>5, <2>2 DEF WorkspaceInv, TypeOK, Shape
  <2> QED
    BY <1>1, <2>1, <2>2, <2>3, ReleaseGoesOn
<1>11. CASE DetachFails(t)
  <2>1. /\ OnlyCallOf(t) /\ OnlyReplyOf(t) /\ Faithful(t)'
        /\ Inside(t, Releasing)' /\ call'[t].handle = handle /\ call'[t].at = "restoring"
    BY <1>8, <1>11 DEF DetachFails, Releasing
  <2> QED
    BY <1>1, <1>3, <1>11, <2>1, ReleaseGoesOn
       DEF DetachFails, files, WorkspaceInv, TypeOK, Inside
<1>12. CASE DeleteWorks(t)
  <2>1. entry[i] = "absent"
    BY <1>7, <1>12 DEF DeleteWorks, AtStep, Inside
  <2>2. PICK result \in Result : Answer(t, "release", handle, result, None)
    BY <1>12 DEF DeleteWorks, Result
  <2> QED
    BY <1>2, <1>3, <1>4, <1>12, <2>1, <2>2, ReleaseForgets DEF DeleteWorks
<1>13. CASE DeleteFails(t)
  <2>1. /\ OnlyCallOf(t) /\ OnlyReplyOf(t) /\ Faithful(t)'
        /\ Inside(t, Releasing)' /\ call'[t].handle = handle /\ call'[t].at = "restoring"
    BY <1>8, <1>13 DEF DeleteFails, Releasing
  <2>2. entry[i] = "absent"
    BY <1>7, <1>13 DEF DeleteFails, AtStep, Inside
  <2>3. /\ quarantine' \in [Ids -> Shape \ {"foreign"}]
        /\ \A j \in Ids \ {i} : quarantine'[j] = quarantine[j]
    BY <1>2, <1>6, <1>13 DEF DeleteFails, WorkspaceInv, TypeOK
  <2> QED
    BY <1>1, <1>13, <2>1, <2>2, <2>3, ReleaseGoesOn DEF DeleteFails, WorkspaceInv, TypeOK
<1>14. CASE Restore(t)
  <2>1. OnlyCallOf(t) /\ OnlyReplyOf(t) /\ Faithful(t)' /\ call'[t] = Idle
    BY <1>9, <1>14 DEF Restore
  <2>2. \/ /\ entry' = [entry EXCEPT ![i] = quarantine[i]]
           /\ quarantine' = [quarantine EXCEPT ![i] = "absent"]
        \/ UNCHANGED <<entry, quarantine>>
    BY <1>14 DEF Restore, files
  <2>3. /\ entry' \in [Ids -> Shape] /\ quarantine' \in [Ids -> Shape \ {"foreign"}]
        /\ \A j \in Ids \ {i} : entry'[j] = entry[j] /\ quarantine'[j] = quarantine[j]
        /\ entry'[i] # "foreign"
        /\ "absent" \in {entry[i], quarantine[i]} => "absent" \in {entry'[i], quarantine'[i]}
    BY <1>2, <1>3, <1>5, <2>2 DEF WorkspaceInv, TypeOK, Shape
  <2> QED
    BY <1>1, <1>14, <2>1, <2>3, ReleaseGoesOn DEF Restore, Inside
<1>15. CASE RecoverWorks(t)
  <2>1. entry[i] = "absent"
    BY <1>7, <1>15 DEF RecoverWorks, AtStep, Inside
  <2> QED
    BY <1>2, <1>3, <1>4, <1>15, <2>1, ReleaseForgets DEF RecoverWorks, Result
<1>16. CASE RecoverFails(t)
  <2>1. OnlyCallOf(t) /\ OnlyReplyOf(t) /\ Faithful(t)' /\ call'[t] = Idle
    BY <1>9, <1>16 DEF RecoverFails
  <2>2. entry[i] = "absent"
    BY <1>7, <1>16 DEF RecoverFails, AtStep, Inside
  <2>3. /\ quarantine' \in [Ids -> Shape \ {"foreign"}]
        /\ \A j \in Ids \ {i} : quarantine'[j] = quarantine[j]
    BY <1>2, <1>6, <1>16 DEF RecoverFails, WorkspaceInv, TypeOK
  <2> QED
    BY <1>1, <1>16, <2>1, <2>2, <2>3, ReleaseGoesOn
       DEF RecoverFails, WorkspaceInv, TypeOK, Inside
<1> QED
  BY <1>10, <1>11, <1>12, <1>13, <1>14, <1>15, <1>16 DEF Deletion

-----------------------------------------------------------------------------
(* execution_lease and the environment. *)

\* A lease is taken on the recorded handle only.
LEMMA EnterLeaseStep ==
    ASSUME WorkspaceInv, NEW t \in Threads, NEW handle \in Handle, EnterLease(t, handle)
    PROVE  WorkspaceInv'
<1>1. Alone(t) /\ handle.id \in Ids /\ handle.run \in Runs /\ call[t] = Idle
  BY LockIsExclusive DEF WorkspaceInv, EnterLease, Handle, MayCall
<1>2. UNCHANGED <<mapping, files, issued>> /\ issued \subseteq Ids
  BY DEF EnterLease, WorkspaceInv, TypeOK
<1>3. /\ Verdicts(entry[handle.id]) \subseteq Result /\ RecordFault(handle) \in Result
      /\ RecordFault(handle) = "ok" => records[handle.id] = handle.run
  BY DEF Verdicts, Result, RecordFault
<1>4. ASSUME NEW result \in Result, Answer(t, "lease", handle, result, None), UNCHANGED lease
      PROVE  WorkspaceInv'
  BY <1>1, <1>2, <1>4, PlainAnswer
<1>5. ASSUME RecordFault(handle) = "ok", lease' = [lease EXCEPT ![t] = handle],
             Answer(t, "lease", handle, "ok", None)
      PROVE  WorkspaceInv'
  <2>1. /\ OnlyCallOf(t) /\ OnlyReplyOf(t) /\ call'[t] = Idle
        /\ reply'[t] = Reply("lease", handle, "ok", None)
    BY <1>5, AnswerEffect DEF WorkspaceInv, Result
  <2>2. TypeOK' /\ lease'[t] = handle /\ \A u \in Threads \ {t} : lease'[u] = lease[u]
    BY <1>2, <1>5, <2>1
       DEF WorkspaceInv, TypeOK, OnlyCallOf, OnlyReplyOf, CallType, ReplyType, mapping, files
  <2>3. Mapped'
    BY <1>2 DEF WorkspaceInv, Mapped, IndexInverse, Recorded, FreshIsClean, NeverBlocked,
                ReleaseNeverBlocked, mapping, files
  <2>4. (Prepares(t) /\ Uses(t) /\ Faithful(t))'
    BY <2>1 DEF Prepares, Uses, Inside, Faithful, Reply
  <2>5. Leases(t)'
    BY <1>1, <1>2, <1>3, <1>5, <2>1, <2>2, WorkspaceAssumption
       DEF WorkspaceInv, Mapped, Recorded, Leases, Inside, mapping
  <2> QED
    BY <1>1, <2>1, <2>2, <2>3, <2>4, <2>5, AloneStep DEF TypeOK
<1> QED
  BY <1>3, <1>4, <1>5 DEF EnterLease

\* A lease is left.
LEMMA ExitLeaseStep == ASSUME WorkspaceInv, NEW t \in Threads, ExitLease(t) PROVE WorkspaceInv'
<1>1. Alone(t) /\ call[t] = Idle
  BY LockIsExclusive DEF WorkspaceInv, ExitLease
<1>2. lease[t] \in Handle /\ lease[t].id \in Ids /\ entry[lease[t].id] \in Shape
  BY DEF WorkspaceInv, TypeOK, ExitLease, Handle
<1>3. PICK verdict \in Verdicts(entry[lease[t].id]) :
        Answer(t, "lease", lease[t], verdict, entry[lease[t].id])
  BY DEF ExitLease
<1>4. verdict \in Result
  BY DEF Verdicts, Result
<1>5. /\ OnlyCallOf(t) /\ OnlyReplyOf(t) /\ call'[t] = Idle
      /\ reply'[t] = Reply("lease", lease[t], verdict, entry[lease[t].id])
  BY <1>2, <1>3, <1>4, AnswerEffect DEF WorkspaceInv
<1>6. UNCHANGED <<mapping, files, issued>> /\ lease' = [lease EXCEPT ![t] = None]
  BY DEF ExitLease
<1>7. TypeOK' /\ lease'[t] = None /\ \A u \in Threads \ {t} : lease'[u] = lease[u]
  BY <1>5, <1>6
     DEF WorkspaceInv, TypeOK, OnlyCallOf, OnlyReplyOf, CallType, ReplyType, mapping, files
<1>8. Mapped'
  BY <1>6 DEF WorkspaceInv, Mapped, IndexInverse, Recorded, FreshIsClean, NeverBlocked,
              ReleaseNeverBlocked, mapping, files
<1>9. (Prepares(t) /\ Uses(t) /\ Leases(t) /\ Faithful(t))'
  BY <1>5, <1>7 DEF Prepares, Uses, Leases, Inside, Faithful, Reply
<1> QED
  BY <1>1, <1>5, <1>7, <1>8, <1>9, AloneStep DEF TypeOK

\* The command works in the leased workspace, where no operation is under way.
LEMMA WorkStep == ASSUME WorkspaceInv, NEW t \in Threads, Work(t) PROVE WorkspaceInv'
<1> DEFINE i == lease[t].id
<1>1. Alone(t) /\ call[t] = Idle /\ lease[t] # None
  BY LockIsExclusive DEF WorkspaceInv, Work
<1>2. i \in Ids /\ i \in issued /\ entry[i] \in {"whole", "cut", "altered"}
  BY <1>1 DEF WorkspaceInv, TypeOK, Work, Handle, Knows, Leases
<1>3. PICK shape \in {"whole", "altered"} : entry' = [entry EXCEPT ![i] = shape]
  BY DEF Work
<1>4. UNCHANGED <<mapping, quarantine, issued, call, lease, reply>>
  BY DEF Work
<1>5. TypeOK'
  BY <1>2, <1>3, <1>4 DEF WorkspaceInv, TypeOK, Shape, Directory, mapping
<1>6. Mapped'
  BY <1>2, <1>3, <1>4
     DEF WorkspaceInv, TypeOK, Mapped, IndexInverse, Recorded, FreshIsClean, NeverBlocked,
         ReleaseNeverBlocked, mapping
<1>7. OnlyCallOf(t) /\ OnlyReplyOf(t)
  BY <1>4 DEF WorkspaceInv, TypeOK, OnlyCallOf, OnlyReplyOf, CallType, ReplyType
<1>8. (Prepares(t) /\ Uses(t))'
  BY <1>1, <1>4 DEF Prepares, Uses, Inside
<1>9. Leases(t)'
  BY <1>1, <1>2, <1>4 DEF WorkspaceInv, Knows, Leases, Inside, mapping
<1>10. Faithful(t)'
  BY <1>4 DEF WorkspaceInv, SnapshotSound, Faithful
<1> QED
  BY <1>1, <1>4, <1>5, <1>6, <1>7, <1>8, <1>9, <1>10, AloneStep DEF TypeOK

\* A change of an entry by others, at any moment of an operation.
LEMMA EnvironmentStep ==
    ASSUME WorkspaceInv, NEW i \in Ids, Tamper(i) \/ Intrude(i)
    PROVE  WorkspaceInv'
<1>1. PICK shape \in {"altered", "symlink", "file", "absent", "foreign"} :
        /\ entry' = [entry EXCEPT ![i] = shape]
        /\ \/ shape # "foreign" /\ entry[i] \notin {"absent", "foreign"}
           \/ /\ shape = "foreign" /\ "intrude" \in Environment
              /\ entry[i] = "absent" /\ records[i] = None
  BY DEF Tamper, Intrude
<1>2. UNCHANGED <<mapping, quarantine, issued, call, lease, reply>>
  BY DEF Tamper, Intrude
<1>3. TypeOK'
  BY <1>1, <1>2 DEF WorkspaceInv, TypeOK, Shape, Directory, mapping
<1>4. Exclusive' /\ SnapshotSound'
  BY <1>2 DEF WorkspaceInv, Exclusive, InsideLock, SnapshotSound
<1>5. Mapped'
  BY <1>1, <1>2
     DEF WorkspaceInv, TypeOK, Mapped, IndexInverse, Recorded, FreshIsClean, NeverBlocked,
         ReleaseNeverBlocked, mapping
<1>6. ASSUME NEW t \in Threads PROVE (Prepares(t) /\ Uses(t) /\ Leases(t))'
  <2>1. Prepares(t)'
    BY <1>2 DEF WorkspaceInv, Knows, Prepares, Inside, mapping
  <2>2. Uses(t)'
    <3>1. CASE call[t] = Idle
      BY <1>2, <3>1 DEF Uses, Inside
    <3>2. CASE call[t] # Idle
      <4>1. /\ call[t].handle.id \in Ids /\ call[t].handle.run \in Runs
            /\ call[t].handle.run # None
        BY <3>2, CallHasParts, WorkspaceAssumption DEF WorkspaceInv
      <4> QED
        BY <1>1, <1>2, <4>1
           DEF WorkspaceInv, TypeOK, Knows, Uses, Inside, Validates, mapping, Snapshotting,
               Releasing
    <3> QED
      BY <3>1, <3>2
  <2>3. Leases(t)'
    BY <1>1, <1>2 DEF WorkspaceInv, TypeOK, Knows, Leases, Inside, Handle, mapping
  <2> QED
    BY <2>1, <2>2, <2>3
<1> QED
  BY <1>3, <1>4, <1>5, <1>6 DEF WorkspaceInv, Knows

\* After a crash nobody is inside the lock and nothing is recorded.
LEMMA CrashStep == ASSUME WorkspaceInv, Crash PROVE WorkspaceInv'
<1>1. TypeOK'
  BY DEF WorkspaceInv, TypeOK, Crash, files
<1>2. \A t \in Threads : call'[t] = Idle /\ lease'[t] = None /\ reply'[t] = NoReply
  BY DEF Crash
<1>3. Exclusive' /\ Knows' /\ SnapshotSound'
  BY <1>2 DEF Exclusive, InsideLock, Knows, Prepares, Uses, Leases, Inside, SnapshotSound
<1>4. Mapped'
  BY WorkspaceAssumption
     DEF Crash, WorkspaceInv, Mapped, IndexInverse, Recorded, FreshIsClean, NeverBlocked,
         ReleaseNeverBlocked, files
<1> QED
  BY <1>1, <1>3, <1>4 DEF WorkspaceInv

-----------------------------------------------------------------------------
(* The invariant, and what it gives. *)

\* At first there are no workspaces and no calls.
LEMMA WorkspaceInit == Init => WorkspaceInv
<1> SUFFICES ASSUME Init PROVE WorkspaceInv
  OBVIOUS
<1>1. TypeOK
  BY DEF Init, TypeOK, Shape
<1>2. \A t \in Threads : call[t] = Idle /\ lease[t] = None /\ reply[t] = NoReply
  BY DEF Init
<1>3. Exclusive /\ Knows /\ SnapshotSound
  BY <1>2 DEF Exclusive, InsideLock, Knows, Prepares, Uses, Leases, Inside, SnapshotSound
<1>4. Mapped
  BY WorkspaceAssumption
     DEF Init, Mapped, IndexInverse, Recorded, FreshIsClean, NeverBlocked, ReleaseNeverBlocked
<1> QED
  BY <1>1, <1>3, <1>4 DEF WorkspaceInv

\* Every operation a thread can be in preserves the invariant.
LEMMA ThreadStep ==
    ASSUME WorkspaceInv, NEW t \in Threads,
           Prepare(t) \/ Load(t) \/ Snapshot(t) \/ Release(t) \/ Lease(t)
    PROVE  WorkspaceInv'
<1>1. CASE Prepare(t)
  BY <1>1, CallPrepareStep, CloneStep, PopulateStep, ValidateNewStep, DiscardStep DEF Prepare
<1>2. CASE Load(t)
  BY <1>2, LoadStep
<1>3. CASE Snapshot(t)
  BY <1>3, CallSnapshotStep, StageTreeStep, RecheckStep DEF Snapshot
<1>4. CASE Release(t)
  BY <1>4, CallReleaseStep, DeletionStep DEF Release
<1>5. CASE Lease(t)
  BY <1>5, EnterLeaseStep, ExitLeaseStep, WorkStep DEF Lease
<1> QED
  BY <1>1, <1>2, <1>3, <1>4, <1>5

\* Every step of the specification preserves the invariant.
LEMMA WorkspaceStep == WorkspaceInv /\ [Next]_vars => WorkspaceInv'
<1> SUFFICES ASSUME WorkspaceInv, [Next]_vars PROVE WorkspaceInv'
  OBVIOUS
<1>1. CASE Next
  BY <1>1, ThreadStep, EnvironmentStep, CrashStep DEF Next
<1>2. CASE UNCHANGED vars
  BY <1>2 DEF vars, WorkspaceInv, TypeOK, Exclusive, InsideLock, Mapped, IndexInverse,
              Recorded, FreshIsClean, NeverBlocked, ReleaseNeverBlocked, Knows, Prepares,
              Uses, Leases, Inside, SnapshotSound
<1> QED
  BY <1>1, <1>2

\* The inductive invariant holds in every reachable state.
THEOREM WorkspaceInvariance == Spec => []WorkspaceInv
BY WorkspaceInit, WorkspaceStep, PTL DEF Spec

\* The variables of the adapter keep their types; in particular the quarantine
\* never holds a directory that somebody else made.
THEOREM WorkspaceTyped == Spec => []TypeOK
BY WorkspaceInvariance, PTL DEF WorkspaceInv

\* _records and _run_index stay inverses of each other.
THEOREM MapsAreInverses == Spec => []IndexInverse
BY WorkspaceInvariance, PTL DEF WorkspaceInv, Mapped

\* A candidate identity is only handed out for a tree that passed the validation.
THEOREM SnapshotsAreSound == Spec => []SnapshotSound
BY WorkspaceInvariance, PTL DEF WorkspaceInv

\* With identifiers that are never repeated, the quarantine name of a recorded
\* workspace is free while its directory is in place.
THEOREM ReleaseIsNeverBlocked == ASSUME ~Reissues PROVE Spec => []ReleaseNeverBlocked
<1>1. WorkspaceInv => ReleaseNeverBlocked
  BY DEF WorkspaceInv, Mapped, NeverBlocked
<1> QED
  BY <1>1, WorkspaceInvariance, PTL

-----------------------------------------------------------------------------
(* What a step may never do. *)

\* The only steps that change the mapping.
LEMMA MappingChanges ==
    ASSUME Next
    PROVE  \/ UNCHANGED mapping
           \/ \E t \in Threads :
                \/ ValidateNew(t) \/ DeleteWorks(t) \/ RecoverWorks(t)
                \/ \E handle \in Handle : CallRelease(t, handle)
           \/ Crash
BY DEF Next, Prepare, Load, Snapshot, Release, Deletion, Lease, CallPrepare, Clone, Populate,
       Discard, CallSnapshot, StageTree, Recheck, DetachWorks, DetachFails, DeleteFails,
       Restore, RecoverFails, EnterLease, ExitLease, Work, Tamper, Intrude

\* A record is dropped only by a step that leaves nothing under either name.
LEMMA DroppedIsGone ==
    ASSUME WorkspaceInv, Next, NEW i \in Ids, Dropped(i), ~Crash
    PROVE  entry'[i] = "absent" /\ quarantine'[i] = "absent"
<1>1. records[i] # None /\ records'[i] = None
  BY DEF Dropped
<1>2. PICK t \in Threads :
        \/ ValidateNew(t) \/ DeleteWorks(t) \/ RecoverWorks(t)
        \/ \E handle \in Handle : CallRelease(t, handle)
  BY <1>1, MappingChanges DEF mapping
<1>3. CASE ValidateNew(t)
  <2>1. call[t].handle \in Handle
    BY <1>3, CallHasParts DEF ValidateNew, AtStep, WorkspaceInv
  <2> QED
    BY <1>1, <1>3, <2>1, WorkspaceAssumption
       DEF ValidateNew, Publish, Handle, WorkspaceInv, TypeOK, mapping
<1>4. CASE DeleteWorks(t) \/ RecoverWorks(t)
  <2>1. /\ call[t] # Idle /\ Inside(t, {"deleting", "recovering"})
        /\ Forget(call[t].handle)
        /\ quarantine' = [quarantine EXCEPT ![call[t].handle.id] = "absent"]
        /\ UNCHANGED entry
    BY <1>4 DEF DeleteWorks, RecoverWorks, AtStep, Inside
  <2>2. entry[call[t].handle.id] = "absent"
    BY <2>1 DEF WorkspaceInv, Knows, Uses
  <2>3. i = call[t].handle.id
    BY <1>1, <2>1 DEF Forget, WorkspaceInv, TypeOK
  <2> QED
    BY <2>1, <2>2, <2>3 DEF WorkspaceInv, TypeOK
<1>5. ASSUME NEW handle \in Handle, CallRelease(t, handle)
      PROVE  entry'[i] = "absent" /\ quarantine'[i] = "absent"
  <2>1. /\ Forget(handle) /\ UNCHANGED files
        /\ entry[handle.id] = "absent" /\ quarantine[handle.id] = "absent"
    BY <1>1, <1>5 DEF CallRelease, mapping
  <2>2. i = handle.id
    BY <1>1, <2>1 DEF Forget, WorkspaceInv, TypeOK
  <2> QED
    BY <2>1, <2>2 DEF files
<1> QED
  BY <1>2, <1>3, <1>4, <1>5

\* Whatever fails in the middle of a release, the capability leads to the files
\* until they are gone, in every environment and with repeated identifiers.
THEOREM ForgottenWorkspacesAreGone == Spec => ForgottenIsGone
<1>1. WorkspaceInv /\ [Next]_vars =>
        [\A i \in Ids :
            Dropped(i) /\ ~Crash => entry'[i] = "absent" /\ quarantine'[i] = "absent"]_vars
  BY DroppedIsGone
<1> QED
  BY <1>1, WorkspaceInvariance, PTL DEF Spec, ForgottenIsGone

\* A step of a preparation works on an entry that no record leads to.
LEMMA PreparationElsewhere ==
    ASSUME WorkspaceInv, NEW t \in Threads, Prepare(t), NEW i \in Ids, records[i] # None
    PROVE  entry'[i] = entry[i]
<1>1. CASE CallPrepare(t) \/ ValidateNew(t)
  BY <1>1 DEF CallPrepare, ValidateNew, files
<1>2. CASE Clone(t) \/ Populate(t) \/ Discard(t)
  <2>1. call[t] # Idle /\ Inside(t, Preparing)
    BY <1>2 DEF Clone, Populate, Discard, AtStep, Inside, Preparing
  <2>2. call[t].handle.id # i
    BY <2>1 DEF WorkspaceInv, Knows, Prepares
  <2> QED
    BY <1>2, <2>2 DEF Clone, Populate, Discard, WorkspaceInv, TypeOK
<1> QED
  BY <1>1, <1>2 DEF Prepare

\* Neither a preparation nor the clean-up of a failed one touches the directory of
\* a published workspace, even if the generator repeats an identifier.
THEOREM PublishedIsSpared == Spec => PreparationSparesPublished
<1>1. WorkspaceInv /\ [Next]_vars =>
        [\A i \in Ids :
            records[i] # None /\ (\E t \in Threads : Prepare(t)) => entry'[i] = entry[i]]_vars
  BY PreparationElsewhere
<1> QED
  BY <1>1, WorkspaceInvariance, PTL DEF Spec, PreparationSparesPublished

\* While a thread is inside the lock, no other thread makes a step.
LEMMA OthersWait ==
    ASSUME WorkspaceInv, NEW t \in Threads, InsideLock(t), NEW u \in Threads,
           Prepare(u) \/ Load(u) \/ Snapshot(u) \/ Release(u) \/ Lease(u)
    PROVE  u = t
<1> SUFFICES ASSUME u # t PROVE FALSE
  OBVIOUS
<1>1. call[u] = Idle /\ lease[u] = None /\ ~MayCall(u)
  BY DEF WorkspaceInv, Exclusive, InsideLock, MayCall, LockFree
<1> QED
  BY <1>1
     DEF Prepare, Load, Snapshot, Release, Deletion, Lease, CallPrepare, Clone, Populate,
         ValidateNew, Discard, CallSnapshot, StageTree, Recheck, CallRelease, DetachWorks,
         DetachFails, DeleteWorks, DeleteFails, Restore, RecoverWorks, RecoverFails,
         EnterLease, ExitLease, Work, AtStep

\* A thread that uses a lease, outside any operation, is the only one to make a
\* step of the adapter, and only its own release changes the mapping.
LEMMA LeaseKeepsOthersOut ==
    ASSUME WorkspaceInv, Next, NEW t \in Threads,
           lease[t] # None, lease'[t] = lease[t], call[t] = Idle, call'[t] = Idle,
           ~\E handle \in Handle : CallRelease(t, handle)
    PROVE  UNCHANGED <<mapping, quarantine>>
<1>1. ASSUME NEW u \in Threads, Prepare(u) \/ Load(u) \/ Snapshot(u) \/ Release(u) \/ Lease(u)
      PROVE  UNCHANGED <<mapping, quarantine>>
  <2>1. u = t
    BY <1>1, OthersWait DEF InsideLock
  <2>2. CallPrepare(t) \/ Load(t) \/ CallSnapshot(t) \/ Lease(t)
    BY <1>1, <2>1
       DEF Prepare, Snapshot, Release, Deletion, Clone, Populate, ValidateNew, Discard,
           StageTree, Recheck, DetachWorks, DetachFails, DeleteWorks, DeleteFails, Restore,
           RecoverWorks, RecoverFails, AtStep
  <2> QED
    BY <2>2 DEF CallPrepare, Load, CallSnapshot, Lease, EnterLease, ExitLease, Work, files
<1>2. ASSUME NEW i \in Ids, Tamper(i) \/ Intrude(i) PROVE UNCHANGED <<mapping, quarantine>>
  BY <1>2 DEF Tamper, Intrude
<1>3. ~Crash
  BY DEF Crash
<1> QED
  BY <1>1, <1>2, <1>3 DEF Next

\* Nobody else takes a leased workspace away from the thread that uses it.
THEOREM LeasesProtect == Spec => LeaseProtects
<1>1. WorkspaceInv /\ [Next]_vars =>
        [\A t \in Threads :
            (/\ lease[t] # None /\ lease'[t] = lease[t]
             /\ call[t] = Idle /\ call'[t] = Idle
             /\ ~\E handle \in Handle : CallRelease(t, handle))
                => UNCHANGED <<mapping, quarantine>>]_vars
  BY LeaseKeepsOthersOut
<1> QED
  BY <1>1, WorkspaceInvariance, PTL DEF Spec, LeaseProtects

-----------------------------------------------------------------------------
(* The adapter implements the port. *)

\* An answer of the adapter is said to the caller of the port.
LEMMA AnswerIsSaid ==
    ASSUME TypeOK, NEW t \in Threads,
           NEW op \in {"prepare", "load", "snapshot", "release", "lease"},
           NEW handle \in Handle, NEW result \in Result, NEW tree \in Shape \cup {None},
           Answer(t, op, handle, result, tree)
    PROVE  /\ Port!Say(t, op, handle, result)
           /\ Answers'[t] = [op |-> op, handle |-> handle, result |-> result]
           /\ \A u \in Threads \ {t} : Answers'[u] = Answers[u]
<1>1. /\ reply'[t] = Reply(op, handle, result, tree) /\ reply'[t] # NoReply
      /\ OnlyReplyOf(t)
  BY AnswerEffect
<1>2. Answers'[t] = [op |-> op, handle |-> handle, result |-> result]
  BY <1>1 DEF Answers, Reply
<1>3. \A u \in Threads \ {t} : Answers'[u] = Answers[u]
  BY <1>1 DEF Answers, OnlyReplyOf
<1>4. Answers' = [Answers EXCEPT ![t] = [op |-> op, handle |-> handle, result |-> result]]
  BY <1>2, <1>3 DEF Answers
<1> QED
  BY <1>2, <1>3, <1>4 DEF Port!Say

\* A call that goes to work is one the caller has just asked for.
LEMMA BeginIsAsked ==
    ASSUME TypeOK, NEW t \in Threads, NEW at \in Step, NEW handle \in Handle,
           Begin(t, at, handle), UNCHANGED mapping
    PROVE  Port!Ask(t)
<1>1. reply'[t] = NoReply /\ \A u \in Threads \ {t} : reply'[u] = reply[u]
  BY BeginEffect DEF OnlyReplyOf
<1>2. Answers' = [Answers EXCEPT ![t] = NoReply]
  BY <1>1 DEF Answers
<1> QED
  BY <1>2 DEF Port!Ask, Port!NoAnswer, NoReply, mapping

\* A step that changes neither the records nor a reply does nothing at the port.
LEMMA SilentIsUnseen ==
    ASSUME UNCHANGED <<mapping, reply>>
    PROVE  UNCHANGED Port!vars
BY DEF mapping, Port!vars, Answers

\* An answer that leaves the mapping alone and is true of it is one the port may give.
LEMMA TruthIsTold ==
    ASSUME TypeOK, NEW t \in Threads,
           NEW op \in {"prepare", "load", "snapshot", "release", "lease"},
           NEW handle \in Handle, NEW result \in Result, NEW tree \in Shape \cup {None},
           Answer(t, op, handle, result, tree), UNCHANGED mapping,
           \/ op = "prepare" /\ result = "already_exists" /\ Port!Prepared(handle.run)
           \/ op = "load" /\ result = "none" /\ records[handle.id] = None
           \/ op = "release" /\ result = "ok" /\ records[handle.id] = None
           \/ /\ op \in {"load", "snapshot", "lease"} /\ result = "ok"
              /\ records[handle.id] = handle.run
           \/ op \in {"snapshot", "lease"} /\ result = "not_found" /\ records[handle.id] = None
           \/ /\ op \in {"snapshot", "lease", "release"} /\ result = "conflict"
              /\ records[handle.id] \notin {None, handle.run}
           \/ result \in Fault
    PROVE  Port!Tell(t)
<1> DEFINE a == [op |-> op, handle |-> handle, result |-> result]
<1>1. Answers'[t] = a /\ \A u \in Threads \ {t} : Answers'[u] = Answers[u]
  BY AnswerIsSaid
<1>2. a \in Port!Answer
  BY DEF Port!Answer, Port!Handle, Port!Faults, Handle, Result
<1>3. Port!Truthful(a)
  BY DEF Port!Truthful, Port!Faults, Fault
<1> QED
  BY <1>1, <1>2, <1>3 DEF Port!Tell, mapping

\* The steps of a preparation at the port: an identifier that is drawn is new, so
\* only the run can be refused; the record is published when neither is in use.
LEMMA PrepareAtPort ==
    ASSUME WorkspaceInv, ~Reissues, "intrude" \notin Environment,
           NEW t \in Threads, Prepare(t)
    PROVE  [Port!Next]_Port!vars
<1> USE DEF WorkspaceInv
<1>1. CASE CallPrepare(t)
  <2>1. PICK r \in Runs, i \in NewIds :
          LET handle == [id |-> i, run |-> r] IN
          /\ UNCHANGED mapping
          /\ \/ /\ runIndex[r] # None
                /\ Answer(t, "prepare", handle, "already_exists", None)
             \/ /\ records[i] # None \/ entry[i] # "absent"
                /\ Answer(t, "prepare", handle, "already_exists", None)
             \/ Begin(t, "cloning", handle)
    BY <1>1 DEF CallPrepare
  <2> DEFINE handle == [id |-> i, run |-> r]
  <2>2. i \in Ids \ issued /\ handle \in Handle /\ handle.run = r
    BY DEF NewIds, Handle
  <2>3. records[i] = None /\ entry[i] = "absent"
    BY <2>2 DEF Mapped, Recorded, FreshIsClean
  <2>4. CASE runIndex[r] # None /\ Answer(t, "prepare", handle, "already_exists", None)
    <3>1. Port!Prepared(r)
      BY <2>4 DEF Mapped, IndexInverse, TypeOK, Port!Prepared
    <3>2. Port!Tell(t)
      BY <2>1, <2>2, <2>4, <3>1, TruthIsTold DEF Result
    <3> QED
      BY <3>2 DEF Port!Next
  <2>5. CASE Begin(t, "cloning", handle)
    <3>1. Port!Ask(t)
      BY <2>1, <2>2, <2>5, BeginIsAsked DEF Step
    <3> QED
      BY <3>1 DEF Port!Next
  <2> QED
    BY <2>1, <2>3, <2>4, <2>5
<1>2. CASE Clone(t) \/ Populate(t)
  BY <1>2, SilentIsUnseen DEF Clone, Populate
<1>3. CASE ValidateNew(t)
  <2> DEFINE handle == call[t].handle
  <2>1. Inside(t, Preparing) /\ handle \in Handle /\ handle.id \in Ids /\ handle.run \in Runs
    BY <1>3, CallHasParts DEF ValidateNew, AtStep, Inside, Preparing
  <2>2. CASE UNCHANGED <<mapping, reply>>
    BY <2>2, SilentIsUnseen
  <2>3. CASE Publish(handle) /\ Answer(t, "prepare", handle, "ok", entry[handle.id])
    <3>1. Port!Say(t, "prepare", handle, "ok")
      BY <2>1, <2>3, AnswerIsSaid DEF TypeOK, Result
    <3>2. records[handle.id] = None /\ runIndex[handle.run] = None
      BY <2>1 DEF Knows, Prepares
    <3>3. ~Port!Prepared(handle.run)
      BY <2>1, <3>2, WorkspaceAssumption DEF Mapped, IndexInverse, Port!Prepared
    <3>4. Port!Grant(t, handle)
      BY <2>3, <3>1, <3>2, <3>3 DEF Port!Grant, Publish
    <3> QED
      BY <2>1, <3>4 DEF Port!Next, Port!Handle, Handle
  <2> QED
    BY <1>3, <2>2, <2>3 DEF ValidateNew
<1>4. CASE Discard(t)
  <2>1. /\ Inside(t, Preparing) /\ call[t].handle \in Handle /\ call[t].at = "discarding"
    BY <1>4, CallHasParts DEF Discard, AtStep, Inside, Preparing
  <2>2. call[t].cause \in Fault
    BY <2>1 DEF Knows, Prepares
  <2>3. Port!Tell(t)
    BY <1>4, <2>1, <2>2, TruthIsTold DEF Discard, Fault, Result
  <2> QED
    BY <2>3 DEF Port!Next
<1> QED
  BY <1>1, <1>2, <1>3, <1>4 DEF Prepare

\* What _require_record says of a handle.
LEMMA RecordFaultIsTrue ==
    ASSUME NEW handle
    PROVE  \/ RecordFault(handle) = "not_found" /\ records[handle.id] = None
           \/ RecordFault(handle) = "conflict" /\ records[handle.id] \notin {None, handle.run}
           \/ RecordFault(handle) = "ok" /\ records[handle.id] = handle.run
<1>1. CASE records[handle.id] = None
  BY <1>1 DEF RecordFault
<1>2. CASE records[handle.id] # None /\ records[handle.id] # handle.run
  BY <1>2 DEF RecordFault
<1>3. CASE records[handle.id] # None /\ records[handle.id] = handle.run
  BY <1>3 DEF RecordFault
<1> QED
  BY <1>1, <1>2, <1>3

\* The answers of load, snapshot and lease are true of the records; a lease that
\* ends well is one of a workspace that is still recorded.
LEMMA ReadingAtPort ==
    ASSUME WorkspaceInv, ~Reissues, NEW t \in Threads, Load(t) \/ Snapshot(t) \/ Lease(t)
    PROVE  [Port!Next]_Port!vars
<1> USE DEF WorkspaceInv
<1>1. ASSUME Port!Tell(t) \/ Port!Ask(t) PROVE [Port!Next]_Port!vars
  BY <1>1 DEF Port!Next
<1>2. CASE Load(t)
  <2>1. PICK i \in Ids, r \in Runs :
          \/ /\ records[i] = None
             /\ Answer(t, "load", [id |-> i, run |-> r], "none", None)
          \/ /\ records[i] = r
             /\ \E verdict \in Verdicts(entry[i]) :
                  Answer(t, "load", [id |-> i, run |-> r], verdict, entry[i])
    BY <1>2 DEF Load
  <2> DEFINE handle == [id |-> i, run |-> r]
  <2>2. handle \in Handle /\ handle.id = i /\ handle.run = r /\ entry[i] \in Shape
    BY DEF Handle, TypeOK
  <2>3. UNCHANGED mapping
    BY <1>2 DEF Load
  <2> HIDE DEF handle
  <2>4. CASE records[i] = None /\ Answer(t, "load", handle, "none", None)
    BY <1>1, <2>2, <2>3, <2>4, TruthIsTold DEF Result
  <2>5. ASSUME records[i] = r, NEW verdict \in Verdicts(entry[i]),
               Answer(t, "load", handle, verdict, entry[i])
        PROVE  [Port!Next]_Port!vars
    <3>1. verdict \in Result /\ (verdict = "ok" \/ verdict \in Fault)
      BY DEF Verdicts, Fault, Result
    <3>2. Port!Tell(t)
      BY <2>2, <2>3, <2>5, <3>1, TruthIsTold
    <3> QED
      BY <1>1, <3>2
  <2> QED
    BY <2>1, <2>4, <2>5 DEF handle
<1>3. CASE CallSnapshot(t)
  <2>1. PICK handle \in Handle :
          \/ /\ RecordFault(handle) # "ok"
             /\ Answer(t, "snapshot", handle, RecordFault(handle), None)
          \/ /\ RecordFault(handle) = "ok"
             /\ \E verdict \in Verdicts(entry[handle.id]) :
                  \/ /\ verdict = "ok"
                     /\ Begin(t, "staging", handle)
                  \/ /\ verdict # "ok"
                     /\ Answer(t, "snapshot", handle, verdict, None)
    BY <1>3 DEF CallSnapshot
  <2>2. UNCHANGED mapping
    BY <1>3 DEF CallSnapshot
  <2>3. ASSUME NEW result \in Result, Answer(t, "snapshot", handle, result, None),
               \/ result \in Fault
               \/ result = "not_found" /\ records[handle.id] = None
               \/ result = "conflict" /\ records[handle.id] \notin {None, handle.run}
        PROVE  [Port!Next]_Port!vars
    BY <1>1, <2>2, <2>3, TruthIsTold
  <2>4. CASE RecordFault(handle) # "ok"
    <3>1. RecordFault(handle) \in Result
      BY RecordFaultIsTrue DEF Result
    <3> QED
      BY <2>1, <2>3, <2>4, <3>1, RecordFaultIsTrue
  <2>5. ASSUME NEW verdict \in Verdicts(entry[handle.id]), verdict # "ok",
               Answer(t, "snapshot", handle, verdict, None)
        PROVE  [Port!Next]_Port!vars
    <3>1. verdict \in Fault /\ verdict \in Result
      BY <2>5 DEF Verdicts, Fault, Result
    <3> QED
      BY <2>3, <2>5, <3>1
  <2>6. CASE Begin(t, "staging", handle)
    BY <1>1, <2>2, <2>6, BeginIsAsked DEF Step
  <2> QED
    BY <2>1, <2>4, <2>5, <2>6
<1>4. CASE StageTree(t)
  <2>1. call[t].handle \in Handle /\ UNCHANGED mapping
    BY <1>4, CallHasParts DEF StageTree, AtStep
  <2>2. CASE UNCHANGED reply
    BY <2>1, <2>2, SilentIsUnseen
  <2>3. ASSUME NEW cause \in Fault, Answer(t, "snapshot", call[t].handle, cause, None)
        PROVE  [Port!Next]_Port!vars
    BY <1>1, <2>1, <2>3, TruthIsTold DEF Fault, Result
  <2> QED
    BY <1>4, <2>2, <2>3 DEF StageTree
<1>5. CASE Recheck(t)
  <2> DEFINE handle == call[t].handle
  <2>1. /\ handle \in Handle /\ UNCHANGED mapping /\ call[t].tree \in Shape \cup {None}
        /\ Inside(t, Snapshotting \cup Releasing)
    BY <1>5, CallHasParts DEF Recheck, AtStep, CallType, Inside, Snapshotting
  <2>2. records[handle.id] = handle.run
    BY <2>1 DEF Knows, Uses
  <2>3. PICK verdict \in Verdicts(entry[handle.id]) :
          Answer(t, "snapshot", handle, verdict,
                 IF verdict = "ok" THEN call[t].tree ELSE None)
    BY <1>5 DEF Recheck
  <2>4. verdict \in Result /\ (verdict = "ok" \/ verdict \in Fault)
    BY DEF Verdicts, Fault, Result
  <2>5. (IF verdict = "ok" THEN call[t].tree ELSE None) \in Shape \cup {None}
    BY <2>1
  <2>6. Port!Tell(t)
    BY <2>1, <2>2, <2>3, <2>4, <2>5, TruthIsTold
  <2> QED
    BY <1>1, <2>6
<1>6. ASSUME NEW handle \in Handle, EnterLease(t, handle) PROVE [Port!Next]_Port!vars
  <2>1. UNCHANGED mapping
    BY <1>6 DEF EnterLease
  <2>2. PICK result :
          /\ Answer(t, "lease", handle, result, None)
          /\ \/ result # "ok" /\ result = RecordFault(handle)
             \/ RecordFault(handle) = "ok" /\ result \in Verdicts(entry[handle.id])
    BY <1>6 DEF EnterLease
  <2>3. /\ result \in Result
        /\ \/ result \in Fault
           \/ result = "ok" /\ records[handle.id] = handle.run
           \/ result = "not_found" /\ records[handle.id] = None
           \/ result = "conflict" /\ records[handle.id] \notin {None, handle.run}
    BY <2>2, RecordFaultIsTrue DEF Verdicts, Fault, Result
  <2>4. Port!Tell(t)
    BY <2>1, <2>2, <2>3, TruthIsTold
  <2> QED
    BY <1>1, <2>4
<1>7. CASE ExitLease(t)
  <2>1. lease[t] # None /\ lease[t] \in Handle /\ entry[lease[t].id] \in Shape
    BY <1>7 DEF ExitLease, TypeOK, Handle
  <2>2. PICK verdict \in Verdicts(entry[lease[t].id]) :
          Answer(t, "lease", lease[t], verdict, entry[lease[t].id])
    BY <1>7 DEF ExitLease
  <2>3. verdict \in Result /\ (verdict = "ok" \/ verdict \in Fault)
    BY DEF Verdicts, Fault, Result
  <2>4. verdict = "ok" => Validates(entry[lease[t].id])
    BY DEF Verdicts
  <2>5. verdict = "ok" => records[lease[t].id] = lease[t].run
    BY <2>1, <2>4 DEF Knows, Leases, Validates
  <2>6. Port!Tell(t)
    BY <1>7, <2>1, <2>2, <2>3, <2>5, TruthIsTold DEF ExitLease
  <2> QED
    BY <1>1, <2>6
<1>8. CASE Work(t)
  BY <1>8, SilentIsUnseen DEF Work
<1> QED
  BY <1>2, <1>3, <1>4, <1>5, <1>6, <1>7, <1>8 DEF Snapshot, Lease

\* A release withdraws the capability when it forgets the record, and tells the
\* truth otherwise.
LEMMA ReleaseAtPort ==
    ASSUME WorkspaceInv, NEW t \in Threads, Release(t)
    PROVE  [Port!Next]_Port!vars
<1> USE DEF WorkspaceInv
<1>1. ASSUME Port!Tell(t) \/ Port!Ask(t) PROVE [Port!Next]_Port!vars
  BY <1>1 DEF Port!Next
<1>2. ASSUME NEW handle \in Handle, records[handle.id] = handle.run, Forget(handle),
             NEW result \in {"ok", "isolation_failure"},
             Answer(t, "release", handle, result, None)
      PROVE  [Port!Next]_Port!vars
  <2>1. Port!Say(t, "release", handle, result)
    BY <1>2, AnswerIsSaid DEF Result
  <2>2. Port!Withdraw(t, handle)
    BY <1>2, <2>1 DEF Port!Withdraw, Forget
  <2> QED
    BY <2>2 DEF Port!Next, Port!Handle, Handle
<1>3. ASSUME NEW handle \in Handle, UNCHANGED mapping, NEW result \in Result,
             Answer(t, "release", handle, result, None),
             \/ result \in Fault
             \/ result = "ok" /\ records[handle.id] = None
             \/ result = "conflict" /\ records[handle.id] \notin {None, handle.run}
      PROVE  [Port!Next]_Port!vars
  BY <1>1, <1>3, TruthIsTold
<1>4. ASSUME NEW handle \in Handle, CallRelease(t, handle) PROVE [Port!Next]_Port!vars
  <2>1. ASSUME NEW at \in {"recovering", "detaching"}, Begin(t, at, handle), UNCHANGED mapping
        PROVE  [Port!Next]_Port!vars
    BY <1>1, <2>1, BeginIsAsked DEF Step
  <2> QED
    BY <1>2, <1>3, <1>4, <2>1 DEF CallRelease, Result, Fault
<1>5. CASE Deletion(t)
  <2>1. Inside(t, Releasing) /\ call[t].handle \in Handle
    BY <1>5, CallHasParts
       DEF Deletion, DetachWorks, DetachFails, DeleteWorks, DeleteFails, Restore,
           RecoverWorks, RecoverFails, AtStep, Inside, Releasing
  <2>2. records[call[t].handle.id] = call[t].handle.run
    BY <2>1 DEF Knows, Uses, Inside
  <2>3. CASE DetachWorks(t) \/ DetachFails(t) \/ DeleteFails(t)
    BY <2>3, SilentIsUnseen DEF DetachWorks, DetachFails, DeleteFails
  <2>4. CASE DeleteWorks(t) \/ RecoverWorks(t)
    <3>1. PICK result \in {"ok", "isolation_failure"} :
            Answer(t, "release", call[t].handle, result, None)
      BY <2>4 DEF DeleteWorks, RecoverWorks
    <3> QED
      BY <1>2, <2>1, <2>2, <2>4, <3>1 DEF DeleteWorks, RecoverWorks
  <2>5. CASE Restore(t) \/ RecoverFails(t)
    BY <1>3, <2>1, <2>5 DEF Restore, RecoverFails, Fault, Result
  <2> QED
    BY <1>5, <2>3, <2>4, <2>5 DEF Deletion
<1> QED
  BY <1>4, <1>5 DEF Release

\* With identifiers that are never repeated, and nobody who takes names in the root,
\* every behaviour of the adapter is one the port allows: a run never has two
\* workspaces and every answer is true when it is given, through crashes, failed
\* deletions, tampering and commands at work.
THEOREM AdapterImplementsPort ==
    ASSUME ~Reissues, "intrude" \notin Environment
    PROVE  Spec => ImplementsPort
<1>1. Init => Port!Init
  BY DEF Init, Port!Init, Answers, Port!NoAnswer, NoReply
<1>2. WorkspaceInv /\ [Next]_vars => [Port!Next]_Port!vars
  <2> SUFFICES ASSUME WorkspaceInv, [Next]_vars PROVE [Port!Next]_Port!vars
    OBVIOUS
  <2>1. CASE Next
    <3>1. ASSUME NEW i \in Ids, Tamper(i) \/ Intrude(i) PROVE [Port!Next]_Port!vars
      BY <3>1, SilentIsUnseen DEF Tamper, Intrude
    <3>2. CASE Crash
      BY <3>2 DEF Crash, Port!Next, Port!Restart, Answers, Port!NoAnswer, NoReply
    <3> QED
      BY <2>1, <3>1, <3>2, PrepareAtPort, ReadingAtPort, ReleaseAtPort DEF Next
  <2>2. CASE UNCHANGED vars
    BY <2>2, SilentIsUnseen DEF vars, mapping
  <2> QED
    BY <2>1, <2>2
<1> QED
  BY <1>1, <1>2, WorkspaceInvariance, PTL DEF Spec, ImplementsPort, Port!Spec
=============================================================================
