----------------------------- MODULE StateStore -----------------------------
(***************************************************************************)
(* SQLiteStateStore and the clients that call it.  Each client is a        *)
(* process with its own connection to one database file.  A write runs     *)
(* under BEGIN IMMEDIATE on a private image of the database that the       *)
(* commit publishes; a read is two autocommit SELECTs, the run's row and   *)
(* then its journal, and another process may commit between them.          *)
(* A crash of a client, and any sqlite3 error, discards the private image. *)
(***************************************************************************)
EXTENDS Lifecycle

CONSTANTS
    Clients,      \* processes using the store
    Trusted,      \* Trusted[c]: the bindings client c holds validated inputs for
    Entries,      \* how clients obtain a stored checkpoint: load, resume, history
    Assembles,    \* TRUE when clients also hand-assemble StateUpdate values
    MaxRevision   \* bound on the journal's length

ASSUME StateStoreAssumption ==
    /\ Entries \subseteq {"load", "resume", "history"}
    /\ Assembles \in BOOLEAN
    /\ MaxRevision \in Nat
    /\ None \notin Clients
    /\ None \notin StateUpdate

VARIABLES
    db,      \* the committed database: alicerce_runs and alicerce_transitions
    work,    \* the image the open write transaction sees (db when none is open)
    lock,    \* the client holding SQLite's RESERVED lock, or None
    step,    \* where in its call each client is
    call,    \* the call's argument: an update, a checkpoint or a run
    row,     \* the alicerce_runs row a read fetched with its first SELECT
    held,    \* the checkpoint a client believes current, or None
    reply,   \* how the client's last call ended
    acked    \* ghost: [client, event] for every compare_and_append that returned

vars == <<db, work, lock, step, call, row, held, reply, acked>>
local == <<call, row, held, reply, acked>>

Database ==
    [runs : [RunIds -> RunRow \cup {None}],
     journal : [RunIds -> Seq(LifecycleTransition)]]

Steps == {"idle", "reading", "init_waiting", "init_inserting", "cas_waiting",
          "cas_checking", "cas_inserting", "cas_updating", "committing",
          "committed"}

TxnSteps == {"init_inserting", "cas_checking", "cas_inserting",
             "cas_updating", "committing"}

Replies == {"none", "ok", "absent", "already_exists", "not_found", "conflict",
            "corrupt", "storage_failure", "run_mismatch", "contract_mismatch",
            "baseline_mismatch", "policy_mismatch", "terminal_run"}

Call ==
    [op : {"none", "load", "resume", "history", "initialize",
           "compare_and_append"},
     run : RunIds \cup {None}, update : StateUpdate \cup {None}]

NoCall == [op |-> "none", run |-> None, update |-> None]

Init ==
    /\ db = [runs |-> [r \in RunIds |-> None],
             journal |-> [r \in RunIds |-> <<>>]]
    /\ work = db
    /\ lock = None
    /\ step = [c \in Clients |-> "idle"]
    /\ call = [c \in Clients |-> NoCall]
    /\ row = [c \in Clients |-> None]
    /\ held = [c \in Clients |-> None]
    /\ reply = [c \in Clients |-> "none"]
    /\ acked = {}

-----------------------------------------------------------------------------

\* A call returns, or raises, with cause, leaving the client holding cp.
\* The connection is closed, which ends whatever it still had open.
Finish(c, cause, cp) ==
    /\ step' = [step EXCEPT ![c] = "idle"]
    /\ call' = [call EXCEPT ![c] = NoCall]
    /\ row' = [row EXCEPT ![c] = None]
    /\ reply' = [reply EXCEPT ![c] = cause]
    /\ held' = [held EXCEPT ![c] = cp]

\* Mutant: the connection is closed but its writes are left behind.
Rollback_LeavesWrites(c) ==
    IF lock = c THEN lock' = None /\ UNCHANGED work ELSE UNCHANGED <<lock, work>>

\* rollback() of the client's transaction, when it has one.
Rollback(c) ==
    IF lock = c THEN lock' = None /\ work' = db ELSE UNCHANGED <<lock, work>>

Goto(c, s) == step' = [step EXCEPT ![c] = s]

(***************************************************************************)
(* load, history and load_run_for_resume.                                  *)
(***************************************************************************)

\* _connect and the first SELECT of _validated_run.
ReadRow(c, op, r) ==
    /\ step[c] = "idle"
    /\ IF db.runs[r] = None
       THEN Finish(c, IF op = "load" THEN "absent" ELSE "not_found", held[c])
       ELSE /\ Goto(c, "reading")
            /\ call' = [call EXCEPT ![c] = [op |-> op, run |-> r, update |-> None]]
            /\ row' = [row EXCEPT ![c] = db.runs[r]]
            /\ UNCHANGED <<held, reply>>
    /\ UNCHANGED <<db, work, lock, acked>>

\* Mutant: the policy binding is not compared.
ResumeVerdict_IgnoresPolicy(c, r, cp) ==
    IF cp.identity.run_id # r THEN "run_mismatch"
    ELSE IF cp.identity.contract # Trusted[c].contract THEN "contract_mismatch"
    ELSE IF cp.identity.baseline # Trusted[c].baseline THEN "baseline_mismatch"
    ELSE IF cp.lifecycle.state = "COMPLETED" THEN "terminal_run"
    ELSE "ok"

\* The checks of load_run_for_resume on a loaded checkpoint, in their order.
ResumeVerdict(c, r, cp) ==
    IF cp.identity.run_id # r THEN "run_mismatch"
    ELSE IF cp.identity.contract # Trusted[c].contract THEN "contract_mismatch"
    ELSE IF cp.identity.baseline # Trusted[c].baseline THEN "baseline_mismatch"
    ELSE IF cp.identity.policy # Trusted[c].policy THEN "policy_mismatch"
    ELSE IF cp.lifecycle.state = "COMPLETED" THEN "terminal_run"
    ELSE "ok"

\* The second SELECT, the replay of what it returns, and the caller's checks.
ReadJournal(c) ==
    LET r == call[c].run
        cp == row[c].checkpoint
    IN  /\ step[c] = "reading"
        /\ \/ /\ ~RunReplays(r, row[c], db.journal[r])
              /\ Finish(c, "corrupt", held[c])
           \/ /\ RunReplays(r, row[c], db.journal[r])
              /\ \/ call[c].op = "load" /\ Finish(c, "ok", cp)
                 \/ call[c].op = "history" /\ Finish(c, "ok", held[c])
                 \/ /\ call[c].op = "resume"
                    /\ Finish(c, ResumeVerdict(c, r, cp),
                              IF ResumeVerdict(c, r, cp) = "ok" THEN cp ELSE held[c])
        /\ UNCHANGED <<db, work, lock, acked>>

(***************************************************************************)
(* initialize.                                                             *)
(***************************************************************************)

\* The caller built the checkpoint itself and keeps it whatever the store
\* answers.  A checkpoint that is not the initial one is refused unopened.
CallInitialize(c, cp) ==
    /\ step[c] = "idle"
    /\ IF cp # InitialCheckpoint(cp.identity)
       THEN Finish(c, "conflict", cp)
       ELSE /\ Goto(c, "init_waiting")
            /\ call' = [call EXCEPT ![c] =
                  [op |-> "initialize", run |-> cp.identity.run_id, update |-> None]]
            /\ held' = [held EXCEPT ![c] = cp]
            /\ UNCHANGED <<row, reply>>
    /\ UNCHANGED <<db, work, lock, acked>>

\* BEGIN IMMEDIATE: take the RESERVED lock and see the committed database.
Begin(c) ==
    /\ lock = None
    /\ lock' = c
    /\ \/ step[c] = "init_waiting" /\ Goto(c, "init_inserting")
       \/ step[c] = "cas_waiting" /\ Goto(c, "cas_checking")
    /\ UNCHANGED <<db, work, local>>

\* Mutant: the connection waits for the lock without a timeout.
LockTimeout_Never(c) == step[c] = "init_waiting" /\ lock # lock /\ UNCHANGED vars

\* The busy timeout runs out while another connection holds the lock.
LockTimeout(c) ==
    /\ step[c] \in {"init_waiting", "cas_waiting"}
    /\ lock # None
    /\ Finish(c, "storage_failure", held[c])
    /\ UNCHANGED <<db, work, lock, acked>>

\* Mutant: INSERT OR REPLACE, so that an existing run is started afresh.
InsertRun_Replaces(c) ==
    /\ step[c] = "init_inserting"
    /\ work' = [work EXCEPT
          !.runs[call[c].run] = [identity |-> held[c].identity, checkpoint |-> held[c]],
          !.journal[call[c].run] = <<>>]
    /\ Goto(c, "committing")
    /\ UNCHANGED <<db, lock, local>>

\* INSERT of the run's row, unless a row for the run is already there.
InsertRun(c) ==
    LET r == call[c].run
    IN  /\ step[c] = "init_inserting"
        /\ IF work.runs[r] # None
           THEN /\ Finish(c, "already_exists", held[c])
                /\ Rollback(c)
           ELSE /\ work' = [work EXCEPT !.runs[r] =
                      [identity |-> held[c].identity, checkpoint |-> held[c]]]
                /\ Goto(c, "committing")
                /\ UNCHANGED <<lock, call, row, held, reply>>
        /\ UNCHANGED <<db, acked>>

(***************************************************************************)
(* compare_and_append.                                                     *)
(***************************************************************************)

\* The client prepares one update of the checkpoint it holds and submits it.
CallAppend(c, u) ==
    /\ step[c] = "idle"
    /\ held[c] = u.expected
    /\ u.event.revision <= MaxRevision
    /\ Goto(c, "cas_waiting")
    /\ call' = [call EXCEPT ![c] =
          [op |-> "compare_and_append", run |-> u.expected.identity.run_id,
           update |-> u]]
    /\ UNCHANGED <<db, work, lock, row, held, reply, acked>>

\* Mutant: an update found already applied is reported as a success.
CheckExpected_RetrySucceeds(c) ==
    LET current == work.runs[call[c].run]
        u == call[c].update
    IN  /\ step[c] = "cas_checking"
        /\ IF current = None
           THEN Finish(c, "not_found", held[c]) /\ Rollback(c)
           ELSE IF current.checkpoint = NextCheckpoint(u)
           THEN Goto(c, "committing") /\ UNCHANGED <<work, lock, call, row, held, reply>>
           ELSE IF current.checkpoint # u.expected
           THEN Finish(c, "conflict", held[c]) /\ Rollback(c)
           ELSE Goto(c, "cas_inserting") /\ UNCHANGED <<work, lock, call, row, held, reply>>
        /\ UNCHANGED <<db, acked>>

\* Mutant: the stored checkpoint is compared with the result, not with expected.
CheckExpected_ComparesResult(c) ==
    LET current == work.runs[call[c].run]
    IN  /\ step[c] = "cas_checking"
        /\ IF current = None
           THEN Finish(c, "not_found", held[c]) /\ Rollback(c)
           ELSE IF current.checkpoint # NextCheckpoint(call[c].update)
           THEN Finish(c, "conflict", held[c]) /\ Rollback(c)
           ELSE Goto(c, "cas_inserting") /\ UNCHANGED <<work, lock, call, row, held, reply>>
        /\ UNCHANGED <<db, acked>>

\* _validated_run inside the transaction, then the whole-checkpoint compare.
CheckExpected(c) ==
    LET r == call[c].run
        current == work.runs[r]
        refusal ==
            IF current = None THEN "not_found"
            ELSE IF ~RunReplays(r, current, work.journal[r]) THEN "corrupt"
            ELSE IF current.checkpoint # call[c].update.expected THEN "conflict"
            ELSE "none"
    IN  /\ step[c] = "cas_checking"
        /\ IF refusal # "none"
           THEN Finish(c, refusal, held[c]) /\ Rollback(c)
           ELSE /\ Goto(c, "cas_inserting")
                /\ UNCHANGED <<work, lock, call, row, held, reply>>
        /\ UNCHANGED <<db, acked>>

\* Mutant: the insert runs in autocommit, outside the transaction.
InsertTransition_Autocommits(c) ==
    /\ step[c] = "cas_inserting"
    /\ work' = [work EXCEPT !.journal[call[c].run] = Append(@, call[c].update.event)]
    /\ db' = work'
    /\ Goto(c, "cas_updating")
    /\ UNCHANGED <<lock, local>>

\* INSERT the transition; PRIMARY KEY (run_id, revision) refuses a second one.
InsertTransition(c) ==
    LET r == call[c].run
        event == call[c].update.event
        journal == work.journal[r]
    IN  /\ step[c] = "cas_inserting"
        /\ IF \E n \in DOMAIN journal : journal[n].revision = event.revision
           THEN Finish(c, "storage_failure", held[c]) /\ Rollback(c)
           ELSE /\ work' = [work EXCEPT !.journal[r] = Append(@, event)]
                /\ Goto(c, "cas_updating")
                /\ UNCHANGED <<lock, call, row, held, reply>>
        /\ UNCHANGED <<db, acked>>

\* Mutant: the journal is written but the checkpoint column keeps its value.
UpdateCheckpoint_Forgets(c) ==
    /\ step[c] = "cas_updating"
    /\ Goto(c, "committing")
    /\ UNCHANGED <<db, work, lock, local>>

\* Mutant: compare_and_append returns without commit(), and close() rolls back.
UpdateCheckpoint_NoCommit(c) ==
    /\ step[c] = "cas_updating"
    /\ lock' = None
    /\ work' = db
    /\ Goto(c, "committed")
    /\ UNCHANGED <<db, local>>

\* UPDATE the checkpoint column where it still holds the expected bytes.
UpdateCheckpoint(c) ==
    LET r == call[c].run
        u == call[c].update
    IN  /\ step[c] = "cas_updating"
        /\ IF work.runs[r] = None \/ work.runs[r].checkpoint # u.expected
           THEN Finish(c, "conflict", held[c]) /\ Rollback(c)
           ELSE /\ work' = [work EXCEPT !.runs[r] =
                      [@ EXCEPT !.checkpoint = NextCheckpoint(u)]]
                /\ Goto(c, "committing")
                /\ UNCHANGED <<lock, call, row, held, reply>>
        /\ UNCHANGED <<db, acked>>

\* commit() publishes both writes at once and releases the lock.
Commit(c) ==
    /\ step[c] = "committing"
    /\ db' = work
    /\ lock' = None
    /\ Goto(c, "committed")
    /\ UNCHANGED <<work, local>>

\* Mutant: the caller is handed the update instead of the new checkpoint.
Return_HandsUpdate(c) ==
    /\ step[c] = "committed"
    /\ Finish(c, "ok", call[c].update)
    /\ UNCHANGED <<db, work, lock, acked>>

\* The call returns to its caller; compare_and_append hands back the new
\* checkpoint.
Return(c) ==
    /\ step[c] = "committed"
    /\ IF call[c].op = "compare_and_append"
       THEN /\ Finish(c, "ok", NextCheckpoint(call[c].update))
            /\ acked' = acked \cup {[client |-> c, event |-> call[c].update.event]}
       ELSE /\ Finish(c, "ok", held[c])
            /\ UNCHANGED acked
    /\ UNCHANGED <<db, work, lock>>

(***************************************************************************)
(* Failures.                                                               *)
(***************************************************************************)

\* sqlite3 raises in the middle of a call: a lock timeout against a reader at
\* commit, an I/O error, a full disk.  The except clause rolls back.
StorageError(c) ==
    /\ step[c] \in TxnSteps \cup {"reading", "init_waiting", "cas_waiting"}
    /\ Finish(c, "storage_failure", held[c])
    /\ Rollback(c)
    /\ UNCHANGED <<db, acked>>

\* The process dies at any point of a call, or between calls, and restarts
\* with nothing: SQLite rolls its transaction back through the hot journal.
Crash(c) ==
    /\ step[c] # "idle" \/ held[c] # None
    /\ Finish(c, "none", None)
    /\ Rollback(c)
    /\ UNCHANGED <<db, acked>>

-----------------------------------------------------------------------------

Updates(cp) == IF Assembles THEN AssembledUpdates(cp) ELSE PreparedUpdates(cp)

BoundTo(identity, binding) ==
    /\ identity.contract = binding.contract
    /\ identity.baseline = binding.baseline
    /\ identity.policy = binding.policy

\* create_run_identity binds the inputs the client itself has validated.
OwnIdentities(c) == {id \in Identities : BoundTo(id, Trusted[c])}

StartCall(c) ==
    \/ \E op \in Entries, r \in RunIds : ReadRow(c, op, r)
    \/ \E id \in OwnIdentities(c) : CallInitialize(c, InitialCheckpoint(id))
    \/ held[c] # None /\ CallInitialize(c, held[c])
    \/ held[c] # None /\ \E u \in Updates(held[c]) : CallAppend(c, u)

\* The steps a started call takes on its own.
Proceed(c) ==
    \/ ReadJournal(c)
    \/ Begin(c)
    \/ LockTimeout(c)
    \/ InsertRun(c)
    \/ CheckExpected(c)
    \/ InsertTransition(c)
    \/ UpdateCheckpoint(c)
    \/ Commit(c)
    \/ Return(c)

Next ==
    \E c \in Clients :
        StartCall(c) \/ Proceed(c) \/ StorageError(c) \/ Crash(c)

Spec == Init /\ [][Next]_vars

\* A started call keeps running: the interpreter is scheduled, and SQLite's busy
\* timeout bounds the wait for the lock.
FairSpec == Spec /\ \A c \in Clients : WF_vars(Proceed(c))

-----------------------------------------------------------------------------
(***************************************************************************)
(* Properties.                                                             *)
(***************************************************************************)

TypeOK ==
    /\ db \in Database
    /\ work \in Database
    /\ lock \in Clients \cup {None}
    /\ step \in [Clients -> Steps]
    /\ call \in [Clients -> Call]
    /\ row \in [Clients -> RunRow \cup {None}]
    /\ held \in [Clients -> RunCheckpoint \cup {None}]
    /\ reply \in [Clients -> Replies]
    /\ acked \subseteq [client : Clients, event : LifecycleTransition]

\* The committed database always replays: every run row agrees with its journal
\* and every journal is one valid history.  The insert and the update must reach
\* the file together, whatever fails or dies between them.
StoreConsistent ==
    \A r \in RunIds :
        /\ db.runs[r] = None => db.journal[r] = <<>>
        /\ db.runs[r] # None => RunReplays(r, db.runs[r], db.journal[r])

\* An update compare_and_append returned for is in the journal for good, at its
\* revision, whatever crashed since.
AckedDurable ==
    \A a \in acked :
        LET journal == db.journal[a.event.run_id]
        IN  /\ a.event.revision \in DOMAIN journal
            /\ journal[a.event.revision] = a.event

\* Of the clients racing from one checkpoint at most one is told it won.
OneWinner ==
    \A a, b \in acked :
        a.event.run_id = b.event.run_id /\ a.event.revision = b.event.revision
            => a = b

\* A run's recorded past is never rewritten: the identity stays, the journal
\* only grows, by one event at a time, and a completed run stays as it is.
RunNeverRewritten ==
    [][\A r \in RunIds : db.runs[r] # None =>
          /\ db'.runs[r] # None
          /\ db'.runs[r].identity = db.runs[r].identity
          /\ \/ db'.journal[r] = db.journal[r]
             \/ /\ db.runs[r].checkpoint.lifecycle.state # "COMPLETED"
                /\ Len(db'.journal[r]) = Len(db.journal[r]) + 1
                /\ SubSeq(db'.journal[r], 1, Len(db.journal[r])) = db.journal[r]
      ]_vars

\* A read that succeeds hands out the checkpoint that is current when it
\* returns, although the row was fetched by an earlier SELECT.
ReadReturnsCurrent ==
    [][\A c \in Clients :
          step[c] = "reading" /\ reply'[c] = "ok" /\ step'[c] = "idle"
              /\ call[c].op \in {"load", "resume"}
          => held'[c] = db.runs[call[c].run].checkpoint]_vars

\* A compare_and_append is refused as a conflict only when the run has moved past
\* the expected checkpoint or was bound to another identity: a client is never
\* refused while it is right, and never holds a checkpoint from the future.
ConflictMeansOvertaken ==
    [][\A c \in Clients :
          step[c] \in TxnSteps /\ step'[c] = "idle" /\ reply'[c] = "conflict"
          => LET expected == call[c].update.expected
                 current == db.runs[call[c].run].checkpoint
             IN  \/ current.identity # expected.identity
                 \/ current.lifecycle.revision > expected.lifecycle.revision
      ]_vars

\* A sound store reports corruption only to a read that another client's commit
\* overtook between its two SELECTs; a transaction never sees it.
CorruptOnlyWhenTorn ==
    [][\A c \in Clients :
          reply'[c] = "corrupt" /\ reply[c] # "corrupt"
          => step[c] = "reading" /\ row[c] # db.runs[call[c].run]]_vars

\* Clients that read stored checkpoints only through load_run_for_resume never
\* extend a run bound to another contract, baseline or policy than their own.
OnlyOwnBindingExtended ==
    \A a \in acked : BoundTo(db.runs[a.event.run_id].identity, Trusted[a.client])

\* load and history never call an intact store corrupt.
IntactStoreNeverCorrupt == \A c \in Clients : reply[c] # "corrupt"

\* Every accepted transition is one the lifecycle policy allows.
AcceptedTransitionsAllowed ==
    \A r \in RunIds : \A n \in DOMAIN db.journal[r] :
        db.journal[r][n].to_state \in AllowedNext[db.journal[r][n].from_state]

\* Every call returns: the lock is handed on or the wait for it times out.
CallsReturn ==
    \A c \in Clients : step[c] # "idle" ~> step[c] = "idle"

(***************************************************************************)
(* The inductive invariant of StateStoreProofs: what a client's call holds *)
(* at each of its steps, and by what the open transaction's image differs  *)
(* from the committed database.                                            *)
(***************************************************************************)
Reading(c) ==
    /\ call[c].op \in {"load", "resume", "history"}
    /\ call[c].run \in RunIds
    /\ row[c] \in RunRow

Initializing(c) ==
    /\ call[c].op = "initialize"
    /\ held[c] \in RunCheckpoint
    /\ held[c] = InitialCheckpoint(held[c].identity)
    /\ call[c].run = held[c].identity.run_id

Appending(c) ==
    /\ call[c].op = "compare_and_append"
    /\ call[c].update \in StateUpdate
    /\ call[c].run = call[c].update.expected.identity.run_id
    /\ Assembles \/ EventReplays(call[c].update.expected.lifecycle,
                                 call[c].update.event)

CallInv ==
    \A c \in Clients :
        /\ step[c] = "reading" => Reading(c)
        /\ step[c] \in {"init_waiting", "init_inserting"} => Initializing(c)
        /\ step[c] \in {"cas_waiting", "cas_checking", "cas_inserting",
                        "cas_updating"} => Appending(c)
        /\ step[c] \in {"committing", "committed"} =>
              Initializing(c) \/ Appending(c)

\* The image after the insert, and after the update, of the call of client c.
Inserted(c) ==
    [db EXCEPT !.journal[call[c].run] = Append(@, call[c].update.event)]

Updated(c) ==
    [Inserted(c) EXCEPT !.runs[call[c].run] =
        [@ EXCEPT !.checkpoint = NextCheckpoint(call[c].update)]]

Created(c) ==
    [db EXCEPT !.runs[call[c].run] =
        [identity |-> held[c].identity, checkpoint |-> held[c]]]

ExpectedIsCommitted(c) ==
    /\ db.runs[call[c].run] # None
    /\ db.runs[call[c].run].checkpoint = call[c].update.expected

TxnAt(c) ==
    /\ step[c] \in {"init_inserting", "cas_checking"} => work = db
    /\ step[c] = "cas_inserting" => work = db /\ ExpectedIsCommitted(c)
    /\ step[c] = "cas_updating" =>
          work = Inserted(c) /\ ExpectedIsCommitted(c)
    /\ step[c] = "committing" =>
          \/ /\ Initializing(c)
             /\ db.runs[call[c].run] = None
             /\ work = Created(c)
          \/ /\ Appending(c)
             /\ ExpectedIsCommitted(c)
             /\ work = Updated(c)

TxnInv ==
    /\ lock = None => work = db
    /\ \A c \in Clients :
        /\ lock = c <=> step[c] \in TxnSteps
        /\ TxnAt(c)

\* An update that is committed but not yet acknowledged.
Landed(c) == step[c] = "committed" /\ call[c].op = "compare_and_append"

SameSlot(e, f) == e.run_id = f.run_id /\ e.revision = f.revision

InJournal(e) ==
    /\ e.revision \in DOMAIN db.journal[e.run_id]
    /\ db.journal[e.run_id][e.revision] = e

AckInv ==
    /\ \A a \in acked : InJournal(a.event)
    /\ \A a, b \in acked : SameSlot(a.event, b.event) => a = b
    /\ \A c \in Clients : Landed(c) =>
        /\ InJournal(call[c].update.event)
        /\ \A a \in acked : ~SameSlot(a.event, call[c].update.event)
        /\ \A d \in Clients \ {c} : Landed(d) =>
              ~SameSlot(call[d].update.event, call[c].update.event)

Inv == TypeOK /\ CallInv /\ TxnInv /\ StoreConsistent

(***************************************************************************)
(* The store implements the atomic register: a write takes effect at its   *)
(* commit, and everything before it is invisible.                          *)
(***************************************************************************)
Checkpoints ==
    [r \in RunIds |-> IF db.runs[r] = None THEN None ELSE db.runs[r].checkpoint]

PhaseOf(s) ==
    CASE s = "idle"      -> "idle"
      [] s = "committed" -> "applied"
      [] OTHER           -> "pending"

Phases == [c \in Clients |-> PhaseOf(step[c])]

Register == INSTANCE CheckpointRegister WITH
    register <- Checkpoints,
    phase <- Phases,
    request <- call,
    known <- held,
    outcome <- reply

\* Every behaviour of the store is one of the atomic register.
ImplementsRegister == Register!Spec

=============================================================================
