------------------------------ MODULE StateFile ------------------------------
(***************************************************************************)
(* The database file of SQLiteStateStore as bytes: how processes open it   *)
(* and create its schema at the same time, how the record of a run goes    *)
(* from contract bytes into the file and back, and what the store makes of *)
(* a file that was damaged from outside.  Opening is modelled statement by *)
(* statement; the other calls are one transaction each, since StateStore   *)
(* has their steps.                                                        *)
(***************************************************************************)
EXTENDS StateCodec, ContractBinding, SequencesExt

CONSTANTS
    Clients,      \* processes that use the file
    Policies,     \* the digests of trusted policies
    Found,        \* the schemas a file may have before anyone opens it
    Bindings,     \* triples clients try to bind a run to
    Spoilt,       \* values a damaged field may hold
    MaxRevision,  \* bound on the journal's length
    MaxDamage     \* bound on the number of damaged cells

Tables == {"alicerce_runs", "alicerce_transitions"}
Complete == [version |-> 1, tables |-> Tables]

\* A digest is a text of the right format, and so are the identifiers of a contract
\* that the validator of the schemas package accepts.
ASSUME StateFileAssumption ==
    /\ Found \subseteq [version : Nat, tables : SUBSET Tables]
    /\ None \notin Clients
    /\ Policies \subseteq Digests
    /\ \A x \in Spoilt : Shaped(x)
    /\ \A b \in Bindings : b.source \in Sources
    /\ \A s \in Sources : Sha256[s] \in Digests
    /\ \A v \in DOMAIN ContractOf :
          ContractOf[v].id \in ContractIds /\ ContractOf[v].version \in ContractVersions

VARIABLES
    origin,    \* the schema the file was found with
    schema,    \* the committed schema
    draft,     \* the schema as the open transaction sees it
    lock,      \* the process in that transaction, or None
    conn,      \* where each process is in opening the store
    runs,      \* alicerce_runs: identity and checkpoint bytes of the runs there are
    journal,   \* alicerce_transitions of each run, by revision
    held,      \* the checkpoint a caller was last given, or None
    resumed,   \* the run and the contract bytes of the last call if it resumed, or None
    damage,    \* ghost: the number of damaged cells
    genuine    \* ghost: source, checkpoint and events as they were written

opening == <<origin, schema, draft, lock, conn>>
content == <<runs, journal, genuine>>
caller == <<held, resumed>>
vars == <<opening, content, caller, damage>>

Init ==
    /\ origin \in Found
    /\ schema = origin /\ draft = origin
    /\ lock = None
    /\ conn = [c \in Clients |-> "closed"]
    /\ runs = <<>>
    /\ journal = [r \in RunIds |-> <<>>]
    /\ genuine = <<>>
    /\ held = None
    /\ resumed = None
    /\ damage = 0

-----------------------------------------------------------------------------
(* _initialize_schema. *)

Goto(c, s) == conn' = [conn EXCEPT ![c] = s]

\* The constructor raises, or its process dies; an open transaction is rolled back.
OpenFails(c) ==
    /\ Goto(c, "closed")
    /\ IF lock = c THEN lock' = None /\ draft' = schema ELSE UNCHANGED <<lock, draft>>
    /\ UNCHANGED <<origin, schema, content, caller, damage>>

Open(c) ==
    /\ conn[c] = "closed"
    /\ Goto(c, "waiting")
    /\ UNCHANGED <<origin, schema, draft, lock, content, caller, damage>>

\* BEGIN IMMEDIATE.
BeginOpen(c) ==
    /\ conn[c] = "waiting" /\ lock = None
    /\ lock' = c /\ Goto(c, "reading")
    /\ UNCHANGED <<origin, schema, draft, content, caller, damage>>

\* Mutant: the connection waits for the lock without a timeout.
LockTimeout_Never(c) == conn[c] = "waiting" /\ lock # lock /\ OpenFails(c)

\* The busy timeout runs out while another connection holds the lock.
LockTimeout(c) == conn[c] = "waiting" /\ lock # None /\ OpenFails(c)

\* PRAGMA user_version: a new file, a file of this version, or neither.
ReadVersion(c) ==
    /\ conn[c] = "reading"
    /\ \/ /\ draft.version = 0 /\ Goto(c, "creating_runs")
          /\ UNCHANGED <<origin, schema, draft, lock, content, caller, damage>>
       \/ /\ draft.version = 1 /\ Goto(c, "committing")
          /\ UNCHANGED <<origin, schema, draft, lock, content, caller, damage>>
       \/ draft.version \notin {0, 1} /\ OpenFails(c)

\* CREATE TABLE, refused when there is a table of that name.
CreateTable(c, at, table, then) ==
    /\ conn[c] = at
    /\ \/ table \in draft.tables /\ OpenFails(c)
       \/ /\ table \notin draft.tables
          /\ draft' = [draft EXCEPT !.tables = @ \cup {table}]
          /\ Goto(c, then)
          /\ UNCHANGED <<origin, schema, lock, content, caller, damage>>

CreateRuns(c) == CreateTable(c, "creating_runs", "alicerce_runs", "creating_transitions")

\* Mutant: the second table is created after the first has been committed.
CreateTransitions_Commits(c) ==
    /\ conn[c] = "creating_transitions"
    /\ schema' = draft
    /\ draft' = [draft EXCEPT !.tables = Tables]
    /\ Goto(c, "stamping")
    /\ UNCHANGED <<origin, lock, content, caller, damage>>

CreateTransitions(c) ==
    CreateTable(c, "creating_transitions", "alicerce_transitions", "stamping")

\* PRAGMA user_version = 1.
Stamp(c) ==
    /\ conn[c] = "stamping"
    /\ draft' = [draft EXCEPT !.version = 1]
    /\ Goto(c, "committing")
    /\ UNCHANGED <<origin, schema, lock, content, caller, damage>>

CommitOpen(c) ==
    /\ conn[c] = "committing"
    /\ schema' = draft
    /\ lock' = None
    /\ Goto(c, "open")
    /\ UNCHANGED <<origin, draft, content, caller, damage>>

\* sqlite3 raises while the store is opened (an I/O error, a full disk, a commit
\* that cannot wait for a reader), or the process dies, then or later.
\* Opening looks at the schema alone: the bound is that it is over when the content
\* is damaged, and that nobody reconnects afterwards.
Settled == \A c \in Clients : conn[c] = "open"
OpenError(c) == conn[c] # "closed" /\ damage = 0 /\ OpenFails(c)

OpenStep(c) ==
    \/ BeginOpen(c) \/ LockTimeout(c) \/ ReadVersion(c) \/ CreateRuns(c)
    \/ CreateTransitions(c) \/ Stamp(c) \/ CommitOpen(c)

-----------------------------------------------------------------------------
(* _validated_run on the stored bytes. *)

Decoded(r) == [identity |-> IdentityOf(runs[r].identity),
               checkpoint |-> CheckpointOf(runs[r].checkpoint)]
Events(r) == [n \in DOMAIN journal[r] |-> TransitionOf(journal[r][n].transition)]

\* Mutant: the stored checkpoint is believed as it is.
Validated_TrustsCheckpoint(r) ==
    /\ IdentityAccepted(runs[r].identity)
    /\ CheckpointAccepted(runs[r].checkpoint)
    /\ \A n \in DOMAIN journal[r] :
        /\ journal[r][n].revision = n
        /\ TransitionAccepted(journal[r][n].transition)
    /\ RunReplays_SkipsCheckpoint(r, Decoded(r), Events(r))

\* Otherwise the run is reported as corrupt: LifecycleError and the errors of
\* the codec are ValueErrors.
Validated(r) ==
    /\ IdentityAccepted(runs[r].identity)
    /\ CheckpointAccepted(runs[r].checkpoint)
    /\ \A n \in DOMAIN journal[r] :
        /\ journal[r][n].revision = n
        /\ TransitionAccepted(journal[r][n].transition)
    /\ RunReplays(r, Decoded(r), Events(r))

\* What a read of run r ends in, once both tables can be selected from.
ReadResult(r, absent) ==
    IF schema.tables # Tables THEN "storage_failure"
    ELSE IF r \notin DOMAIN runs THEN absent
    ELSE IF ~Validated(r) THEN "corrupt"
    ELSE "ok"

Ready == \E c \in Clients : conn[c] = "open"

LoadRun(r) ==
    /\ Ready
    /\ held' = IF ReadResult(r, "absent") = "ok" THEN Decoded(r).checkpoint ELSE held
    /\ resumed' = None
    /\ UNCHANGED <<opening, content, damage>>

\* Mutant: a contract is recognised by its name and version.
ResumeVerdict_ByName(cp, b, baseline, policy) ==
    IF \/ cp.identity.contract_id # b.contract.id
       \/ cp.identity.contract_version # b.contract.version
    THEN "contract_mismatch"
    ELSE IF cp.identity.baseline_sha # baseline THEN "baseline_mismatch"
    ELSE IF cp.identity.policy_hash # policy THEN "policy_mismatch"
    ELSE IF cp.lifecycle.state = "COMPLETED" THEN "terminal_run"
    ELSE "ok"

\* load_run_for_resume's checks of what load returned.
ResumeVerdict(cp, b, baseline, policy) ==
    IF \/ cp.identity.contract_id # b.contract.id
       \/ cp.identity.contract_version # b.contract.version
       \/ cp.identity.contract_hash # b.hash
    THEN "contract_mismatch"
    ELSE IF cp.identity.baseline_sha # baseline THEN "baseline_mismatch"
    ELSE IF cp.identity.policy_hash # policy THEN "policy_mismatch"
    ELSE IF cp.lifecycle.state = "COMPLETED" THEN "terminal_run"
    ELSE "ok"

ResumeRun(r, b, baseline, policy) ==
    LET read == ReadResult(r, "not_found")
        verdict == IF read # "ok" THEN read
                   ELSE ResumeVerdict(Decoded(r).checkpoint, b, baseline, policy)
    IN  /\ Ready /\ BindingCause(b) = "ok"
        /\ IF verdict = "ok"
           THEN /\ held' = Decoded(r).checkpoint
                /\ resumed' = [run |-> r, source |-> b.source]
           ELSE resumed' = None /\ UNCHANGED held
        /\ UNCHANGED <<opening, content, damage>>

-----------------------------------------------------------------------------
(* Writes. *)

\* create_run_identity.
IdentityFor(b, r, baseline, policy, now) ==
    [run_id |-> r, contract_id |-> b.contract.id, contract_version |-> b.contract.version,
     contract_hash |-> b.hash, baseline_sha |-> baseline, policy_hash |-> policy,
     created_at |-> now]

\* INSERT of a row whose key the table does not have yet.
Insert(table, key, row) ==
    [k \in DOMAIN table \cup {key} |-> IF k = key THEN row ELSE table[k]]

\* Bind a contract, create the run's identity and initialize it.  A binding that
\* is refused raises before anything else; bytes that cannot be encoded raise
\* inside the transaction, which closing the connection rolls back.
StartRun(b, r, baseline, policy, now) ==
    LET identity == IdentityFor(b, r, baseline, policy, now)
        cp == InitialCheckpoint(identity)
        result == IF BindingCause(b) # "ok" THEN BindingCause(b)
                  ELSE IF schema.tables # Tables THEN "storage_failure"
                  ELSE IF r \in DOMAIN runs THEN "already_exists"
                  ELSE IF ~Encodable(identity) THEN "unserializable"
                  ELSE "ok"
    IN  /\ Ready /\ lock = None
        /\ IF result = "ok"
           THEN /\ runs' = Insert(runs, r, [identity |-> SerializeIdentity(identity),
                                            checkpoint |-> SerializeCheckpoint(cp)])
                /\ genuine' = Insert(genuine, r,
                      [source |-> b.source, checkpoint |-> cp, events |-> <<>>])
                /\ held' = cp
           ELSE UNCHANGED <<runs, genuine, held>>
        /\ resumed' = None
        /\ UNCHANGED <<opening, journal, damage>>

\* compare_and_append: the compare of the values, the primary key of the insert,
\* and the compare of the bytes in the UPDATE.
AppendResult(u) ==
    LET r == u.expected.identity.run_id
        read == ReadResult(r, "not_found")
    IN  IF read # "ok" THEN read
        ELSE IF Decoded(r).checkpoint # u.expected THEN "conflict"
        ELSE IF \E n \in DOMAIN journal[r] : journal[r][n].revision = u.event.revision
        THEN "storage_failure"
        ELSE IF runs[r].checkpoint # SerializeCheckpoint(u.expected) THEN "conflict"
        ELSE "ok"

AppendTransition(u) ==
    LET r == u.expected.identity.run_id
    IN  /\ Ready /\ lock = None
        /\ u.event.revision <= MaxRevision
        /\ IF AppendResult(u) = "ok"
           THEN /\ journal' = [journal EXCEPT ![r] =
                      Append(@, [revision |-> u.event.revision,
                                 transition |-> SerializeTransition(u.event)])]
                /\ runs' = [runs EXCEPT ![r].checkpoint =
                      SerializeCheckpoint(NextCheckpoint(u))]
                /\ genuine' = [genuine EXCEPT ![r] =
                      [source |-> @.source, checkpoint |-> NextCheckpoint(u),
                       events |-> Append(@.events, u.event)]]
                /\ held' = NextCheckpoint(u)
           ELSE UNCHANGED <<content, held>>
        /\ resumed' = None
        /\ UNCHANGED <<opening, damage>>

-----------------------------------------------------------------------------
(***************************************************************************)
(* Damage from outside: bytes laid out differently or cut, one field       *)
(* replaced, missing or added, the bytes of another cell, a lost row of    *)
(* the journal.  The tables stay STRICT: a cell holds bytes.               *)
(***************************************************************************)
AlteredFields(f) ==
    {[f EXCEPT ![k] = x] : k \in DOMAIN f, x \in Spoilt}
        \cup {Restrict(f, DOMAIN f \ {k}) : k \in DOMAIN f}
        \cup {[k \in DOMAIN f \cup {"extra"} |-> IF k = "extra" THEN Null ELSE f[k]]}

\* The identity inside a checkpoint is a document of its own.
Altered(f) ==
    AlteredFields(f) \cup
    (IF "identity" \in DOMAIN f /\ Kind(f.identity) = "object"
     THEN {[f EXCEPT !.identity = Object(g)] : g \in AlteredFields(Fields(f.identity))}
     ELSE {})

RunBytes == UNION {{runs[r].identity, runs[r].checkpoint} : r \in DOMAIN runs}
EventBytes == UNION {{journal[r][n].transition : n \in DOMAIN journal[r]} : r \in RunIds}
StoredBytes == RunBytes \cup EventBytes

Spoils(data) ==
    {Bytes(layout, data.value) : layout \in Layouts} \cup {Dump(Null)}
        \cup (IF Kind(data.value) = "object"
              THEN {Dump(Object(f)) : f \in Altered(Fields(data.value))} ELSE {})
        \cup StoredBytes

Damage(r) ==
    /\ Settled /\ damage < MaxDamage
    /\ \/ /\ \E x \in Spoils(runs[r].identity) : runs' = [runs EXCEPT ![r].identity = x]
          /\ UNCHANGED journal
       \/ /\ \E x \in Spoils(runs[r].checkpoint) : runs' = [runs EXCEPT ![r].checkpoint = x]
          /\ UNCHANGED journal
       \/ /\ \E n \in DOMAIN journal[r] : \E x \in Spoils(journal[r][n].transition) :
                journal' = [journal EXCEPT ![r][n].transition = x]
          /\ UNCHANGED runs
       \/ /\ \E n \in DOMAIN journal[r] :
                journal' = [journal EXCEPT ![r] = RemoveAt(@, n)]
          /\ UNCHANGED runs
    /\ <<runs', journal'>> # <<runs, journal>>
    /\ damage' = damage + 1
    /\ UNCHANGED <<opening, genuine, caller>>

-----------------------------------------------------------------------------
Use ==
    \/ \E r \in RunIds : LoadRun(r)
    \/ \E r \in RunIds, b \in Bindings, baseline \in BaselineShas, policy \in Policies :
        \/ ResumeRun(r, b, baseline, policy)
        \/ \E now \in Instants : StartRun(b, r, baseline, policy, now)
    \/ held # None /\ \E u \in PreparedUpdates(held) : AppendTransition(u)

Next ==
    \/ \E c \in Clients : Open(c) \/ OpenStep(c) \/ OpenError(c)
    \/ Use
    \/ \E r \in DOMAIN runs : Damage(r)

Spec == Init /\ [][Next]_vars

\* A constructor that was called runs on; SQLite's busy timeout bounds its wait.
FairSpec == Spec /\ \A c \in Clients : WF_vars(OpenStep(c))

-----------------------------------------------------------------------------
(* Properties. *)

\* The schema in the file is the one it was found with or the complete one,
\* and the latter only where none was set: whatever fails or dies while processes
\* open the file together, no half of a schema is committed and a file of
\* another version is left alone (_initialize_schema).
SchemaAllOrNothing ==
    schema = origin \/ (schema = Complete /\ origin.version = 0)

\* Bytes that _validated_run accepts are exactly the bytes the store itself would
\* write for the values it reads from them, however the file was damaged: an
\* update whose expected checkpoint equals the stored one therefore never
\* misses its row in UPDATE ... WHERE checkpoint = ?.
AcceptedBytesAreCanonical ==
    \A r \in DOMAIN runs :
        Validated(r) =>
            /\ SerializeIdentity(Decoded(r).identity) = runs[r].identity
            /\ SerializeCheckpoint(Decoded(r).checkpoint) = runs[r].checkpoint
            /\ \A n \in DOMAIN journal[r] :
                SerializeTransition(Events(r)[n]) = journal[r][n].transition

\* What was written and not damaged can be read: an intact run is never called
\* corrupt, except for timestamps before the year 1000.
IntactIsReadable ==
    \A r \in DOMAIN runs :
        /\ damage = 0
        /\ ShortYears \cap ({genuine[r].checkpoint.identity.created_at}
                            \cup {e.occurred_at : e \in Range(genuine[r].events)}) = {}
        => Validated(r)

\* One damaged cell never forges a checkpoint: what the store still serves is the
\* checkpoint that was written, because identity, checkpoint and journal vouch for
\* each other.  In the history it can change who did something and when, and
\* nothing else.
OneDamageForgesNothing ==
    \A r \in DOMAIN runs :
        Validated(r) =>
            /\ Decoded(r).checkpoint = genuine[r].checkpoint
            /\ Len(journal[r]) = Len(genuine[r].events)
            /\ \A n \in DOMAIN journal[r] :
                Events(r)[n] = [genuine[r].events[n] EXCEPT
                                    !.actor = Events(r)[n].actor,
                                    !.occurred_at = Events(r)[n].occurred_at]

\* A run is only resumed with the very bytes of the contract it was started with,
\* however it got into the file and back: a reformatted copy of the same contract,
\* or one that shares its name and version, does not do.
ResumedFromSameBytes ==
    resumed # None => genuine[resumed.run].source = resumed.source

\* Opening the store always comes to an end.
OpeningReturns ==
    \A c \in Clients : conn[c] = "waiting" ~> conn[c] \in {"open", "closed"}
=============================================================================
