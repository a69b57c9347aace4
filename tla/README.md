# TLA+ verification of Alicerce

Alicerce is the trusted core of a loop that builds and verifies software
changes: it keeps the durable state of a run, prepares an isolated Git workspace
for it, authorizes each command against the run's policy and executes it in a
sandbox with bounded output and time. This directory models that core in TLA+,
checks it with TLC on small instances, and proves the results that matter most
with TLAPS for instances of every size.

Paths of the code below are relative to `src/src/alicerce/`.

## 1. Inventory

| Component | State it keeps | Operations | What is hard, and what makes it correct |
|---|---|---|---|
| Run lifecycle (`domain/lifecycle.py`, `application/lifecycle.py`) | none: values | `start_lifecycle`, `advance_lifecycle` | seven states, guards in a fixed order; completed is final, time does not go back, a final state comes with completion and only with it |
| Checkpoints and updates (`domain/state.py`, `application/state.py`) | none: values | `RunCheckpoint`, `StateUpdate`, `prepare_state_update` | an update has to connect two checkpoints; only the prepared ones are also checked against the transition table |
| State store port (`ports/state_store.py`) | one checkpoint and history per run | `initialize`, `load`, `compare_and_append`, `history` | every operation takes effect at one instant or not at all |
| SQLite store (`adapters/local/sqlite_state_store.py`) | two tables of a database file that processes share | the same, with `_validated_run` | write transactions, two-statement reads, lost races, lock timeouts, errors at any statement, death at any moment: nothing acknowledged is lost, nothing half done is seen, one racer wins |
| Resume (`application/resume.py`) | none | `load_run_for_resume` | what was validated may be stale when it is used; a run bound to other inputs must not be extended |
| Run identity, contract binding (`domain/run_identity.py`, `domain/contract_binding.py`, and their use cases) | none | `BoundContract`, `from_json_bytes`, `create_run_identity` | a run is bound to exact bytes, not to what they parse to: the same contract in another layout is another contract |
| Git workspace (`adapters/local/git_workspace.py`, `ports/workspace.py`, `domain/workspace.py`) | `_records`, `_run_index`, a re-entrant lock; directories under a root | `prepare`, `load`, `snapshot`, `release`, `execution_lease` | multi-step operations on a disk others can touch, each with a roll-back that may fail; a lock held while foreign code runs; a mapping that dies with the process while the directories do not |
| Controlled Git CLI (`adapters/local/git_cli.py`) | one subprocess per call | `materialize_baseline`, `verify_baseline`, `snapshot_candidate`, `_capture_bounded` | two pipes, a deadline and a common ceiling |
| Process sandbox (`adapters/local/linux_process_sandbox.py`, `process_sandbox.py`) | one process tree per call | `supports`, `execute`, `_terminate_tree` | output, ends of streams, exit and deadline in any order; commands that ignore SIGTERM; nothing runs after the report |
| Command policy (`domain/command_policy.py`, `domain/command.py`) | none | `CommandPolicy`, `_matching_rule`, `authorize_command` | successive filters must amount to "one rule covers it all" |
| Command executor (`adapters/local/command_executor.py`, `ports/command_executor.py`, `application/command_execution.py`) | the registry of trusted executables | `execute` | check, use, check again across a lease; every failure translated to a stable cause |
| State serialization (`adapters/local/state_serialization.py`) | none | to and from canonical bytes | one encoding per value, in both directions: the store compares bytes; bytes from a damaged file must not be taken for something nobody wrote |
| Evidence serialization (`adapters/local/evidence_serialization.py`) | none | `build_command_result`, `serialize_evidence`, hashes | a command must be recorded as what happened, no two facts as the same bytes, and nothing that was executed lost for formal reasons |

How they interact: a client creates a run identity, `initialize`s it in the store
and moves it on with `prepare_state_update` and `compare_and_append`, after a
`load` or `load_run_for_resume`. The executor reauthorizes a command with the
policy, takes an `execution_lease` of the workspace adapter, calls the sandbox
inside it, and leaves the lease; the workspace adapter calls the Git CLI, which
has a capture loop of the same build as the sandbox's. The store is shared by
processes; the workspace adapter and the executor by threads of one process.

The hazards in `PROJECT.json` list, line by line, what could go wrong in this and
would hardly be reached by a test; the properties below are aimed at them.

## 2. Modules

| Module | Models | Extends / uses |
|---|---|---|
| `Lifecycle` | lifecycle policy, checkpoints, updates, the replay of a journal, as pure operators | |
| `StateStore` | SQLite store and the processes that use it, resume included | `Lifecycle`; `INSTANCE CheckpointRegister` |
| `CheckpointRegister` | what the state store port promises | `Lifecycle` |
| `LifecycleProofs` | lemmas about values, journals and replay | `Lifecycle`, `TLAPS` |
| `StateStoreProofs` | safety theorems about `StateStore` | `StateStore`, `LifecycleProofs` |
| `StateStoreRefinement` | what clients hold and are told, and the refinement of `CheckpointRegister` | `StateStoreProofs` |
| `JsonBytes` | byte strings as the decoders tell them apart: a JSON value and its layout | |
| `StateCodec` | identity, checkpoint and transition to and from bytes | `Lifecycle`, `JsonBytes` |
| `ContractBinding` | source bytes, contract and digest bound together | `JsonBytes` |
| `StateFile` | the database file: opening and schema, the path of a run from contract bytes into the file and back, damage | `StateCodec`, `ContractBinding` |
| `StateFileProofs` | theorems about `StateFile` and the lemmas about the codec | `StateFile`, `LifecycleProofs` |
| `GitWorkspace` | workspace adapter over its disk | `INSTANCE WorkspacePort` |
| `WorkspacePort` | what the workspace port promises | |
| `GitWorkspaceProofs` | theorems about `GitWorkspace` and the refinement of `WorkspacePort` | `GitWorkspace`, `TLAPS` |
| `ProcessCapture` | the capture loops of the sandbox and of the Git CLI, with the process tree | |
| `Evidence` | command results and complete evidence: what is accepted, and the bytes | `JsonBytes` |
| `CommandRecord` | from a process to the evidence of it | `ProcessCapture`, `Evidence` |
| `CommandRecordProofs` | theorems about `ProcessCapture`, `Evidence` and `CommandRecord` | `CommandRecord`, `TLAPS` |
| `CommandPolicy` | `_matching_rule` and what it amounts to, as pure operators | |
| `CommandPlanning` | a planner that submits requests and asks for less | `CommandPolicy` |
| `CommandPolicyProofs` | theorems about the policy | `CommandPlanning`, `TLAPS` |
| `CommandExecutor` | the executor composed with the workspace adapter and the policy | `GitWorkspace`, `CommandPolicy` |
| `CommandExecutorProofs` | theorems about the composition | `CommandExecutor`, `GitWorkspaceProofs` |
| `MCStateStore`, `MCStateFile`, `MCGitWorkspace`, `MCCommandRecord`, `MCCommandPlanning`, `MCCommandExecutor` | values of the constants for TLC | |

Definitions named `X_Something` next to a definition `X` are mutants: the way a
plausible mistake would change `X`. They are used by nothing; replacing `X` by
one of them makes the property it is listed with in `PROJECT.json` fail.

### 2.1 `StateStore`

`db` is the committed database, `work` the image the one open write transaction
sees, `lock` SQLite's RESERVED lock. Every client is a process: `step` says
where in its call it is, `call` the arguments, `row` what the first SELECT of a
read returned, `held` the checkpoint the client goes on with, `reply` the outcome.
`acked` is a ghost: the updates for which `compare_and_append` has returned.

* `ReadRow`, `ReadJournal`: the two autocommit SELECTs of `_validated_run` in
  `load`, `history` and resume; `RunReplays` is the whole validation, `ResumeVerdict`
  the checks of `load_run_for_resume` in their order.
* `CallInitialize`, `Begin`, `InsertRun`, `Commit`, `Return`: `initialize`.
* `CallAppend`, `Begin`, `CheckExpected`, `InsertTransition`, `UpdateCheckpoint`,
  `Commit`, `Return`: `compare_and_append`.
* `LockTimeout`, `StorageError`: what sqlite3 raises, at any statement, with the
  roll-back of the except clause. `Crash`: the process dies, also between commit and
  return.

The rows hold values, not bytes, and the file has its tables: `StateFile` is about
the bytes and about opening the file. A
commit that has to wait for a reader is the `StorageError` of a commit. The
store of a client's run is bounded by `MaxRevision`.

### 2.2 `StateFile`, `StateCodec`, `ContractBinding`

In `JsonBytes` a byte string is the JSON value it holds and a layout: canonical
(what `_dump` writes), another text of the same value, a repeated key, a NaN, no
JSON, no UTF-8. Values are tagged with their kind, so that 1, 1.0, "1" and null differ,
as they do in the code. `StateCodec` has for each document the bytes that are
written and the predicate of the bytes that are accepted, down to the constructors a
decoder ends in; a timestamp is an instant and how it is spelt, because strptime
reads spellings that strftime does not write, and does not read one that it
writes (years before 1000). `ContractBinding` keeps the order of the causes of a
refused contract; validator, contract model and SHA-256 are constants, SHA-256
injective on the sources of an instance.

`StateFile` opens the database statement by statement (`Open, BeginOpen, ReadVersion,
CreateRuns, CreateTransitions, Stamp, CommitOpen`, with `LockTimeout` and
`OpenError` anywhere): `schema` is what is committed, `draft` what the transaction
sees, `origin` what the file was found with. Once a process has it open, `StartRun`
(bind a contract, create the identity, `initialize`), `LoadRun`, `ResumeRun` and
`AppendTransition` each are one step: their steps are in `StateStore`. `Damage`
changes one cell: its layout, one field of it (also of the identity inside a
checkpoint), its bytes for those of another cell, or it removes an event. `genuine`
is a ghost that remembers what was written. A table is a function of the keys it has
rows for. `StateFileAssumption` says what the constants stand for: digests and the
identifiers of validated contracts have the formats the constructors ask for, and
`Spoilt` holds JSON values.

### 2.3 `GitWorkspace`, `WorkspacePort`

`records` and `runIndex` are the adapter's two dictionaries, `entry[i]` and
`quarantine[i]` what is on disk at `root/<id>` and `root/.release-<id>`, `call` the
operation each thread is inside, `lease` the workspace it holds a lease on. A
directory is reduced to what the validation can tell: a clone in progress, valid,
valid but cut short by an unfinished deletion, altered, or put there by others.

Every operation holds the lock from end to end, so one thread is inside at a time;
the steps of an operation are there because the disk changes, fails, or outlives
the process between them: `CallPrepare, Clone, Populate, ValidateNew, Discard`;
`Load`; `CallSnapshot, StageTree, Recheck`; `CallRelease, DetachWorks/Fails,
DeleteWorks/Fails, Restore, RecoverWorks/Fails`; `EnterLease, ExitLease`. Around it:
`Work` (the command under a lease), `Tamper`, `Intrude` (others on the root),
`Crash`. `Environment` selects which of them a run has.

Bounds and simplifications: a thread does not nest leases; `Tamper` changes the
directories themselves and not the quarantine; `Intrude` only takes names without a
record; the integrity of the root directory itself is not modelled.

`WorkspacePort` is the port as its callers see it: `owner` says for which run each
capability was prepared, `answer` what each caller was last told. `Grant` and
`Withdraw` are the instants at which a workspace is published and forgotten;
every other answer must be truthful at the instant it is given, and a fault may
always be reported. `GitWorkspace` maps its `records` to `owner` and its replies to
`answer`; clones, quarantines, roll-backs and the lock are stutters.

### 2.4 `ProcessCapture`, `Evidence`, `CommandRecord`

`backend` says which of the two loops runs. The adapter has `pc`, the selector's
map `watched`, the `events` still to be read, the bytes `captured` of each
stream; the command has a `leader` (bubblewrap or git), descendants (`inner`), and
`holders` of the write end of each pipe. Bytes are counted, not represented.
External and assumed: the leader keeps both pipes open until it exits
(bubblewrap does), the descendants of a sandbox die with it (`--die-with-parent`
and its process namespace), SIGKILL ends a process sooner or later. The wait after
the ends of the streams has no deadline and depends on the first of these.

`Evidence` has the checks of `evidence_serialization.py` and the payloads it writes. A
text is a sequence of the characters JSON treats differently (a quote, a backslash, a
comma, a space, a surrogate, others), so that `_command_identity` is modelled by what it
does: texts in quotes, with quotes and backslashes escaped, between commas and brackets.
The control characters that json escapes too are among the others. A digest stands for
the bytes it was made of. `CommandRecord` puts it behind
`ProcessCapture`: `ReturnResult` is the construction of `ExecutionResult` from the
sandbox's report and two readings of a wall clock that may be set back,
`BuildCommandResult` is `build_command_result`, `AssembleEvidence` a caller that makes
evidence of it (that caller is not written yet) and `serialize_evidence`. The other facts
of a run are a constant, `Contexts`, in the form their producers give them (`WellFormed`,
in `RecordAssumption`): how long object identifiers are, what the tools say of
their versions and the names of the changed files is left open.

### 2.5 `CommandPolicy`, `CommandPlanning`

The checks of `_matching_rule` are successive sets of candidates, in the code's
order, with the verdict of the first that becomes empty. Names, arguments and
directories are compared for equality only and are plain values. The rules of a
policy are a set: their order decides which of several covering rules is recorded
and nothing else.

### 2.6 `CommandExecutor`

The composition: the variables and actions of `GitWorkspace` are used as they are,
and `task` says where in `execute` a thread is. `Execute` (reauthorization and
registry), `Probe`, `VerifyFirst`, `TakeLease`, `PrepareInvocation`, `Spawn`,
`RunInWorkspace`, `Report`, `VerifyLast`, `Leave` follow the method; the sandbox's
own execution is one of its possible reports (`ProcessCapture` has the inside).
`ReplaceExecutable` and `ReplaceBubblewrap` change the files the executor has
pinned; a replaced file does not come back, and bubblewrap is either the pinned file
or not. The death of the process is not
composed here: it is part of `GitWorkspace`.

## 3. Runs

| Run | Instance | What it shows |
|---|---|---|
| `store_core` | 2 processes, 1 run, journal up to 2 events, all failures | the database always replays (`StoreConsistent`), acknowledged updates are durable (`AckedDurable`), one racer wins (`OneWinner`), history is never rewritten (`RunNeverRewritten`), a read that succeeds is current (`ReadReturnsCurrent`), a conflict means that one was overtaken (`ConflictMeansOvertaken`), corruption is only reported by a read that a commit overtook (`CorruptOnlyWhenTorn`), and the store implements the atomic register (`ImplementsRegister`) |
| `store_resume` | 2 processes with different policies, same run identifier, weak fairness | nobody extends a run bound to inputs other than their own (`OnlyOwnBindingExtended`); every call returns (`CallsReturn`) |
| `store_torn_read` | as `store_core` | **violation**: `load` and `history` can report an intact store as corrupt |
| `store_assembled_update` | clients assemble updates by hand | **violation**: a transition the policy forbids is committed |
| `store_file` | 2 processes open a new file, one of this version, one of another version or one with a stray table; 1 run, 3 instants (one before the year 1000), journal up to 2 events, 1 damaged cell | no half of a schema is ever committed (`SchemaAllOrNothing`), accepted bytes are exactly those the store would write (`AcceptedBytesAreCanonical`), an intact run is readable (`IntactIsReadable`), one damaged cell never forges a checkpoint (`OneDamageForgesNothing`), a run is resumed with the very contract bytes it was started with (`ResumedFromSameBytes`), opening comes to an end (`OpeningReturns`) |
| `workspace_core` | 2 threads, 2 runs, 2 identifiers, commands, failures, crashes | the two maps stay inverses (`IndexInverse`), a candidate identity is only given for a tree that validated when staged (`SnapshotSound`), no release is blocked by a leftover (`ReleaseNeverBlocked`), while a lease is held only its own thread's release takes the workspace away (`LeaseProtects`), and the adapter implements the port (`ImplementsPort`) |
| `workspace_hostile` | 1 thread, 2 runs, 1 identifier that is issued again and again, others on the root, fairness | a record is dropped only when nothing is left on disk (`ForgottenIsGone`), a preparation spares published workspaces (`PreparationSparesPublished`), a workspace that is released persistently is reclaimed (`ReleaseReclaims`) |
| `workspace_foreign` | others create directories under the root | **violation**: a failed preparation deletes a directory it did not create |
| `capture` | both loops, 4 bytes per stream, ceiling 3, reads of 2, pipes of 2; 6 commands, exit codes 0 and -9, 2 clock readings, 8 contexts of evidence | a report of exit has all the output (`ExitedIsComplete`), a stop for output is deserved (`LimitIsDeserved`), nothing runs after the report (`NothingRunsAfter`), every execution returns (`EveryExecutionReturns`); a command result tells what happened and names no other command (`RecordTellsWhatHappened`), everything that happened can be recorded (`WhatHappenedCanBeRecorded`), and its bytes identify it (`BytesIdentifyEvidence`) |
| `planning` | 192 requests, all pairs of 24 rules | a request is authorized exactly if one rule covers it (`VerdictIsDeserved`), and asking for less never costs it (`LessIsAllowed`) |
| `executor_core` | 2 threads, 2 runs, 1 identifier that is issued again and again, 3 requests (allowed, over the limit, not registered), both files and the workspace replaced at any time | commands run authorized, in their published workspace (`RunsInItsWorkspace`), and alone (`CommandsRunAlone`); a result is only returned for the pinned executable and a valid workspace (`ResultIsTrusted`) |
| `executor_typed` | as `executor_core`, 1 thread | **violation**: a failure leaves the executor without one of its causes |

Why the bounds are enough. Store: two processes make every race of the code, which
compares one expected value under one exclusive lock; two events are enough for a
stale read, a lost race, a retry and a completed run. Proofs lift the
bounds for the safety results. `store_file`: schema and content do not depend on each
other but for the tables being there, so damage is done when both processes have
the file open, and nobody reconnects afterwards; one damaged cell is the property's own
hypothesis (two can vouch for each other). Evidence: the commands are those a shell
or an encoding without escapes would confuse and one that is not UTF-8, the contexts differ from a plain one in one
fact each. Workspaces: an operation concerns one identifier
and one run; two of each give the collisions. `workspace_hostile` needs two runs
for a repeated identifier and one identifier, and fairness forbids symmetry.
Capture: the ceiling is neither a multiple of the read size nor below it, and
the command can write less, exactly, or more than the ceiling. Symmetry is used
in safety runs only, over sets of model values that no definition distinguishes.

### Findings

* `store_torn_read`: `_validated_run` reads row and journal in two autocommit
  statements; a commit between them is reported as `CORRUPT`. The contract says
  that `load` returns the current checkpoint or `None`.
* `store_assembled_update`: `StateUpdate` checks that event and checkpoints connect
  but not the transition table, and `compare_and_append` replays only the
  stored events; `run-lifecycle.md` says that skips and backward transitions fail
  closed.
* `workspace_foreign`: a destination created between the check and the clone is
  deleted by the clean-up, which the document limits to the preparation's
  own child.
* `executor_typed`: the probe of the sandbox is outside the block that translates
  `SandboxError`; a bubblewrap that has changed surfaces untranslated.

## 4. Fairness

* `StateStore`: weak fairness of `Proceed(c)`, the steps a started call takes by
  itself. The interpreter runs on, and SQLite's busy timeout bounds the wait.
  Nothing is assumed about starting calls, errors or crashes.
* `GitWorkspace`: weak fairness of started operations and of leaving a lease;
  strong fairness, per workspace, of the successful deletion steps and of the
  owner's `release`. This is what "a later release retries" means in the documents:
  the owner does not give up and the disk does not fail for ever. Strong, because the
  lock and failures disable these steps again and again.
* `StateFile`: weak fairness of the statements of a constructor that was called; the
  busy timeout ends its wait.
* `CommandRecord`, for `ProcessCapture`: weak fairness of the adapter, of the clock and of SIGKILL. Nothing
  is assumed about the command, which may run and write for ever, and
  nothing about failing system calls or what is done with a result.

## 5. Proofs

`StateStoreProofs` is for any sets of runs, clients, identities, actors and
instants, and any `MaxRevision`; the named assumptions in `Lifecycle` and
`StateStore` are typing facts (None is not one of the values, identities carry their
fields). Except for typing, the theorems are about clients whose updates come
from `prepare_state_update` (`~Assembles`): `store_assembled_update` shows that they are
false without it.

* `TypeCorrect`: `Spec => []TypeOK`. Needs `CallInv` along: the type of a
  written row depends on what kind of call a client is in.
* `Consistency`: `Spec => []StoreConsistent`. That the committed database replays is
  not inductive: it says nothing of what a transaction is about to publish.
  `Inv` adds `CallInv` (what a call's arguments satisfy at each of its steps)
  and `TxnInv` (the lock holder is the one client inside a transaction, and the
  image it sees differs from the database by exactly the writes of the steps it has
  done, starting from the expected checkpoint). Then only `Commit` changes the
  database (`OnlyCommitPublishes`), and it publishes a new run (`CreatedConsistent`)
  or one more event that replays (`UpdatedConsistent`, resting on `AppendReplays`).
* `HistoryPreserved`: `RunNeverRewritten`, an action property, from `Inv`.
* `Durability`, `SingleWinner`: `AckedDurable` and `OneWinner`. `AckInv` adds the
  updates that are committed and not yet acknowledged: such an update is in the journal
  and its slot belongs to nobody else.

`CommandPolicyProofs`, for any requests and policies over the typed limits:
`AuthorizationIsCoverage` (the successive checks accept exactly what one rule
covers), `AuthorizationIsMonotone` (asking for less is never refused),
and their temporal forms `VerdictsDeserved` and `LessStaysAllowed`, by the
invariant that a recorded verdict is the policy's verdict on the recorded request.

`StateStoreRefinement`, under the same `~Assembles`, relates clients to the store.
`KnownInv` says that a checkpoint a client holds, however stale, is the initial one of
an identity or one of the committed history of its run; that the row a read has
fetched is of that run; that the argument of a `compare_and_append` is what the
client held; and that an update whose commit has happened is in the journal. `Inv`
alone is about the database and cannot exclude a client with a checkpoint nobody ever
stored, which a refusal would then be right to contradict.

* `ReadsAreCurrent`, `CorruptMeansTorn`, `ConflictsAreReal`: what a caller is told is
  true. Row and journal are fetched apart; they replay together only if no commit
  of that run came between, because a journal only grows and the revision of a
  checkpoint that replays is the length of its journal (`RevisionIsLength`).
* `OwnRunsOnly`: `OnlyOwnBindingExtended`, when clients reach stored checkpoints
  through `load_run_for_resume` alone (`Entries \subseteq {"resume"}`); `OwnInv` adds
  that what a client holds, submits or has been committed for it is bound to its own
  inputs.
* `StoreImplementsRegister`: `ImplementsRegister`. Initial states map to initial states
  (for `db.runs` and the phases of the calls), and each action to the register's
  action or a stutter: `Commit` is `Apply`, the second SELECT of a read is `Read` or
  `ReadHistory`, and every refusal is true at its instant.

`StateFileProofs` is for any processes, runs, contracts, instants, found schemas and
spoilt values, and any bound on revisions and damage.

* `SchemaIsWhole`: `SchemaAllOrNothing`. `OpeningInv` adds that the lock holder is the
  one process inside a transaction and what its draft is at each statement.
* `AcceptedIsCanonical`: `AcceptedBytesAreCanonical`, after any number of damages.
  Field by field, what a decoder accepts is what the encoder writes for the value
  read (`IdentityIsCanonical`, `CheckpointIsCanonical`, `TransitionIsCanonical`);
  `ShapeInv` adds that every cell holds some JSON document, which damage
  preserves.
* `IntactRunsAreRead`, `OneDamageIsHarmless`, `ResumesFromItsBytes`: from `FileInv`
  (`FileInvariance`). It says that the values written for a run replay, that without
  damage every cell is their encoding, and that with one damage all but one cell is, or
  one row is missing. The heart is `NearlyIntactServes`: of a run in that condition
  the store serves the genuine checkpoint or nothing. A spoilt identity is checked
  against the checkpoint, a spoilt checkpoint against the replay, a lost row against
  the revision; and a spoilt event is pinned by the snapshot before it and by the
  event after it or the checkpoint (`OneEventOff`), but for its actor and time. An
  update that is then accepted extends the genuine run, so that the invariant
  survives updates after the damage. The last two theorems are about `damage <= 1`:
  two cells can vouch for each other. Resume also rests on SHA-256 being injective on
  the sources (`BindingAssumption`).

`GitWorkspaceProofs` is for any threads, runs and identifiers and every `Environment`;
None is no run, identifier or handle. `WorkspaceInv` says that one thread is inside the
lock, and what it knows at each step: a preparation that its identifier and run are
free, a snapshot that it staged a tree that validates or will be refused, a deletion
that the directory is no longer in its place. Without it nothing keeps a roll-back from
meeting a workspace published meanwhile.

* `WorkspaceTyped`, `MapsAreInverses`, `SnapshotsAreSound`, `ForgottenWorkspacesAreGone`,
  `PublishedIsSpared`, `LeasesProtect`: the invariants and action properties of
  the runs, without further assumptions. The proof of `LeasesProtect` showed that
  the thread's own `release` inside its lease must be excepted: the re-entrant lock
  lets it through.
* `ReleaseIsNeverBlocked`: for identifiers that are never repeated (`~Reissues`), which is
  what the port asks of its generator ("a new valid workspace identifier",
  `ports/workspace.py:53`).
* `AdapterImplementsPort`: `ImplementsPort`, for identifiers that are never repeated and
  nobody taking names under the root (`"intrude" \notin Environment`).

`CommandRecordProofs` is for every ceiling, read size, pipe size and amount of output, any
commands, specifications, exit codes and clock readings, and any facts of a run that
satisfy `RecordAssumption` (arguments are sequences of strings, clocks and exit codes
integers, None is no exit code, the facts are `WellFormed`).

* `CaptureTyped`, `ExitedOutputIsComplete`, `OutputLimitIsDeserved`,
  `NothingOutlivesTheReport`. `CaptureInv` keeps the books of each stream (written is
  captured plus in the pipe), says that the end of a stream is final because the leader
  holds both pipes while it runs, and what the adapter knows at each `pc`.
* `WaitsEnd`: the wait without a deadline finds a leader that has exited, or one that
  got a SIGKILL (Git primitive). That is the safety half of `EveryExecutionReturns`
  where a hang was possible, and rests on the same fact about who holds the pipes.
* `RecordsTellWhatHappened`: `RecordTellsWhatHappened`. `RecordInv` adds to `CaptureInv`
  what a result, a command result and evidence are made of; it is inductive because the
  adapter does nothing after its report (`DoneIsDone`), while what is left of the
  command may go on. That a command's identity is no other command's is
  `IdentityIdentifies`: arguments that are empty, or have quotes, commas or backslashes,
  can be told apart and counted from the one text. It comes from `Decoding`, used once
  for the escapes of a text and once for the texts of a list: if in each place no part
  of one sequence is the beginning of a different part of the other, and what follows is
  not taken for a part, then sequences of parts that are joined to the same are the
  same. The community modules define `FlattenSeq` by a recursive function; that it joins
  the parts (`Joining`, `Flattening`) is proved by induction stated for a set of
  numbers (`Induction`, from the well-foundedness of < on Nat), which needs no operator
  parameter.
* `WhatHappenedIsRecorded`: `WhatHappenedCanBeRecorded`. Each check of
  `build_command_result` and `serialize_evidence` follows from the coherence of the
  result and the form of the facts, but for the ones the property names.
* `SerializationIsInjective`: the bytes of evidence tell every field of it, for any
  number of commands: no exit code is not the code zero, an unknown cost is not a cost.
  `EvidenceIsIdentified`: `BytesIdentifyEvidence`, from it.
* `RecordKeepsCapture`: `RecordSpec => Spec`, so that the theorems about capture hold of
  the composition that the run checks.

`CommandExecutorProofs` is for any threads, requests, policy and replacements.
`ExecutorInv` is `WorkspaceInv` plus, for each thread, which lease it has where it is in
`execute`, and that a file that ran and was not the pinned one is still not
the pinned one at the last verification. `ExecutorTyped`, `ResultsAreTrusted`,
`CommandsRunWhereTheyShould` and `CommandsAreAlone` follow; the last from the lock of
the adapter, which the lease holds.

Only model-checked: the liveness properties `CallsReturn`, `OpeningReturns`,
`ReleaseReclaims` and `EveryExecutionReturns` (fairness and ENABLED are beyond the
prover). Every other property of a passing run is a theorem. The theorems
about `damage <= 1`, and those under the assumptions named above, say nothing beyond
them; the violations in section 3 show what happens without some of them.

## 6. Not modelled

* The arguments and the environment of Git, bubblewrap's mounts and namespaces, and
  the isolation the kernel gives: external to the code.
* The regular expressions and text formats of single values (constant sets of the
  texts a constructor accepts), and the contract schema, which belongs to a pinned
  package.
* The wording of errors (that of a refused contract repeats a duplicate key of the source,
  `domain/contract_binding.py:77`), and documents nested deeper than the
  interpreter's stack, for which `json.loads` raises an untranslated `RecursionError`.
* The integrity of the workspace root, and a workspace mapping after a restart: the
  adapter keeps none.
* Re-exporting package files and the quality gate script.

## 7. Plan

Done: every component of section 1 modelled and checked; proofs about the store and
its refinement of the register, the database file and its codec, workspaces and their
refinement of the port, capture, command records and evidence, policy and the executor.
What is left, in this order:

1. `OneWinner` and `AckedDurable` through the file: that the calls of `StateFile`, which
   are one step each there, are the calls of `StateStore`.
2. The fairness-free part of `OpeningReturns` and `CallsReturn`, as `WaitsEnd` is for
   `EveryExecutionReturns`: that no started call is ever without an enabled step.
3. The caller that assembles complete evidence, when it is written.
