------------------------ MODULE StateStoreRefinement ------------------------
(***************************************************************************)
(* Proofs, for any instance, of what the clients of StateStore may rely    *)
(* on: what a read returns, what a refusal means, whose runs are extended, *)
(* and that the store implements CheckpointRegister.  They rest on one     *)
(* more inductive invariant, KnownInv: a checkpoint a client holds is      *)
(* either an initial one or one of the committed history, never one from   *)
(* the future or of a history that was not committed.                      *)
(***************************************************************************)
EXTENDS StateStoreProofs

-----------------------------------------------------------------------------
(* What the clients know. *)

\* cp is the checkpoint some committed event of its run left.
Recorded(cp) ==
    LET r == cp.identity.run_id
        n == cp.lifecycle.revision
    IN  /\ db.runs[r] # None
        /\ db.runs[r].identity = cp.identity
        /\ n \in DOMAIN db.journal[r]
        /\ cp.lifecycle = LifecycleAfter(db.journal[r][n])

Known(cp) == cp = InitialCheckpoint(cp.identity) \/ Recorded(cp)

\* The run read is there, under the identity the first SELECT saw.
RowIsOfRun(c) ==
    /\ db.runs[call[c].run] # None
    /\ row[c].identity = db.runs[call[c].run].identity

KnownAt(c) ==
    /\ held[c] # None => Known(held[c])
    /\ step[c] = "reading" => RowIsOfRun(c)
    /\ call[c].op = "compare_and_append" => held[c] = call[c].update.expected
    /\ Landed(c) => /\ Recorded(NextCheckpoint(call[c].update))
                    /\ call[c].update.event.run_id = call[c].run

KnownInv == \A c \in Clients : KnownAt(c)

\* With resume as the only way to a stored checkpoint, clients hold and extend
\* only runs bound to their own inputs.
OwnInv ==
    /\ \A c \in Clients :
        /\ step[c] = "reading" => call[c].op = "resume"
        /\ held[c] # None => BoundTo(held[c].identity, Trusted[c])
    /\ \A a \in acked :
        /\ db.runs[a.event.run_id] # None
        /\ BoundTo(db.runs[a.event.run_id].identity, Trusted[a.client])

\* A checkpoint of the committed history stays in it.
LEMMA RecordedStays ==
    ASSUME ~Assembles, Inv, [Next]_vars, NEW cp \in RunCheckpoint, Recorded(cp)
    PROVE  Recorded(cp)'
<1> DEFINE r == cp.identity.run_id
           n == cp.lifecycle.revision
           j == db.journal[r]
           k == db'.journal[r]
<1>1. r \in RunIds /\ j \in Seq(LifecycleTransition)
  BY LifecycleAssumption DEF RunCheckpoint, Inv, TypeOK, Database
<1>2. k \in Seq(LifecycleTransition)
  BY <1>1, InvStep DEF Inv, TypeOK, Database
<1>4. /\ db'.runs[r] # None /\ db'.runs[r].identity = db.runs[r].identity
      /\ k = j \/ (Len(k) = Len(j) + 1 /\ SubSeq(k, 1, Len(j)) = j)
  BY <1>1, NeverRewrittenStep DEF Recorded
<1>5. n \in DOMAIN k /\ k[n] = j[n]
  BY <1>1, <1>2, <1>4, PrefixKeeps DEF Recorded
<1> QED
  BY <1>4, <1>5 DEF Recorded

\* So what a client knows stays known.
LEMMA KnownStays ==
    ASSUME ~Assembles, Inv, [Next]_vars, NEW cp \in RunCheckpoint, Known(cp)
    PROVE  Known(cp)'
BY RecordedStays DEF Known

\* A row that replays against the committed journal is the committed row's
\* checkpoint, and a known one.
LEMMA ReplayedIsCurrent ==
    ASSUME Inv, NEW r \in RunIds, NEW w \in RunRow, db.runs[r] # None,
           w.identity = db.runs[r].identity, RunReplays(r, w, db.journal[r])
    PROVE  w.checkpoint = db.runs[r].checkpoint /\ Known(w.checkpoint)
<1> DEFINE j == db.journal[r]
           cp == w.checkpoint
<1>1. j \in Seq(LifecycleTransition) /\ cp \in RunCheckpoint
  BY DEF Inv, TypeOK, Database, RunRow
<1>2. RunReplays(r, db.runs[r], j)
  BY DEF Inv, StoreConsistent
<1>3. cp = ReplayedCheckpoint(w.identity, j) /\ cp.identity = w.identity
  BY DEF RunReplays
<1>4. cp = db.runs[r].checkpoint
  BY <1>2, <1>3 DEF RunReplays
<1>5. cp.lifecycle.revision = Len(j) /\ cp.identity.run_id = r
  BY <1>1, <1>3, RevisionIsLength DEF RunReplays
<1>6. CASE Len(j) = 0
  BY <1>3, <1>4, <1>6 DEF ReplayedCheckpoint, LifecycleAt, InitialCheckpoint, Known
<1>7. CASE Len(j) # 0
  <2>1. Len(j) \in DOMAIN j
    BY <1>1, <1>7
  <2>2. cp.lifecycle = LifecycleAfter(j[Len(j)])
    BY <1>3, <1>7 DEF ReplayedCheckpoint, LifecycleAt
  <2> QED
    BY <1>3, <1>4, <1>5, <2>1, <2>2 DEF Recorded, Known
<1> QED
  BY <1>4, <1>6, <1>7

\* A step is of one client, and leaves the others where they were.
LEMMA OneMoves ==
    ASSUME Inv, NEW c \in Clients,
           StartCall(c) \/ Proceed(c) \/ StorageError(c) \/ Crash(c)
    PROVE  \A d \in Clients \ {c} :
              /\ step'[d] = step[d] /\ call'[d] = call[d]
              /\ row'[d] = row[d] /\ held'[d] = held[d] /\ reply'[d] = reply[d]
BY DEF StartCall, Proceed, ReadRow, CallInitialize, CallAppend, ReadJournal,
       Begin, LockTimeout, InsertRun, CheckExpected, InsertTransition,
       UpdateCheckpoint, Commit, Return, StorageError, Crash, Finish, Goto,
       Inv, TypeOK, local

\* A client that does not move knows what it knew.
LEMMA BystanderKnows ==
    ASSUME ~Assembles, Inv, [Next]_vars, NEW d \in Clients, KnownAt(d),
           step'[d] = step[d], call'[d] = call[d], row'[d] = row[d],
           held'[d] = held[d]
    PROVE  KnownAt(d)'
<1>1. held[d] # None => Known(held[d])'
  BY KnownStays DEF KnownAt, Inv, TypeOK
<1>2. step[d] = "reading" => RowIsOfRun(d)'
  BY NeverRewrittenStep DEF KnownAt, RowIsOfRun, Inv, CallInv, Reading
<1>3. ASSUME Landed(d) PROVE Recorded(NextCheckpoint(call[d].update))'
  <2>1. NextCheckpoint(call[d].update) \in RunCheckpoint
    BY <1>3, NextType DEF Landed, Inv, CallInv, Initializing, Appending
  <2>2. PICK cp \in RunCheckpoint : cp = NextCheckpoint(call[d].update)
    BY <2>1
  <2>3. Recorded(cp)'
    BY <1>3, <2>2, RecordedStays DEF KnownAt
  <2>4. NextCheckpoint(call[d].update)' = cp
    BY <2>2 DEF NextCheckpoint
  <2> QED
    BY <2>3, <2>4 DEF Recorded
<1> QED
  BY <1>1, <1>2, <1>3 DEF KnownAt, Landed, RowIsOfRun, NextCheckpoint

\* A call that ends leaves its client knowing what it knew or was handed.
LEMMA EndKnows ==
    ASSUME Inv, NEW c \in Clients, NEW cause, NEW cp, Finish(c, cause, cp),
           cp # None => Known(cp)'
    PROVE  KnownAt(c)'
<1>1. step'[c] = "idle" /\ held'[c] = cp /\ call'[c].op = "none"
  BY DEF Finish, Inv, TypeOK, NoCall
<1> QED
  BY <1>1 DEF KnownAt, Landed, Known, Recorded

\* The client that reads.
LEMMA ReaderKnows ==
    ASSUME ~Assembles, Inv, [Next]_vars, NEW c \in Clients, KnownAt(c),
           \/ \E op \in Entries, r \in RunIds : ReadRow(c, op, r)
           \/ ReadJournal(c)
    PROVE  KnownAt(c)'
<1>1. held[c] # None => Known(held[c]) /\ held[c] \in RunCheckpoint
  BY DEF KnownAt, Inv, TypeOK
<1>h. PICK h : h = held[c]
  OBVIOUS
<1>2. h # None => Known(h)'
  BY <1>1, <1>h, KnownStays
<1>3. ASSUME NEW op \in Entries, NEW r \in RunIds, ReadRow(c, op, r)
      PROVE  KnownAt(c)'
  <2>1. CASE db.runs[r] = None
    BY <1>2, <1>h, <1>3, <2>1, EndKnows DEF ReadRow
  <2>2. CASE db.runs[r] # None
    <3>1. /\ step'[c] = "reading" /\ call'[c].op = op /\ call'[c].run = r
          /\ row'[c] = db.runs[r] /\ held'[c] = h /\ db' = db
      BY <1>h, <1>3, <2>2 DEF ReadRow, Goto, Inv, TypeOK
    <3>2. op # "compare_and_append"
      BY StateStoreAssumption
    <3> QED
      BY <1>2, <2>2, <3>1, <3>2 DEF KnownAt, Landed, RowIsOfRun, Known, Recorded
  <2> QED
    BY <2>1, <2>2
<1>4. CASE ReadJournal(c)
  <2> DEFINE r == call[c].run
  <2>1. step[c] = "reading" /\ r \in RunIds /\ row[c] \in RunRow /\ RowIsOfRun(c)
    BY <1>4 DEF ReadJournal, KnownAt, Inv, CallInv, Reading
  <2>2. PICK cp : cp = row[c].checkpoint
    OBVIOUS
  <2>3. ASSUME RunReplays(r, row[c], db.journal[r]) PROVE Known(cp)'
    <3>1. Known(cp) /\ cp \in RunCheckpoint
      BY <2>1, <2>2, <2>3, ReplayedIsCurrent DEF RowIsOfRun, RunRow
    <3> QED
      BY <3>1, KnownStays
  <2> QED
    BY <1>2, <1>h, <1>4, <2>2, <2>3, EndKnows DEF ReadJournal
<1> QED
  BY <1>3, <1>4

\* The client that starts a write.
LEMMA WriterKnows ==
    ASSUME ~Assembles, Inv, [Next]_vars, NEW c \in Clients, KnownAt(c),
           \/ \E id \in OwnIdentities(c) : CallInitialize(c, InitialCheckpoint(id))
           \/ held[c] # None /\ CallInitialize(c, held[c])
           \/ held[c] # None /\ \E u \in Updates(held[c]) : CallAppend(c, u)
    PROVE  KnownAt(c)'
<1>1. ASSUME NEW cp, cp # None => Known(cp)', CallInitialize(c, cp)
      PROVE  KnownAt(c)'
  <2>1. CASE cp # InitialCheckpoint(cp.identity)
    BY <1>1, <2>1, EndKnows DEF CallInitialize
  <2>2. CASE cp = InitialCheckpoint(cp.identity)
    <3>1. /\ step'[c] = "init_waiting" /\ held'[c] = cp
          /\ call'[c].op = "initialize"
      BY <1>1, <2>2 DEF CallInitialize, Goto, Inv, TypeOK
    <3> QED
      BY <1>1, <3>1 DEF KnownAt, Landed, Known, Recorded
  <2> QED
    BY <2>1, <2>2
<1>2. ASSUME NEW id \in OwnIdentities(c) PROVE Known(InitialCheckpoint(id))'
  BY DEF Known, InitialCheckpoint
<1>h. PICK h : h = held[c]
  OBVIOUS
<1>3. h # None => Known(h)'
  BY <1>h, KnownStays DEF KnownAt, Inv, TypeOK
<1>4. ASSUME NEW u \in Updates(held[c]), held[c] # None, CallAppend(c, u)
      PROVE  KnownAt(c)'
  <2>1. /\ step'[c] = "cas_waiting" /\ call'[c].update = u /\ held'[c] = h
        /\ u.expected = h
    BY <1>h, <1>4 DEF CallAppend, Goto, Inv, TypeOK
  <2> QED
    BY <1>3, <2>1 DEF KnownAt, Landed, Known, Recorded
<1> QED
  BY <1>1, <1>2, <1>h, <1>3, <1>4

\* The client whose write commits finds its update's result in the history.
LEMMA CommitterKnows ==
    ASSUME ~Assembles, Inv, [Next]_vars, NEW c \in Clients, KnownAt(c), Commit(c)
    PROVE  KnownAt(c)'
<1> DEFINE u == call[c].update
           r == call[c].run
<1>1. step'[c] = "committed" /\ call' = call /\ held' = held
  BY DEF Commit, Goto, Inv, TypeOK, local
<1>h. PICK h : h = held[c]
  OBVIOUS
<1>2. h # None => Known(h)'
  BY <1>h, KnownStays DEF KnownAt, Inv, TypeOK
<1>3. ASSUME call[c].op = "compare_and_append"
      PROVE  Recorded(NextCheckpoint(u))' /\ u.event.run_id = r
  <2>1. Appending(c) /\ ExpectedIsCommitted(c) /\ db' = Updated(c)
    BY <1>3, CommitPublishes DEF Initializing
  <2>2. u \in StateUpdate /\ r \in RunIds /\ r = u.expected.identity.run_id
    BY <2>1, LifecycleAssumption DEF Appending, StateUpdate, RunCheckpoint
  <2>3. RunReplays(r, db.runs[r], db.journal[r])
    BY <2>1, <2>2 DEF Inv, StoreConsistent, ExpectedIsCommitted
  <2>4. u.event.run_id = r
    <3>1. u.expected.lifecycle.run_id = r
      BY <2>1, <2>3 DEF RunReplays, WellFormedCheckpoint, ExpectedIsCommitted
    <3> QED
      BY <2>1, <3>1 DEF Appending, EventReplays, EventOf
  <2>5. db'.runs[r] # None /\ db'.runs[r].identity = u.expected.identity
    <3>1. db.runs[r].identity = u.expected.identity
      BY <2>1, <2>3 DEF RunReplays, ExpectedIsCommitted
    <3> QED
      BY <2>1, <2>2, <3>1, NeverRewrittenStep DEF ExpectedIsCommitted
  <2>6. InJournal(u.event)'
    BY <1>3, CommitFills
  <2>7. PICK cp, e : cp = NextCheckpoint(u) /\ e = u.event
    OBVIOUS
  <2>8. /\ cp.identity = u.expected.identity
        /\ cp.lifecycle = LifecycleAfter(e)
        /\ cp.lifecycle.revision = e.revision
    BY <2>7 DEF NextCheckpoint, CheckpointAfter, LifecycleAfter
  <2>9. Recorded(cp)'
    BY <1>1, <2>2, <2>4, <2>5, <2>6, <2>7, <2>8 DEF Recorded, InJournal
  <2> QED
    BY <1>1, <2>4, <2>7, <2>9 DEF Recorded, NextCheckpoint
<1> QED
  BY <1>1, <1>h, <1>2, <1>3 DEF KnownAt, Landed, Known, Recorded, NextCheckpoint

\* Inside a transaction a client learns nothing, and a call that ends without a
\* result leaves it knowing what it knew.
LEMMA CallerKnows ==
    ASSUME ~Assembles, Inv, [Next]_vars, NEW c \in Clients, KnownAt(c),
           \/ Begin(c) \/ LockTimeout(c) \/ InsertRun(c) \/ CheckExpected(c)
           \/ InsertTransition(c) \/ UpdateCheckpoint(c) \/ Return(c)
           \/ StorageError(c) \/ Crash(c)
    PROVE  KnownAt(c)'
<1>h. PICK h : h = held[c]
  OBVIOUS
<1>1. h # None => Known(h)'
  BY <1>h, KnownStays DEF KnownAt, Inv, TypeOK
<1>2. ASSUME NEW s \in {"init_inserting", "cas_checking", "cas_inserting",
                        "cas_updating", "committing"},
             Goto(c, s), UNCHANGED <<call, held>>
      PROVE  KnownAt(c)'
  <2>1. step'[c] = s
    BY <1>2 DEF Goto, Inv, TypeOK
  <2> QED
    BY <1>h, <1>1, <1>2, <2>1 DEF KnownAt, Landed, Known, Recorded
<1>3. ASSUME NEW cause, Finish(c, cause, held[c]) PROVE KnownAt(c)'
  BY <1>h, <1>1, <1>3, EndKnows
<1>4. CASE Begin(c) \/ LockTimeout(c) \/ StorageError(c)
  BY <1>2, <1>3, <1>4 DEF Begin, LockTimeout, StorageError, local
<1>5. CASE InsertRun(c) \/ CheckExpected(c)
  BY <1>2, <1>3, <1>5 DEF InsertRun, CheckExpected
<1>6. CASE InsertTransition(c) \/ UpdateCheckpoint(c)
  BY <1>2, <1>3, <1>6 DEF InsertTransition, UpdateCheckpoint
<1>7. CASE Crash(c)
  BY <1>7, EndKnows DEF Crash
<1>8. CASE Return(c)
  <2>1. CASE call[c].op = "compare_and_append"
    <3>1. PICK cp : cp = NextCheckpoint(call[c].update)
      OBVIOUS
    <3>2. Landed(c) /\ Recorded(cp) /\ db' = db
      BY <1>8, <2>1, <3>1 DEF Return, KnownAt, Landed
    <3>3. Known(cp)'
      BY <3>2 DEF Known, Recorded
    <3> QED
      BY <1>8, <2>1, <3>1, <3>3, EndKnows DEF Return
  <2>2. CASE call[c].op # "compare_and_append"
    BY <1>3, <1>8, <2>2 DEF Return
  <2> QED
    BY <2>1, <2>2
<1> QED
  BY <1>4, <1>5, <1>6, <1>7, <1>8

LEMMA KnownStep == ~Assembles /\ Inv /\ KnownInv /\ [Next]_vars => KnownInv'
<1> SUFFICES ASSUME ~Assembles, Inv, KnownInv, [Next]_vars PROVE KnownInv'
  OBVIOUS
<1>1. CASE UNCHANGED vars
  BY <1>1, BystanderKnows DEF vars, KnownInv
<1>2. ASSUME NEW c \in Clients,
             StartCall(c) \/ Proceed(c) \/ StorageError(c) \/ Crash(c)
      PROVE  KnownInv'
  <2>1. \A d \in Clients \ {c} : KnownAt(d)'
    BY <1>2, OneMoves, BystanderKnows DEF KnownInv
  <2>2. KnownAt(c)'
    BY <1>2, ReaderKnows, WriterKnows, CommitterKnows, CallerKnows
       DEF StartCall, Proceed, KnownInv
  <2> QED
    BY <2>1, <2>2 DEF KnownInv
<1> QED
  BY <1>1, <1>2 DEF Next

\* What clients hold is initial or committed history, however stale.
THEOREM ClientsHoldHistory ==
    ASSUME ~Assembles PROVE Spec => []KnownInv
<1>1. Init => KnownInv
  BY DEF Init, KnownInv, KnownAt, Landed, NoCall
<1>2. Inv /\ KnownInv /\ [Next]_vars => KnownInv'
  BY KnownStep
<1> QED
  BY <1>1, <1>2, Invariance, PTL DEF Spec

-----------------------------------------------------------------------------
(* What an answer means. *)

\* The steps that can end a read.
LEMMA ReadEnds ==
    ASSUME Inv, NEW c \in Clients, step[c] = "reading", step'[c] = "idle", Next
    PROVE  ReadJournal(c) \/ StorageError(c) \/ Crash(c)
<1>1. PICK d \in Clients :
          StartCall(d) \/ Proceed(d) \/ StorageError(d) \/ Crash(d)
  BY DEF Next
<1>2. d = c
  BY <1>1, OneMoves
<1> QED
  BY <1>1, <1>2 DEF StartCall, Proceed, ReadRow, CallInitialize, CallAppend, Begin,
     LockTimeout, InsertRun, CheckExpected, InsertTransition, UpdateCheckpoint,
     Commit, Return

\* A load or a resume that succeeds hands out the checkpoint current at its
\* return, although the row was fetched before the journal and other processes
\* commit in between.
THEOREM ReadsAreCurrent ==
    ASSUME ~Assembles PROVE Spec => ReadReturnsCurrent
<1>1. ASSUME Inv, KnownInv, [Next]_vars, NEW c \in Clients,
             step[c] = "reading", reply'[c] = "ok", step'[c] = "idle",
             call[c].op \in {"load", "resume"}
      PROVE  held'[c] = db.runs[call[c].run].checkpoint
  <2>1. ReadJournal(c) \/ StorageError(c) \/ Crash(c)
    BY <1>1, ReadEnds DEF vars
  <2>2. ReadJournal(c)
    BY <1>1, <2>1 DEF StorageError, Crash, Finish, Inv, TypeOK
  <2>3. /\ RunReplays(call[c].run, row[c], db.journal[call[c].run])
        /\ held'[c] = row[c].checkpoint
    BY <1>1, <2>2 DEF ReadJournal, Finish, Inv, TypeOK
  <2>4. /\ call[c].run \in RunIds /\ row[c] \in RunRow /\ RowIsOfRun(c)
    BY <1>1 DEF KnownInv, KnownAt, Inv, CallInv, Reading
  <2> QED
    BY <1>1, <2>3, <2>4, ReplayedIsCurrent DEF RowIsOfRun
<1>2. Inv /\ KnownInv /\ [Next]_vars =>
        \A c \in Clients :
          step[c] = "reading" /\ reply'[c] = "ok" /\ step'[c] = "idle"
              /\ call[c].op \in {"load", "resume"}
          => held'[c] = db.runs[call[c].run].checkpoint
  BY <1>1
<1> QED
  BY <1>2, Invariance, ClientsHoldHistory, PTL DEF Spec, ReadReturnsCurrent

\* Inside a transaction the expected checkpoint is found, is missing, or differs:
\* the image the checks read is the committed one.
LEMMA CheckSeesCommitted ==
    ASSUME Inv, NEW c \in Clients, step[c] = "cas_checking"
    PROVE  /\ work = db /\ Appending(c) /\ call[c].run \in RunIds
           /\ db.runs[call[c].run] # None =>
                 RunReplays(call[c].run, db.runs[call[c].run], db.journal[call[c].run])
<1>1. work = db /\ Appending(c)
  BY DEF Inv, TxnInv, TxnAt, CallInv
<1>2. call[c].run \in RunIds
  BY <1>1, LifecycleAssumption DEF Appending, StateUpdate, RunCheckpoint
<1> QED
  BY <1>1, <1>2 DEF Inv, StoreConsistent

\* The guarded UPDATE never misses: nobody writes while the lock is held.
LEMMA UpdateNeverMisses ==
    ASSUME Inv, NEW c \in Clients, step[c] = "cas_updating"
    PROVE  /\ work.runs[call[c].run] # None
           /\ work.runs[call[c].run].checkpoint = call[c].update.expected
BY DEF Inv, TxnInv, TxnAt, Inserted, ExpectedIsCommitted, TypeOK, Database

\* On a sound store only a read reports corruption, and only one whose row another
\* process's commit has overtaken.
THEOREM CorruptMeansTorn ==
    ASSUME ~Assembles PROVE Spec => CorruptOnlyWhenTorn
<1>1. ASSUME Inv, KnownInv, [Next]_vars, NEW c \in Clients,
             reply'[c] = "corrupt", reply[c] # "corrupt"
      PROVE  step[c] = "reading" /\ row[c] # db.runs[call[c].run]
  <2>1. PICK d \in Clients :
            StartCall(d) \/ Proceed(d) \/ StorageError(d) \/ Crash(d)
    BY <1>1 DEF Next, vars
  <2>2. d = c
    BY <1>1, <2>1, OneMoves
  <2>3. ReadJournal(c) \/ CheckExpected(c)
    BY <1>1, <2>1, <2>2
       DEF StartCall, Proceed, ReadRow, CallInitialize, CallAppend, Begin,
           LockTimeout, InsertRun, InsertTransition, UpdateCheckpoint, Commit,
           Return, StorageError, Crash, Finish, Inv, TypeOK, local
  <2>4. ~CheckExpected(c)
    <3> SUFFICES ASSUME CheckExpected(c) PROVE FALSE
      OBVIOUS
    <3>1. step[c] = "cas_checking"
      BY DEF CheckExpected
    <3> QED
      BY <1>1, <3>1, CheckSeesCommitted DEF CheckExpected, Finish, Inv, TypeOK
  <2>5. step[c] = "reading" /\ ~RunReplays(call[c].run, row[c], db.journal[call[c].run])
    BY <1>1, <2>3, <2>4 DEF ReadJournal, Finish, ResumeVerdict, Inv, TypeOK
  <2>6. call[c].run \in RunIds /\ db.runs[call[c].run] # None
    BY <1>1, <2>5 DEF KnownInv, KnownAt, RowIsOfRun, Inv, CallInv, Reading
  <2> QED
    BY <1>1, <2>5, <2>6 DEF Inv, StoreConsistent
<1>2. Inv /\ KnownInv /\ [Next]_vars =>
        \A c \in Clients :
          reply'[c] = "corrupt" /\ reply[c] # "corrupt"
          => step[c] = "reading" /\ row[c] # db.runs[call[c].run]
  BY <1>1
<1> QED
  BY <1>2, Invariance, ClientsHoldHistory, PTL DEF Spec, CorruptOnlyWhenTorn

\* A known checkpoint that is not the current one of its run is behind it, unless
\* the run was bound to another identity.
LEMMA KnownIsCurrentOrBehind ==
    ASSUME Inv, NEW cp \in RunCheckpoint, Known(cp), NEW r, r = cp.identity.run_id,
           db.runs[r] # None, db.runs[r].checkpoint # cp,
           db.runs[r].checkpoint.identity = cp.identity
    PROVE  db.runs[r].checkpoint.lifecycle.revision > cp.lifecycle.revision
<1> DEFINE j == db.journal[r]
           current == db.runs[r]
<1>1. r \in RunIds /\ j \in Seq(LifecycleTransition) /\ cp.lifecycle.revision \in Nat
  BY LifecycleAssumption DEF RunCheckpoint, RunLifecycle, Inv, TypeOK, Database
<1>2. RunReplays(r, current, j)
  BY <1>1 DEF Inv, StoreConsistent
<1>3. current.checkpoint.lifecycle.revision = Len(j)
  BY <1>1, <1>2, RevisionIsLength
<1>4. current.checkpoint = ReplayedCheckpoint(cp.identity, j)
  BY <1>2 DEF RunReplays
<1>5. CASE cp = InitialCheckpoint(cp.identity)
  <2>1. cp.lifecycle.revision = 0
    BY <1>5 DEF InitialCheckpoint, StartLifecycle
  <2>2. Len(j) # 0
    BY <1>4, <1>5 DEF ReplayedCheckpoint, LifecycleAt, InitialCheckpoint
  <2> QED
    BY <1>1, <1>3, <2>1, <2>2
<1>6. CASE Recorded(cp)
  <2>1. cp.lifecycle.revision \in 1..Len(j)
    BY <1>1, <1>6 DEF Recorded
  <2>2. cp = [identity |-> cp.identity,
              lifecycle |-> LifecycleAfter(j[cp.lifecycle.revision])]
    BY <1>6 DEF Recorded, RunCheckpoint
  <2>3. cp.lifecycle.revision # Len(j)
    BY <1>1, <1>4, <2>1, <2>2 DEF ReplayedCheckpoint, LifecycleAt
  <2> QED
    BY <1>1, <1>3, <2>1, <2>3
<1> QED
  BY <1>5, <1>6 DEF Known

\* A compare_and_append is refused as a conflict only by a run that has moved on or
\* that another identity took: no client is refused while it is right.
THEOREM ConflictsAreReal ==
    ASSUME ~Assembles PROVE Spec => ConflictMeansOvertaken
<1>1. ASSUME Inv, KnownInv, [Next]_vars, NEW c \in Clients,
             step[c] \in TxnSteps, step'[c] = "idle", reply'[c] = "conflict"
      PROVE  LET expected == call[c].update.expected
                 current == db.runs[call[c].run].checkpoint
             IN  \/ current.identity # expected.identity
                 \/ current.lifecycle.revision > expected.lifecycle.revision
  <2>1. PICK d \in Clients :
            StartCall(d) \/ Proceed(d) \/ StorageError(d) \/ Crash(d)
    BY <1>1 DEF Next, vars, TxnSteps
  <2>2. d = c
    BY <1>1, <2>1, OneMoves DEF TxnSteps
  <2>3. CheckExpected(c)
    <3>1. CheckExpected(c) \/ UpdateCheckpoint(c)
      BY <1>1, <2>1, <2>2
         DEF StartCall, Proceed, ReadRow, CallInitialize, CallAppend, ReadJournal,
             Begin, LockTimeout, InsertRun, InsertTransition, Commit, Return,
             StorageError, Crash, Finish, Goto, Inv, TypeOK, local, TxnSteps
    <3>2. ~UpdateCheckpoint(c)
      BY <1>1, UpdateNeverMisses DEF UpdateCheckpoint, Goto, Inv, TypeOK
    <3> QED
      BY <3>1, <3>2
  <2>4. /\ step[c] = "cas_checking" /\ db.runs[call[c].run] # None
        /\ db.runs[call[c].run].checkpoint # call[c].update.expected
    BY <1>1, <2>3, CheckSeesCommitted DEF CheckExpected, Finish, Goto, Inv, TypeOK
  <2>5. Appending(c)
    BY <1>1, <2>4, CheckSeesCommitted
  <2>6. /\ call[c].update.expected \in RunCheckpoint
        /\ call[c].run = call[c].update.expected.identity.run_id
        /\ Known(call[c].update.expected)
    BY <1>1, <2>5, LifecycleAssumption
       DEF Appending, StateUpdate, KnownInv, KnownAt
  <2>7. PICK cp \in RunCheckpoint : cp = call[c].update.expected
    BY <2>6
  <2> QED
    BY <1>1, <2>4, <2>6, <2>7, KnownIsCurrentOrBehind
<1>2. Inv /\ KnownInv /\ [Next]_vars =>
        \A c \in Clients :
          step[c] \in TxnSteps /\ step'[c] = "idle" /\ reply'[c] = "conflict"
          => LET expected == call[c].update.expected
                 current == db.runs[call[c].run].checkpoint
             IN  \/ current.identity # expected.identity
                 \/ current.lifecycle.revision > expected.lifecycle.revision
  BY <1>1
<1> QED
  BY <1>2, Invariance, ClientsHoldHistory, PTL DEF Spec, ConflictMeansOvertaken

-----------------------------------------------------------------------------
(* Whose runs are extended. *)

LEMMA OwnStep ==
    ASSUME ~Assembles, Entries \subseteq {"resume"}, Inv, KnownInv, OwnInv,
           [Next]_vars
    PROVE  OwnInv'
<1>1. ASSUME NEW a \in acked
      PROVE  /\ db'.runs[a.event.run_id] # None
             /\ BoundTo(db'.runs[a.event.run_id].identity, Trusted[a.client])
  <2>1. a.event.run_id \in RunIds
    BY DEF Inv, TypeOK, LifecycleTransition
  <2> QED
    BY <2>1, NeverRewrittenStep DEF OwnInv
<1>2. CASE UNCHANGED vars
  BY <1>2 DEF vars, OwnInv
<1>3. ASSUME NEW c \in Clients,
             StartCall(c) \/ Proceed(c) \/ StorageError(c) \/ Crash(c)
      PROVE  OwnInv'
  <2> DEFINE Owns(cp) == cp # None => BoundTo(cp.identity, Trusted[c])
             Added == [client |-> c, event |-> call[c].update.event]
  <2>1. Owns(held[c])
    BY DEF OwnInv
  <2>2. /\ step'[c] = "reading" => call'[c].op = "resume"
        /\ Owns(held'[c])
        /\ acked' = acked
           \/ (Landed(c) /\ db' = db /\ acked' = acked \cup {Added})
    <3>1. ASSUME NEW cause, NEW cp, Finish(c, cause, cp), Owns(cp)
          PROVE  step'[c] = "idle" /\ Owns(held'[c])
      BY <3>1 DEF Finish, Inv, TypeOK
    <3>2. ASSUME NEW s \in Steps \ {"reading"}, Goto(c, s), UNCHANGED held
          PROVE  step'[c] # "reading" /\ Owns(held'[c])
      BY <2>1, <3>2 DEF Goto, Inv, TypeOK
    <3> HIDE DEF Owns
    <3>3. ASSUME NEW op \in Entries, NEW r \in RunIds, ReadRow(c, op, r)
          PROVE  /\ step'[c] = "reading" => call'[c].op = "resume"
                 /\ Owns(held'[c]) /\ acked' = acked
      <4>1. CASE db.runs[r] = None
        BY <2>1, <3>1, <3>3, <4>1 DEF ReadRow
      <4>2. CASE db.runs[r] # None
        <5>1. op = "resume"
          BY <3>3
        <5>2. call'[c].op = op
          BY <3>3, <4>2 DEF ReadRow, Inv, TypeOK
        <5>3. held' = held /\ acked' = acked
          BY <3>3, <4>2 DEF ReadRow
        <5> QED
          BY <2>1, <5>1, <5>2, <5>3
      <4> QED
        BY <4>1, <4>2
    <3>4. ASSUME NEW cp, Owns(cp), CallInitialize(c, cp)
          PROVE  step'[c] # "reading" /\ Owns(held'[c]) /\ acked' = acked
      <4>1. CASE cp # InitialCheckpoint(cp.identity)
        BY <3>1, <3>4, <4>1 DEF CallInitialize
      <4>2. CASE cp = InitialCheckpoint(cp.identity)
        BY <3>4, <4>2 DEF CallInitialize, Goto, Inv, TypeOK
      <4> QED
        BY <4>1, <4>2
    <3>5. ASSUME NEW id \in OwnIdentities(c) PROVE Owns(InitialCheckpoint(id))
      BY DEF Owns, InitialCheckpoint, OwnIdentities
    <3>6. ASSUME NEW u \in Updates(held[c]), CallAppend(c, u)
          PROVE  step'[c] # "reading" /\ Owns(held'[c]) /\ acked' = acked
      BY <3>2, <3>6 DEF CallAppend, Steps
    <3>7. CASE StartCall(c)
      BY <2>1, <3>3, <3>4, <3>5, <3>6, <3>7 DEF StartCall
    <3>8. CASE ReadJournal(c)
      <4>1. /\ step[c] = "reading" /\ call[c].op = "resume"
            /\ call[c].run \in RunIds /\ row[c] \in RunRow
        BY <3>8 DEF ReadJournal, OwnInv, Inv, CallInv, Reading
      <4>2. ResumeVerdict(c, call[c].run, row[c].checkpoint) = "ok"
              => Owns(row[c].checkpoint)
        BY DEF ResumeVerdict, Owns, BoundTo
      <4> QED
        BY <2>1, <3>1, <3>8, <4>1, <4>2 DEF ReadJournal
    <3>9. CASE Begin(c) \/ LockTimeout(c) \/ Commit(c) \/ StorageError(c)
      BY <2>1, <3>1, <3>2, <3>9
         DEF Begin, LockTimeout, Commit, StorageError, local, Steps
    <3>10. CASE InsertRun(c) \/ CheckExpected(c)
      BY <2>1, <3>1, <3>2, <3>10 DEF InsertRun, CheckExpected, Steps
    <3>11. CASE InsertTransition(c) \/ UpdateCheckpoint(c)
      BY <2>1, <3>1, <3>2, <3>11 DEF InsertTransition, UpdateCheckpoint, Steps
    <3>12. CASE Return(c)
      <4>1. CASE call[c].op = "compare_and_append"
        <5>1. Owns(NextCheckpoint(call[c].update))
          <6>1. held[c] = call[c].update.expected /\ step[c] = "committed"
            BY <3>12, <4>1 DEF Return, KnownInv, KnownAt
          <6>2. held[c] # None
            BY <4>1, <6>1, LifecycleAssumption
               DEF Inv, CallInv, Initializing, Appending, StateUpdate
          <6> QED
            BY <2>1, <6>1, <6>2 DEF Owns, NextCheckpoint, CheckpointAfter
        <5> QED
          BY <3>1, <3>12, <4>1, <5>1 DEF Return, Landed
      <4>2. CASE call[c].op # "compare_and_append"
        BY <2>1, <3>1, <3>12, <4>2 DEF Return
      <4> QED
        BY <4>1, <4>2
    <3>13. CASE Crash(c)
      BY <3>1, <3>13 DEF Crash, Owns
    <3> QED
      BY <1>3, <3>7, <3>8, <3>9, <3>10, <3>11, <3>12, <3>13 DEF Proceed
  <2>3. Landed(c) => /\ db.runs[Added.event.run_id] # None
                     /\ BoundTo(db.runs[Added.event.run_id].identity,
                                Trusted[Added.client])
    <3> SUFFICES ASSUME Landed(c)
                 PROVE  /\ db.runs[call[c].update.event.run_id] # None
                        /\ BoundTo(db.runs[call[c].update.event.run_id].identity,
                                   Trusted[c])
      OBVIOUS
    <3>1. /\ call[c].update.event.run_id = call[c].run
          /\ Recorded(NextCheckpoint(call[c].update))
          /\ held[c] = call[c].update.expected
      BY DEF KnownInv, KnownAt, Landed
    <3>2. /\ call[c].run = call[c].update.expected.identity.run_id
          /\ held[c] # None
      BY <3>1, LifecycleAssumption
         DEF Landed, Inv, CallInv, Initializing, Appending, StateUpdate
    <3>3. NextCheckpoint(call[c].update).identity = held[c].identity
      BY <3>1 DEF NextCheckpoint, CheckpointAfter
    <3> QED
      BY <2>1, <3>1, <3>2, <3>3 DEF Recorded
  <2>4. \A d \in Clients \ {c} :
          /\ step'[d] = "reading" => call'[d].op = "resume"
          /\ held'[d] # None => BoundTo(held'[d].identity, Trusted[d])
    BY <1>3, OneMoves DEF OwnInv
  <2>5. \A a \in acked' :
          /\ db'.runs[a.event.run_id] # None
          /\ BoundTo(db'.runs[a.event.run_id].identity, Trusted[a.client])
    BY <1>1, <2>2, <2>3
  <2> HIDE DEF Added
  <2> QED
    BY <2>2, <2>4, <2>5 DEF OwnInv, BoundTo
<1> QED
  BY <1>2, <1>3 DEF Next

\* Clients that reach stored checkpoints only through load_run_for_resume extend
\* only runs bound to their own contract, baseline and policy.
THEOREM OwnRunsOnly ==
    ASSUME ~Assembles, Entries \subseteq {"resume"}
    PROVE  Spec => []OnlyOwnBindingExtended
<1>1. Init => OwnInv
  BY DEF Init, OwnInv
<1>2. Inv /\ KnownInv /\ OwnInv /\ [Next]_vars => OwnInv'
  BY OwnStep
<1>3. OwnInv => OnlyOwnBindingExtended
  BY DEF OwnInv, OnlyOwnBindingExtended
<1> QED
  BY <1>1, <1>2, <1>3, Invariance, ClientsHoldHistory, PTL DEF Spec

-----------------------------------------------------------------------------
(* The store implements the register. *)

\* The register's values are those of the store.
LEMMA SameValues ==
    /\ \A id : Register!InitialCheckpoint(id) = InitialCheckpoint(id)
    /\ \A u : Register!NextCheckpoint(u) = NextCheckpoint(u)
    /\ \A cp : Register!PreparedUpdates(cp) = PreparedUpdates(cp)
<1>1. \A id : Register!InitialCheckpoint(id) = InitialCheckpoint(id)
  BY DEF Register!InitialCheckpoint, Register!StartLifecycle, InitialCheckpoint,
         StartLifecycle
<1>2. \A u : Register!NextCheckpoint(u) = NextCheckpoint(u)
  BY DEF Register!NextCheckpoint, Register!CheckpointAfter, Register!LifecycleAfter,
         NextCheckpoint, CheckpointAfter, LifecycleAfter
<1>3. ASSUME NEW l, NEW e PROVE Register!EventReplays(l, e) <=> EventReplays(l, e)
  BY DEF Register!EventReplays, EventReplays, Register!AdvanceVerdict, AdvanceVerdict,
         Register!EventOf, EventOf, Register!AllowedNext, AllowedNext
<1>4. ASSUME NEW cp PROVE Register!Drafts(cp) = Drafts(cp)
  BY DEF Register!Drafts, Drafts, Register!EventOf, EventOf,
         Register!LifecycleState, LifecycleState
<1>5. ASSUME NEW cp PROVE Register!PreparedUpdates(cp) = PreparedUpdates(cp)
  BY <1>3, <1>4 DEF Register!PreparedUpdates, PreparedUpdates
<1> QED
  BY <1>1, <1>2, <1>5

\* A client's move shows at the register as its phase.
LEMMA PhaseMoves ==
    ASSUME Inv, NEW c \in Clients, NEW s, Goto(c, s)
    PROVE  Phases' = [Phases EXCEPT ![c] = PhaseOf(s)]
<1>1. step \in [Clients -> Steps] /\ step' = [step EXCEPT ![c] = s]
  BY DEF Goto, Inv, TypeOK
<1> QED
  BY <1>1 DEF Phases

\* A call that ends in the store ends at the register, with the same answer.
LEMMA EndShows ==
    ASSUME Inv, NEW c \in Clients, NEW cause, NEW cp, Finish(c, cause, cp)
    PROVE  /\ Register!End(c, cause)
           /\ held' = [held EXCEPT ![c] = cp]
           /\ cp = held[c] => held' = held
<1>1. PhaseOf("idle") = "idle"
  BY DEF PhaseOf
<1>2. Goto(c, "idle")
  BY DEF Finish, Goto
<1>3. Phases' = [Phases EXCEPT ![c] = "idle"]
  BY <1>1, <1>2, PhaseMoves
<1> QED
  BY <1>3 DEF Finish, Register!End, Register!NoRequest, NoCall, Inv, TypeOK

LEMMA PhaseShows ==
    ASSUME NEW c \in Clients
    PROVE  /\ step[c] = "idle" => Phases[c] = "idle"
           /\ step[c] = "committed" => Phases[c] = "applied"
           /\ step[c] \notin {"idle", "committed"} => Phases[c] = "pending"
BY DEF Phases, PhaseOf

\* A step between two points of one pending call, with nothing committed and
\* nothing answered, does not show.
LEMMA InnerStepHidden ==
    ASSUME Inv, NEW c \in Clients, NEW s, Goto(c, s),
           step[c] \notin {"idle", "committed"}, s \notin {"idle", "committed"},
           UNCHANGED <<db, call, held, reply>>
    PROVE  UNCHANGED Register!vars
<1>1. PhaseOf(s) = "pending" /\ Phases[c] = "pending"
  BY PhaseShows DEF PhaseOf
<1>2. Phases' = [Phases EXCEPT ![c] = "pending"]
  BY <1>1, PhaseMoves
<1>3. Phases' = Phases
  BY <1>1, <1>2 DEF Phases
<1>4. Checkpoints' = Checkpoints
  BY DEF Checkpoints
<1> QED
  BY <1>3, <1>4 DEF Register!vars

\* A call of the register fails for a storage reason.
LEMMA FailureShows ==
    ASSUME Inv, NEW c \in Clients, Finish(c, "storage_failure", held[c]),
           step[c] \notin {"idle", "committed"}, UNCHANGED db
    PROVE  Register!Next
<1>1. Register!End(c, "storage_failure") /\ held' = held /\ Phases[c] = "pending"
  BY EndShows, PhaseShows
<1>2. Checkpoints' = Checkpoints
  BY DEF Checkpoints
<1>3. Register!Fail(c)
  BY <1>1, <1>2 DEF Register!Fail
<1> QED
  BY <1>3 DEF Register!Next

\* A refusal of the store is one of the register.
LEMMA RefusalShows ==
    ASSUME Inv, NEW c \in Clients,
           NEW cause \in {"already_exists", "not_found", "conflict",
                          "contract_mismatch", "baseline_mismatch",
                          "policy_mismatch", "terminal_run"},
           Finish(c, cause, held[c]), UNCHANGED db,
           step[c] \notin {"idle", "committed"}, call[c].run \in RunIds,
           LET current == db.runs[call[c].run]
           IN  \/ /\ call[c].op = "initialize"
                  /\ cause = "already_exists" /\ current # None
               \/ /\ call[c].op = "compare_and_append"
                  /\ cause = "not_found" /\ current = None
               \/ /\ call[c].op = "compare_and_append"
                  /\ cause = "conflict" /\ current # None
                  /\ current.checkpoint # call[c].update.expected
               \/ /\ call[c].op = "resume" /\ current # None
                  /\ \/ cause \in {"contract_mismatch", "baseline_mismatch",
                                    "policy_mismatch"}
                     \/ /\ cause = "terminal_run"
                        /\ current.checkpoint.lifecycle.state = "COMPLETED"
    PROVE  Register!Next
<1> DEFINE r == call[c].run
<1>1. Register!End(c, cause) /\ held' = held /\ Phases[c] = "pending"
  BY EndShows, PhaseShows
<1>2. Checkpoints' = Checkpoints
  BY DEF Checkpoints
<1>3. db.runs[r] # None =>
        Checkpoints[r] = db.runs[r].checkpoint /\ Checkpoints[r] # None
  BY LifecycleAssumption DEF Checkpoints, Inv, TypeOK, Database, RunRow
<1>4. db.runs[r] = None => Checkpoints[r] = None
  BY DEF Checkpoints
<1>5. Register!Refuse(c, cause)
  BY <1>1, <1>2, <1>3, <1>4 DEF Register!Refuse, Register!Pending
<1> QED
  BY <1>5 DEF Register!Next

\* The start of a call.
LEMMA StartAtRegister ==
    ASSUME ~Assembles, Inv, KnownInv, NEW c \in Clients, StartCall(c)
    PROVE  Register!Next
<1>1. step[c] = "idle" /\ Phases[c] = "idle" /\ db' = db /\ Checkpoints' = Checkpoints
  BY PhaseShows
     DEF StartCall, ReadRow, CallInitialize, CallAppend, Checkpoints
<1>2. ASSUME NEW s \in Steps \ {"idle", "committed"}, Goto(c, s)
      PROVE  Phases' = [Phases EXCEPT ![c] = "pending"]
  <2>1. PhaseOf(s) = "pending"
    BY <1>2 DEF PhaseOf
  <2> QED
    BY <1>2, <2>1, PhaseMoves
<1>3. ASSUME NEW op \in Entries, NEW r \in RunIds, ReadRow(c, op, r)
      PROVE  Register!Next
  <2>0. op \in {"load", "resume", "history"}
    BY StateStoreAssumption
  <2>1. CASE db.runs[r] = None
    <3> DEFINE cause == IF op = "load" THEN "absent" ELSE "not_found"
    <3>1. Finish(c, cause, held[c])
      BY <1>3, <2>1 DEF ReadRow
    <3>2. Register!End(c, cause) /\ held' = held
      BY <3>1, EndShows
    <3>3. Checkpoints[r] = None
      BY <2>1 DEF Checkpoints
    <3>4. Register!RefuseAtOnce(c, cause)
      BY <1>1, <3>2, <3>3 DEF Register!RefuseAtOnce
    <3> QED
      BY <3>4 DEF Register!Next
  <2>2. CASE db.runs[r] # None
    <3>1. Phases' = [Phases EXCEPT ![c] = "pending"]
      BY <1>2, <1>3, <2>2 DEF ReadRow, Steps
    <3>2. Register!Invoke(c, op, r, None, None)
      BY <1>1, <1>3, <2>0, <2>2, <3>1 DEF ReadRow, Register!Invoke, Inv, TypeOK
    <3> QED
      BY <2>0, <3>2 DEF Register!Next
  <2> QED
    BY <2>1, <2>2
<1>4. ASSUME NEW cp \in RunCheckpoint, CallInitialize(c, cp),
             cp = InitialCheckpoint(cp.identity)
      PROVE  Register!Next
  <2>1. Phases' = [Phases EXCEPT ![c] = "pending"]
    BY <1>2, <1>4 DEF CallInitialize, Steps
  <2>2. cp.identity \in Identities
    BY DEF RunCheckpoint
  <2>3. Register!Invoke(c, "initialize", cp.identity.run_id, None,
                        Register!InitialCheckpoint(cp.identity))
    BY <1>1, <1>4, <2>1, <2>2, SameValues DEF CallInitialize, Register!Invoke
  <2> QED
    BY <2>2, <2>3 DEF Register!Next
<1>5. ASSUME NEW id \in OwnIdentities(c), CallInitialize(c, InitialCheckpoint(id))
      PROVE  Register!Next
  <2>1. InitialCheckpoint(id) \in RunCheckpoint /\ InitialCheckpoint(id).identity = id
    BY InitialType DEF OwnIdentities, InitialCheckpoint
  <2> QED
    BY <1>4, <1>5, <2>1
<1>6. ASSUME held[c] # None, CallInitialize(c, held[c]) PROVE Register!Next
  <2>1. held[c] \in RunCheckpoint /\ Known(held[c])
    BY <1>6 DEF KnownInv, KnownAt, Inv, TypeOK
  <2>2. CASE held[c] # InitialCheckpoint(held[c].identity)
    <3>1. Finish(c, "conflict", held[c])
      BY <1>6, <2>2 DEF CallInitialize
    <3>2. Register!End(c, "conflict") /\ held' = held
      BY <3>1, EndShows
    <3>3. held[c].lifecycle.revision > 0
      <4> DEFINE r == held[c].identity.run_id
                 n == held[c].lifecycle.revision
      <4>1. n \in DOMAIN db.journal[r] /\ r \in RunIds
        BY <2>1, <2>2, LifecycleAssumption DEF Known, Recorded, RunCheckpoint
      <4>2. db.journal[r] \in Seq(LifecycleTransition)
        BY <4>1 DEF Inv, TypeOK, Database
      <4> HIDE DEF r, n
      <4>3. n > 0
        BY <4>1, <4>2
      <4> QED
        BY <4>3 DEF n
    <3>4. Register!RefuseAtOnce(c, "conflict")
      BY <1>1, <1>6, <3>2, <3>3 DEF Register!RefuseAtOnce
    <3> QED
      BY <3>4 DEF Register!Next
  <2> QED
    BY <1>4, <1>6, <2>1, <2>2
<1>7. ASSUME held[c] # None, NEW u \in Updates(held[c]), CallAppend(c, u)
      PROVE  Register!Next
  <2>1. u \in Register!PreparedUpdates(held[c]) /\ u.expected = held[c]
    BY <1>7, SameValues DEF Updates, CallAppend
  <2>2. Phases' = [Phases EXCEPT ![c] = "pending"]
    BY <1>2, <1>7 DEF CallAppend, Steps
  <2>3. held' = [held EXCEPT ![c] = held[c]]
    BY <1>7 DEF CallAppend, Inv, TypeOK
  <2>4. Register!Invoke(c, "compare_and_append", held[c].identity.run_id, u, None)
    BY <1>1, <1>7, <2>1, <2>2, <2>3 DEF CallAppend, Register!Invoke
  <2> QED
    BY <1>7, <2>1, <2>4 DEF Register!Next
<1> QED
  BY <1>3, <1>5, <1>6, <1>7 DEF StartCall

\* The end of a read.
LEMMA ReadAtRegister ==
    ASSUME Inv, KnownInv, NEW c \in Clients, ReadJournal(c)
    PROVE  Register!Next
<1> DEFINE r == call[c].run
           cp == row[c].checkpoint
           verdict == ResumeVerdict(c, r, cp)
<1>1. /\ step[c] = "reading" /\ r \in RunIds /\ row[c] \in RunRow
      /\ RowIsOfRun(c) /\ call[c].op \in {"load", "resume", "history"}
      /\ db' = db /\ Phases[c] = "pending" /\ Checkpoints' = Checkpoints
  BY PhaseShows
     DEF ReadJournal, KnownInv, KnownAt, Inv, CallInv, Reading, Checkpoints
<1>2. Checkpoints[r] = db.runs[r].checkpoint /\ Checkpoints[r] # None
  BY <1>1, LifecycleAssumption
     DEF RowIsOfRun, Checkpoints, Inv, TypeOK, Database, RunRow
<1>3. CASE ~RunReplays(r, row[c], db.journal[r])
  <2>1. Finish(c, "corrupt", held[c])
    BY <1>3 DEF ReadJournal
  <2>2. Register!End(c, "corrupt") /\ held' = held
    BY <2>1, EndShows
  <2>3. Register!Fail(c)
    BY <1>1, <2>2 DEF Register!Fail
  <2> QED
    BY <2>3 DEF Register!Next
<1>4. CASE RunReplays(r, row[c], db.journal[r])
  <2>1. cp = Checkpoints[r]
    BY <1>1, <1>2, <1>4, ReplayedIsCurrent DEF RowIsOfRun
  <2>2. ASSUME call[c].op \in {"load", "resume"}, Finish(c, "ok", cp)
        PROVE  Register!Next
    <3>1. Register!End(c, "ok") /\ held' = [held EXCEPT ![c] = cp]
      BY <2>2, EndShows
    <3>2. Register!Read(c)
      BY <1>1, <1>2, <2>1, <2>2, <3>1 DEF Register!Read, Register!Pending
    <3> QED
      BY <3>2 DEF Register!Next
  <2>3. ASSUME call[c].op = "history", Finish(c, "ok", held[c])
        PROVE  Register!Next
    <3>1. Register!End(c, "ok") /\ held' = held
      BY <2>3, EndShows
    <3>2. Register!ReadHistory(c)
      BY <1>1, <2>3, <3>1 DEF Register!ReadHistory, Register!Pending
    <3> QED
      BY <3>2 DEF Register!Next
  <2>4. ASSUME call[c].op = "resume", verdict # "ok", Finish(c, verdict, held[c])
        PROVE  Register!Next
    <3>1. cp.identity.run_id = r
      BY <1>4 DEF RunReplays
    <3>2. \/ verdict \in {"contract_mismatch", "baseline_mismatch", "policy_mismatch"}
          \/ verdict = "terminal_run" /\ cp.lifecycle.state = "COMPLETED"
      BY <2>4, <3>1 DEF ResumeVerdict
    <3>3. db.runs[r] # None /\ db.runs[r].checkpoint = cp
      BY <1>1, <1>2, <2>1 DEF RowIsOfRun
    <3> HIDE DEF verdict
    <3> QED
      BY <1>1, <2>4, <3>2, <3>3, RefusalShows
  <2> QED
    BY <1>4, <2>2, <2>3, <2>4 DEF ReadJournal
<1> QED
  BY <1>3, <1>4

\* The steps of a transaction before its commit.
LEMMA TransactionAtRegister ==
    ASSUME Inv, NEW c \in Clients,
           \/ Begin(c) \/ LockTimeout(c) \/ InsertRun(c) \/ CheckExpected(c)
           \/ InsertTransition(c) \/ UpdateCheckpoint(c) \/ StorageError(c)
    PROVE  [Register!Next]_Register!vars
<1>1. CASE Begin(c)
  BY <1>1, InnerStepHidden DEF Begin, local
<1>2. CASE LockTimeout(c) \/ StorageError(c)
  BY <1>2, FailureShows DEF LockTimeout, StorageError, TxnSteps
<1>3. CASE InsertRun(c)
  <2>1. /\ step[c] = "init_inserting" /\ work = db /\ Initializing(c)
        /\ call[c].run \in RunIds
    BY <1>3, LifecycleAssumption
       DEF InsertRun, Inv, TxnInv, TxnAt, CallInv, Initializing, RunCheckpoint
  <2>2. CASE work.runs[call[c].run] # None
    BY <1>3, <2>1, <2>2, RefusalShows DEF InsertRun, Initializing
  <2>3. CASE work.runs[call[c].run] = None
    BY <1>3, <2>1, <2>3, InnerStepHidden DEF InsertRun
  <2> QED
    BY <2>2, <2>3
<1>4. CASE CheckExpected(c)
  <2> DEFINE r == call[c].run
  <2>1. /\ step[c] = "cas_checking" /\ work = db /\ Appending(c) /\ r \in RunIds
        /\ db.runs[r] # None => RunReplays(r, db.runs[r], db.journal[r])
    BY <1>4, CheckSeesCommitted DEF CheckExpected
  <2>2. \/ /\ Finish(c, "not_found", held[c]) /\ db.runs[r] = None
        \/ /\ Finish(c, "conflict", held[c]) /\ db.runs[r] # None
           /\ db.runs[r].checkpoint # call[c].update.expected
        \/ Goto(c, "cas_inserting") /\ UNCHANGED <<call, held, reply>>
    BY <1>4, <2>1 DEF CheckExpected
  <2>3. db' = db /\ call[c].op = "compare_and_append"
    BY <1>4, <2>1 DEF CheckExpected, Appending
  <2> QED
    BY <2>1, <2>2, <2>3, RefusalShows, InnerStepHidden
<1>5. CASE InsertTransition(c)
  BY <1>5, FailureShows, InnerStepHidden DEF InsertTransition
<1>6. CASE UpdateCheckpoint(c)
  BY <1>6, UpdateNeverMisses, InnerStepHidden DEF UpdateCheckpoint
<1> QED
  BY <1>1, <1>2, <1>3, <1>4, <1>5, <1>6

\* The commit is the instant the write takes effect.
LEMMA CommitAtRegister ==
    ASSUME Inv, NEW c \in Clients, Commit(c)
    PROVE  Register!Next
<1> DEFINE r == call[c].run
<1>1. /\ step[c] = "committing" /\ Phases[c] = "pending"
      /\ UNCHANGED <<call, held, reply>>
  BY PhaseShows DEF Commit, local
<1>2. Phases' = [Phases EXCEPT ![c] = "applied"]
  <2>1. PhaseOf("committed") = "applied"
    BY DEF PhaseOf
  <2> QED
    BY <2>1, PhaseMoves DEF Commit
<1>3. CASE Initializing(c) /\ db.runs[r] = None /\ db' = Created(c)
  <2>1. r \in RunIds /\ held[c] \in RunCheckpoint /\ held[c].identity \in Identities
    BY <1>3, LifecycleAssumption DEF Initializing, RunCheckpoint
  <2>2. /\ db'.runs[r] = [identity |-> held[c].identity, checkpoint |-> held[c]]
        /\ \A q \in RunIds \ {r} : db'.runs[q] = db.runs[q]
    BY <1>3, <2>1 DEF Created, Inv, TypeOK, Database
  <2>3. db'.runs[r] # None /\ db'.runs[r].checkpoint = held[c]
    BY <2>1, <2>2, LifecycleAssumption DEF RunRow
  <2>4. Checkpoints' = [Checkpoints EXCEPT ![r] = held[c]]
    BY <2>1, <2>2, <2>3 DEF Checkpoints
  <2>5. Checkpoints[r] = None
    BY <1>3, <2>1 DEF Checkpoints
  <2>6. Register!Apply(c)
    BY <1>1, <1>2, <1>3, <2>4, <2>5
       DEF Register!Apply, Register!Pending, Initializing
  <2> QED
    BY <2>6 DEF Register!Next
<1>4. CASE Appending(c) /\ ExpectedIsCommitted(c) /\ db' = Updated(c)
  <2> DEFINE u == call[c].update
  <2>1. r \in RunIds /\ u \in StateUpdate /\ NextCheckpoint(u) \in RunCheckpoint
    BY <1>4, LifecycleAssumption, NextType DEF Appending, StateUpdate, RunCheckpoint
  <2>2. db.runs[r] \in RunRow /\ db.runs[r].checkpoint = u.expected
    BY <1>4, <2>1 DEF ExpectedIsCommitted, Inv, TypeOK, Database
  <2>3. /\ db'.runs[r] = [db.runs[r] EXCEPT !.checkpoint = NextCheckpoint(u)]
        /\ \A q \in RunIds \ {r} : db'.runs[q] = db.runs[q]
    BY <1>4, <2>1 DEF Updated, Inserted, Inv, TypeOK, Database
  <2> HIDE DEF u
  <2>4. db'.runs[r] # None /\ db'.runs[r].checkpoint = NextCheckpoint(u)
    BY <2>1, <2>2, <2>3, LifecycleAssumption DEF RunRow
  <2>5. Checkpoints' = [Checkpoints EXCEPT ![r] = NextCheckpoint(u)]
    BY <2>1, <2>3, <2>4 DEF Checkpoints
  <2>6. Checkpoints[r] = u.expected
    BY <2>1, <2>2, LifecycleAssumption DEF Checkpoints
  <2>7. Register!Apply(c)
    BY <1>1, <1>2, <1>4, <2>5, <2>6, SameValues
       DEF Register!Apply, Register!Pending, Appending, u
  <2> QED
    BY <2>7 DEF Register!Next
<1> QED
  BY <1>3, <1>4, CommitPublishes

\* The return of a committed write, and the death of a client.
LEMMA LeaveAtRegister ==
    ASSUME Inv, NEW c \in Clients, Return(c) \/ Crash(c)
    PROVE  Register!Next
<1>1. db' = db /\ Checkpoints' = Checkpoints
  BY DEF Return, Crash, Checkpoints
<1>2. CASE Crash(c)
  <2>1. Register!End(c, "none") /\ held' = [held EXCEPT ![c] = None]
    BY <1>2, EndShows DEF Crash
  <2>2. Register!Die(c)
    BY <1>1, <2>1 DEF Register!Die
  <2> QED
    BY <2>2 DEF Register!Next
<1>3. CASE Return(c)
  <2> DEFINE cp == IF call[c].op = "initialize" THEN held[c]
                   ELSE Register!NextCheckpoint(call[c].update)
  <2>1. /\ step[c] = "committed" /\ Phases[c] = "applied"
        /\ call[c].op \in {"initialize", "compare_and_append"}
    BY <1>3, PhaseShows DEF Return, Inv, CallInv, Initializing, Appending
  <2>2. Finish(c, "ok", cp)
    BY <1>3, <2>1, SameValues DEF Return
  <2>3. Register!End(c, "ok") /\ held' = [held EXCEPT ![c] = cp]
    BY <2>2, EndShows
  <2>4. Register!Acknowledge(c)
    BY <1>1, <2>1, <2>3 DEF Register!Acknowledge
  <2> QED
    BY <2>4 DEF Register!Next
<1> QED
  BY <1>2, <1>3

\* Every behaviour of the store is one of the atomic register: each write takes
\* effect once, at its commit, every read and every refusal is true at one instant
\* of its call, and a crash or an error before the commit leaves nothing behind.
THEOREM StoreImplementsRegister ==
    ASSUME ~Assembles PROVE Spec => ImplementsRegister
<1>1. Init => Register!Init
  BY DEF Init, Register!Init, Register!NoRequest, NoCall, Checkpoints, Phases, PhaseOf
<1>2. Inv /\ KnownInv /\ [Next]_vars => [Register!Next]_Register!vars
  <2> SUFFICES ASSUME Inv, KnownInv, [Next]_vars
               PROVE  [Register!Next]_Register!vars
    OBVIOUS
  <2>1. CASE UNCHANGED vars
    BY <2>1 DEF vars, Register!vars, Checkpoints, Phases
  <2>2. ASSUME NEW c \in Clients,
               StartCall(c) \/ Proceed(c) \/ StorageError(c) \/ Crash(c)
        PROVE  [Register!Next]_Register!vars
    BY <2>2, StartAtRegister, ReadAtRegister, TransactionAtRegister,
       CommitAtRegister, LeaveAtRegister DEF Proceed
  <2> QED
    BY <2>1, <2>2 DEF Next
<1> QED
  BY <1>1, <1>2, Invariance, ClientsHoldHistory, PTL
     DEF Spec, ImplementsRegister, Register!Spec

=============================================================================
