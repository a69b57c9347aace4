-------------------------- MODULE StateStoreProofs --------------------------
(***************************************************************************)
(* Proofs about StateStore for any runs, clients, identities, instants and *)
(* any bound on the revisions.  The inductive invariant is TypeOK, the     *)
(* consistency of the committed database, and TxnInv, which says what the  *)
(* open transaction's image differs from the committed one by at each of   *)
(* its steps.                                                              *)
(***************************************************************************)
EXTENDS StateStore, LifecycleProofs

-----------------------------------------------------------------------------
(* Updates. *)

\* Whatever updates clients are given to submit, they are well typed.
LEMMA UpdatesType ==
    ASSUME NEW cp \in RunCheckpoint, NEW u \in Updates(cp)
    PROVE  u \in StateUpdate /\ u.expected = cp
BY DraftType DEF Updates, PreparedUpdates, AssembledUpdates

-----------------------------------------------------------------------------
(* Type correctness and the shape of the calls in flight. *)

Typed == TypeOK /\ CallInv

\* A call that ends leaves its client idle and the other clients as they were.
LEMMA FinishTyped ==
    ASSUME Typed, NEW c \in Clients, NEW cause \in Replies,
           NEW cp \in RunCheckpoint \cup {None}, Finish(c, cause, cp)
    PROVE  /\ step' \in [Clients -> Steps]
           /\ call' \in [Clients -> Call]
           /\ row' \in [Clients -> RunRow \cup {None}]
           /\ held' \in [Clients -> RunCheckpoint \cup {None}]
           /\ reply' \in [Clients -> Replies]
           /\ CallInv'
<1>1. NoCall \in Call
  BY DEF NoCall, Call
<1>2. CallInv'
  BY DEF Typed, Finish, TypeOK, CallInv, Reading, Initializing, Appending
<1> QED
  BY <1>1, <1>2 DEF Typed, Finish, TypeOK, Steps

\* A call that moves on to a step its call and row fit.
LEMMA GotoTyped ==
    ASSUME Typed, NEW c \in Clients, NEW s \in Steps, Goto(c, s),
           call' \in [Clients -> Call],
           row' \in [Clients -> RunRow \cup {None}],
           held' \in [Clients -> RunCheckpoint \cup {None}],
           \A d \in Clients \ {c} : /\ call'[d] = call[d]
                                    /\ row'[d] = row[d]
                                    /\ held'[d] = held[d],
           s = "reading" => Reading(c)',
           s \in {"init_waiting", "init_inserting"} => Initializing(c)',
           s \in {"cas_waiting", "cas_checking", "cas_inserting",
                  "cas_updating"} => Appending(c)',
           s \in {"committing", "committed"} =>
               Initializing(c)' \/ Appending(c)'
    PROVE  step' \in [Clients -> Steps] /\ CallInv'
<1>1. step' \in [Clients -> Steps]
  BY DEF Typed, TypeOK, Goto
<1>2. step'[c] = s
  BY DEF Typed, TypeOK, Goto
<1>3. \A d \in Clients \ {c} : step'[d] = step[d]
  BY DEF Typed, TypeOK, Goto
<1>4. ASSUME NEW d \in Clients \ {c}
      PROVE  /\ Reading(d) => Reading(d)'
             /\ Initializing(d) => Initializing(d)'
             /\ Appending(d) => Appending(d)'
  BY <1>4 DEF Reading, Initializing, Appending
<1> QED
  BY <1>1, <1>2, <1>3, <1>4 DEF Typed, CallInv

\* Appending an event to a journal, and replacing a checkpoint, keep a Database.
LEMMA AppendedType ==
    ASSUME NEW d \in Database, NEW r \in RunIds, NEW e \in LifecycleTransition
    PROVE  [d EXCEPT !.journal[r] = Append(@, e)] \in Database
<1>1. d.journal \in [RunIds -> Seq(LifecycleTransition)]
  BY DEF Database
<1>2. Append(d.journal[r], e) \in Seq(LifecycleTransition)
  BY <1>1
<1>3. [d.journal EXCEPT ![r] = Append(@, e)] \in [RunIds -> Seq(LifecycleTransition)]
  BY <1>1, <1>2
<1> QED
  BY <1>3 DEF Database

LEMMA ReplacedType ==
    ASSUME NEW d \in Database, NEW r \in RunIds, d.runs[r] # None,
           NEW cp \in RunCheckpoint
    PROVE  [d EXCEPT !.runs[r] = [@ EXCEPT !.checkpoint = cp]] \in Database
<1>1. d.runs \in [RunIds -> RunRow \cup {None}] /\ d.runs[r] \in RunRow
  BY DEF Database
<1>2. [d.runs[r] EXCEPT !.checkpoint = cp] \in RunRow
  BY <1>1 DEF RunRow
<1>3. [d.runs EXCEPT ![r] = [@ EXCEPT !.checkpoint = cp]]
          \in [RunIds -> RunRow \cup {None}]
  BY <1>1, <1>2
<1> QED
  BY <1>3 DEF Database

LEMMA RollbackTyped ==
    ASSUME TypeOK, NEW c \in Clients, Rollback(c)
    PROVE  work' \in Database /\ lock' \in Clients \cup {None}
BY DEF Rollback, TypeOK

\* Every step of every client keeps the state well typed and the calls in shape.
LEMMA TypedStep == Typed /\ [Next]_vars => Typed'
<1> SUFFICES ASSUME Typed, [Next]_vars PROVE Typed'
  OBVIOUS
<1> USE DEF local
<1>h. \A c \in Clients : held[c] \in RunCheckpoint \cup {None}
  BY DEF Typed, TypeOK
<1>r. {"ok", "none", "absent", "not_found", "corrupt", "conflict",
       "already_exists", "storage_failure"} \subseteq Replies
  BY DEF Replies
<1>1. ASSUME NEW c \in Clients, NEW op \in Entries, NEW r \in RunIds,
             ReadRow(c, op, r)
      PROVE  Typed'
  <2>1. CASE db.runs[r] = None
    <3>1. PICK cause \in Replies : Finish(c, cause, held[c])
      BY <1>1, <1>r, <2>1 DEF ReadRow
    <3> QED
      BY <1>1, <1>h, <3>1, FinishTyped DEF ReadRow, Typed, TypeOK
  <2>2. CASE db.runs[r] # None
    <3>1. db.runs[r] \in RunRow
      BY <2>2 DEF Typed, TypeOK, Database
    <3>2. [op |-> op, run |-> r, update |-> None] \in Call
      BY StateStoreAssumption DEF Call
    <3>3. /\ Goto(c, "reading")
          /\ call' = [call EXCEPT ![c] = [op |-> op, run |-> r, update |-> None]]
          /\ row' = [row EXCEPT ![c] = db.runs[r]]
          /\ UNCHANGED <<db, work, lock, held, reply, acked>>
      BY <1>1, <2>2 DEF ReadRow
    <3>4. Reading(c)'
      BY <3>1, <3>3, StateStoreAssumption DEF Reading, Typed, TypeOK
    <3>5. step' \in [Clients -> Steps] /\ CallInv'
      BY <3>1, <3>2, <3>3, <3>4, GotoTyped DEF Typed, TypeOK, Steps
    <3> QED
      BY <3>1, <3>2, <3>3, <3>5 DEF Typed, TypeOK
  <2> QED
    BY <2>1, <2>2
<1>2. ASSUME NEW c \in Clients, NEW cp \in RunCheckpoint, CallInitialize(c, cp)
      PROVE  Typed'
  <2>1. CASE cp # InitialCheckpoint(cp.identity)
    <3>1. Finish(c, "conflict", cp)
      BY <1>2, <2>1 DEF CallInitialize
    <3> QED
      BY <1>2, <1>r, <3>1, FinishTyped DEF CallInitialize, Typed, TypeOK
  <2>2. CASE cp = InitialCheckpoint(cp.identity)
    <3> DEFINE new == [op |-> "initialize", run |-> cp.identity.run_id,
                       update |-> None]
    <3>1. new \in Call
      BY LifecycleAssumption DEF Call, RunCheckpoint
    <3>2. /\ Goto(c, "init_waiting")
          /\ call' = [call EXCEPT ![c] = new]
          /\ held' = [held EXCEPT ![c] = cp]
          /\ UNCHANGED <<db, work, lock, row, reply, acked>>
      BY <1>2, <2>2 DEF CallInitialize
    <3>3. Initializing(c)'
      BY <2>2, <3>2 DEF Initializing, Typed, TypeOK
    <3> HIDE DEF new
    <3>4. step' \in [Clients -> Steps] /\ CallInv'
      BY <3>1, <3>2, <3>3, GotoTyped DEF Typed, TypeOK, Steps
    <3> QED
      BY <3>1, <3>2, <3>4 DEF Typed, TypeOK
  <2> QED
    BY <2>1, <2>2
<1>3. ASSUME NEW c \in Clients, held[c] # None, NEW u \in Updates(held[c]),
             CallAppend(c, u)
      PROVE  Typed'
  <2> DEFINE new == [op |-> "compare_and_append",
                     run |-> u.expected.identity.run_id, update |-> u]
  <2>1. u \in StateUpdate /\ u.expected = held[c] /\ held[c] \in RunCheckpoint
    BY <1>3, <1>h, UpdatesType
  <2>2. new \in Call
    BY <2>1, LifecycleAssumption DEF Call, RunCheckpoint
  <2>3. Assembles \/ EventReplays(u.expected.lifecycle, u.event)
    BY <1>3, <2>1 DEF Updates, PreparedUpdates
  <2>4. /\ Goto(c, "cas_waiting")
        /\ call' = [call EXCEPT ![c] = new]
        /\ UNCHANGED <<db, work, lock, row, held, reply, acked>>
    BY <1>3 DEF CallAppend
  <2>5. Appending(c)'
    BY <2>1, <2>3, <2>4 DEF Appending, Typed, TypeOK
  <2> HIDE DEF new
  <2>6. step' \in [Clients -> Steps] /\ CallInv'
    BY <2>2, <2>4, <2>5, GotoTyped DEF Typed, TypeOK, Steps
  <2> QED
    BY <2>2, <2>4, <2>6 DEF Typed, TypeOK
<1>4. ASSUME NEW c \in Clients, StartCall(c)
      PROVE  Typed'
  <2>1. ASSUME NEW id \in OwnIdentities(c)
        PROVE  InitialCheckpoint(id) \in RunCheckpoint
    BY InitialType DEF OwnIdentities
  <2> QED
    BY <1>1, <1>2, <1>3, <1>4, <1>h, <2>1 DEF StartCall
<1>5. ASSUME NEW c \in Clients, ReadJournal(c)
      PROVE  Typed'
  <2>1. row[c].checkpoint \in RunCheckpoint
    BY <1>5 DEF ReadJournal, Typed, CallInv, Reading, RunRow
  <2>2. ResumeVerdict(c, call[c].run, row[c].checkpoint) \in Replies
    BY DEF ResumeVerdict, Replies
  <2>3. PICK cause \in Replies, cp \in RunCheckpoint \cup {None} :
            Finish(c, cause, cp)
    BY <1>5, <1>h, <1>r, <2>1, <2>2 DEF ReadJournal
  <2> QED
    BY <1>5, <2>3, FinishTyped DEF ReadJournal, Typed, TypeOK
<1>6. ASSUME NEW c \in Clients, Begin(c)
      PROVE  Typed'
  <2>1. PICK s \in {"init_inserting", "cas_checking"} :
            /\ Goto(c, s)
            /\ s = "init_inserting" => Initializing(c)
            /\ s = "cas_checking" => Appending(c)
    BY <1>6 DEF Begin, Typed, CallInv
  <2>2. UNCHANGED <<db, work, local>> /\ lock' = c
    BY <1>6 DEF Begin
  <2>3. /\ Initializing(c) => Initializing(c)'
        /\ Appending(c) => Appending(c)'
    BY <2>2 DEF Initializing, Appending
  <2>4. step' \in [Clients -> Steps] /\ CallInv'
    BY <2>1, <2>2, <2>3, GotoTyped DEF Typed, TypeOK, Steps
  <2> QED
    BY <2>2, <2>4 DEF Typed, TypeOK
<1>7. ASSUME NEW c \in Clients, LockTimeout(c)
      PROVE  Typed'
  BY <1>7, <1>h, <1>r, FinishTyped DEF LockTimeout, Typed, TypeOK
<1>8. ASSUME NEW c \in Clients, InsertRun(c)
      PROVE  Typed'
  <2>1. CASE work.runs[call[c].run] # None
    BY <1>8, <1>h, <1>r, <2>1, FinishTyped, RollbackTyped
       DEF InsertRun, Typed, TypeOK
  <2>2. CASE work.runs[call[c].run] = None
    <3> DEFINE new == [identity |-> held[c].identity, checkpoint |-> held[c]]
    <3>1. Initializing(c)
      BY <1>8 DEF InsertRun, Typed, CallInv
    <3>2. new \in RunRow
      BY <3>1 DEF Initializing, RunRow, RunCheckpoint
    <3>3. /\ work' = [work EXCEPT !.runs[call[c].run] = new]
          /\ Goto(c, "committing")
          /\ UNCHANGED <<db, lock, call, row, held, reply, acked>>
      BY <1>8, <2>2 DEF InsertRun
    <3>4. Initializing(c)'
      BY <3>1, <3>3 DEF Initializing
    <3> HIDE DEF new
    <3>5. step' \in [Clients -> Steps] /\ CallInv'
      BY <3>3, <3>4, GotoTyped DEF Typed, TypeOK, Steps
    <3>6. work' \in Database
      BY <3>2, <3>3 DEF Typed, TypeOK, Database
    <3> QED
      BY <3>3, <3>5, <3>6 DEF Typed, TypeOK
  <2> QED
    BY <2>1, <2>2
<1>9. ASSUME NEW c \in Clients, CheckExpected(c)
      PROVE  Typed'
  <2>1. CASE Goto(c, "cas_inserting") /\ UNCHANGED <<work, lock, call, row, held, reply>>
    <3>1. Appending(c)
      BY <1>9 DEF CheckExpected, Typed, CallInv
    <3>2. Appending(c)'
      BY <2>1, <3>1 DEF Appending
    <3>3. step' \in [Clients -> Steps] /\ CallInv'
      BY <2>1, <3>2, GotoTyped DEF Typed, TypeOK, Steps
    <3> QED
      BY <1>9, <2>1, <3>3 DEF CheckExpected, Typed, TypeOK
  <2>2. ASSUME NEW cause \in Replies, Finish(c, cause, held[c]), Rollback(c)
        PROVE  Typed'
    BY <1>9, <1>h, <2>2, FinishTyped, RollbackTyped
       DEF CheckExpected, Typed, TypeOK
  <2> QED
    BY <1>9, <1>r, <2>1, <2>2 DEF CheckExpected
<1>10. ASSUME NEW c \in Clients, InsertTransition(c)
       PROVE  Typed'
  <2>1. CASE Finish(c, "storage_failure", held[c]) /\ Rollback(c)
    BY <1>10, <1>h, <1>r, <2>1, FinishTyped, RollbackTyped
       DEF InsertTransition, Typed, TypeOK
  <2>2. CASE /\ work' = [work EXCEPT !.journal[call[c].run] =
                            Append(@, call[c].update.event)]
             /\ Goto(c, "cas_updating")
             /\ UNCHANGED <<lock, call, row, held, reply>>
    <3>1. Appending(c)
      BY <1>10 DEF InsertTransition, Typed, CallInv
    <3>2. Appending(c)'
      BY <2>2, <3>1 DEF Appending
    <3>3. step' \in [Clients -> Steps] /\ CallInv'
      BY <2>2, <3>2, GotoTyped DEF Typed, TypeOK, Steps
    <3>4. call[c].update.event \in LifecycleTransition
      BY <3>1 DEF Appending, StateUpdate
    <3>5. call[c].run \in RunIds
      BY <3>1, LifecycleAssumption DEF Appending, StateUpdate, RunCheckpoint
    <3>6. work' \in Database
      BY <2>2, <3>4, <3>5, AppendedType DEF Typed, TypeOK
    <3> QED
      BY <1>10, <2>2, <3>3, <3>6 DEF InsertTransition, Typed, TypeOK
  <2> QED
    BY <1>10, <2>1, <2>2 DEF InsertTransition
<1>11. ASSUME NEW c \in Clients, UpdateCheckpoint(c)
       PROVE  Typed'
  <2>1. CASE Finish(c, "conflict", held[c]) /\ Rollback(c)
    BY <1>11, <1>h, <1>r, <2>1, FinishTyped, RollbackTyped
       DEF UpdateCheckpoint, Typed, TypeOK
  <2>2. CASE /\ work.runs[call[c].run] # None
             /\ work' = [work EXCEPT !.runs[call[c].run] =
                            [@ EXCEPT !.checkpoint = NextCheckpoint(call[c].update)]]
             /\ Goto(c, "committing")
             /\ UNCHANGED <<lock, call, row, held, reply>>
    <3>1. Appending(c)
      BY <1>11 DEF UpdateCheckpoint, Typed, CallInv
    <3>2. Appending(c)'
      BY <2>2, <3>1 DEF Appending
    <3>3. step' \in [Clients -> Steps] /\ CallInv'
      BY <2>2, <3>2, GotoTyped DEF Typed, TypeOK, Steps
    <3>4. NextCheckpoint(call[c].update) \in RunCheckpoint
      BY <3>1, NextType DEF Appending
    <3>5. call[c].run \in RunIds
      BY <3>1, LifecycleAssumption DEF Appending, StateUpdate, RunCheckpoint
    <3>6. work' \in Database
      BY <2>2, <3>4, <3>5, ReplacedType DEF Typed, TypeOK
    <3> QED
      BY <1>11, <2>2, <3>3, <3>6 DEF UpdateCheckpoint, Typed, TypeOK
  <2> QED
    BY <1>11, <2>1, <2>2 DEF UpdateCheckpoint
<1>12. ASSUME NEW c \in Clients, Commit(c)
       PROVE  Typed'
  <2>1. /\ Goto(c, "committed")
        /\ UNCHANGED <<work, local>> /\ db' = work /\ lock' = None
        /\ Initializing(c) \/ Appending(c)
    BY <1>12 DEF Commit, Typed, CallInv
  <2>2. /\ Initializing(c) => Initializing(c)'
        /\ Appending(c) => Appending(c)'
    BY <2>1 DEF Initializing, Appending
  <2>3. step' \in [Clients -> Steps] /\ CallInv'
    BY <2>1, <2>2, GotoTyped DEF Typed, TypeOK, Steps
  <2> QED
    BY <2>1, <2>3 DEF Typed, TypeOK
<1>13. ASSUME NEW c \in Clients, Return(c)
       PROVE  Typed'
  <2>1. CASE call[c].op = "compare_and_append"
    <3>1. Appending(c)
      BY <1>13, <2>1 DEF Return, Typed, CallInv, Initializing
    <3>2. NextCheckpoint(call[c].update) \in RunCheckpoint
      BY <3>1, NextType DEF Appending
    <3>3. call[c].update.event \in LifecycleTransition
      BY <3>1 DEF Appending, StateUpdate
    <3> QED
      BY <1>13, <1>r, <2>1, <3>2, <3>3, FinishTyped DEF Return, Typed, TypeOK
  <2>2. CASE call[c].op # "compare_and_append"
    BY <1>13, <1>h, <1>r, <2>2, FinishTyped DEF Return, Typed, TypeOK
  <2> QED
    BY <2>1, <2>2
<1>14. ASSUME NEW c \in Clients, StorageError(c)
       PROVE  Typed'
  BY <1>14, <1>h, <1>r, FinishTyped, RollbackTyped DEF StorageError, Typed, TypeOK
<1>15. ASSUME NEW c \in Clients, Crash(c)
       PROVE  Typed'
  BY <1>15, <1>r, FinishTyped, RollbackTyped DEF Crash, Typed, TypeOK
<1>16. CASE UNCHANGED vars
  BY <1>16 DEF vars, Typed, TypeOK, CallInv, Reading, Initializing, Appending
<1> QED
  BY <1>4, <1>5, <1>6, <1>7, <1>8, <1>9, <1>10, <1>11, <1>12, <1>13, <1>14,
     <1>15, <1>16 DEF Next, Proceed

-----------------------------------------------------------------------------
(* The open transaction. *)

\* A step that touches neither image and nothing of client d keeps TxnAt(d).
LEMMA TxnAtFrame ==
    ASSUME NEW d \in Clients, TxnAt(d), UNCHANGED <<db, work>>,
           step'[d] = step[d], call'[d] = call[d], held'[d] = held[d]
    PROVE  TxnAt(d)'
<1>1. Inserted(d)' = Inserted(d) /\ Created(d)' = Created(d)
  BY DEF Inserted, Created
<1>2. Updated(d)' = Updated(d)
  BY <1>1 DEF Updated
<1>3. /\ ExpectedIsCommitted(d)' <=> ExpectedIsCommitted(d)
      /\ Initializing(d)' <=> Initializing(d)
      /\ Appending(d)' <=> Appending(d)
  BY DEF ExpectedIsCommitted, Initializing, Appending
<1> QED
  BY <1>1, <1>2, <1>3 DEF TxnAt

\* A call outside any transaction leaves the transaction invariant alone.
LEMMA OutsideTxn ==
    ASSUME Typed, TxnInv, NEW c \in Clients, UNCHANGED <<db, work, lock>>,
           step[c] \notin TxnSteps, step' \in [Clients -> Steps],
           step'[c] \notin TxnSteps,
           \A d \in Clients \ {c} : /\ step'[d] = step[d]
                                    /\ call'[d] = call[d]
                                    /\ held'[d] = held[d]
    PROVE  TxnInv'
<1>1. ASSUME NEW d \in Clients
      PROVE  (lock = d <=> step[d] \in TxnSteps)' /\ TxnAt(d)'
  <2>1. CASE d = c
    BY <2>1 DEF TxnInv, TxnAt, TxnSteps
  <2>2. CASE d # c
    BY <2>2, TxnAtFrame DEF TxnInv
  <2> QED
    BY <2>1, <2>2
<1> QED
  BY <1>1 DEF TxnInv

\* A call that ends, with its rollback, leaves no transaction behind.
LEMMA EndTxn ==
    ASSUME Typed, TxnInv, NEW c \in Clients, NEW cause, NEW cp,
           Finish(c, cause, cp), Rollback(c), UNCHANGED db
    PROVE  TxnInv'
<1>1. step'[c] = "idle" /\ \A d \in Clients \ {c} :
          step'[d] = step[d] /\ call'[d] = call[d] /\ held'[d] = held[d]
  BY DEF Finish, Typed, TypeOK
<1>2. ASSUME NEW d \in Clients
      PROVE  (lock = d <=> step[d] \in TxnSteps)' /\ TxnAt(d)'
  <2>1. CASE d = c
    BY <1>1, <2>1, StateStoreAssumption DEF TxnInv, TxnAt, TxnSteps, Rollback
  <2>2. CASE d # c /\ lock = c
    BY <1>1, <2>2, StateStoreAssumption DEF TxnInv, TxnAt, TxnSteps, Rollback
  <2>3. CASE d # c /\ lock # c
    BY <1>1, <2>3, TxnAtFrame DEF TxnInv, Rollback
  <2> QED
    BY <2>1, <2>2, <2>3
<1>3. (lock = None => work = db)'
  BY DEF TxnInv, Rollback
<1> QED
  BY <1>2, <1>3 DEF TxnInv

\* The lock's holder moves on to its next step in the transaction.
LEMMA WithinTxn ==
    ASSUME Typed, TxnInv, NEW c \in Clients, NEW s \in TxnSteps,
           step[c] \in TxnSteps, Goto(c, s), UNCHANGED lock, TxnAt(c)'
    PROVE  TxnInv'
<1>1. step'[c] = s /\ \A d \in Clients \ {c} : step'[d] = step[d]
  BY DEF Goto, Typed, TypeOK
<1>2. lock = c /\ lock # None
  BY StateStoreAssumption DEF TxnInv
<1>3. ASSUME NEW d \in Clients
      PROVE  (lock = d <=> step[d] \in TxnSteps)' /\ TxnAt(d)'
  <2>1. CASE d = c
    BY <1>1, <1>2, <2>1
  <2>2. CASE d # c
    <3>1. step[d] \notin TxnSteps
      BY <1>2, <2>2 DEF TxnInv
    <3> QED
      BY <1>1, <1>2, <2>2, <3>1 DEF TxnAt, TxnSteps
  <2> QED
    BY <2>1, <2>2
<1> QED
  BY <1>2, <1>3 DEF TxnInv

-----------------------------------------------------------------------------
(* Replay. *)

Consistent(d) ==
    \A r \in RunIds :
        /\ d.runs[r] = None => d.journal[r] = <<>>
        /\ d.runs[r] # None => RunReplays(r, d.runs[r], d.journal[r])

\* The image an initialize commits is consistent.
LEMMA CreatedConsistent ==
    ASSUME Typed, StoreConsistent, NEW c \in Clients, Initializing(c),
           db.runs[call[c].run] = None
    PROVE  Consistent(Created(c))
<1> DEFINE r == call[c].run
           id == held[c].identity
<1>1. id \in Identities /\ r = id.run_id /\ r \in RunIds
  BY LifecycleAssumption DEF Initializing, RunCheckpoint
<1>2. RunReplays(r, [identity |-> id, checkpoint |-> held[c]], <<>>)
  BY <1>1, FreshReplays DEF Initializing
<1>3. db.journal[r] = <<>>
  BY <1>1 DEF StoreConsistent
<1>4. /\ Created(c).journal = db.journal
      /\ Created(c).runs[r] = [identity |-> id, checkpoint |-> held[c]]
      /\ \A q \in RunIds \ {r} : Created(c).runs[q] = db.runs[q]
  BY <1>1 DEF Created, Typed, TypeOK, Database
<1>5. [identity |-> id, checkpoint |-> held[c]] # None
  BY LifecycleAssumption DEF Initializing, RunRow, RunCheckpoint
<1> QED
  BY <1>1, <1>2, <1>3, <1>4, <1>5 DEF Consistent, StoreConsistent

\* The image a compare_and_append of a prepared update commits is consistent.
LEMMA UpdatedConsistent ==
    ASSUME ~Assembles, Typed, StoreConsistent, NEW c \in Clients, Appending(c),
           ExpectedIsCommitted(c)
    PROVE  Consistent(Updated(c))
<1> DEFINE r == call[c].run
           u == call[c].update
           e == call[c].update.event
           j == db.journal[r]
           current == db.runs[r]
           new == [current EXCEPT !.checkpoint = NextCheckpoint(u)]
<1>1. u \in StateUpdate /\ e \in LifecycleTransition /\ r \in RunIds
  BY LifecycleAssumption DEF Appending, StateUpdate, RunCheckpoint
<1>2. current \in RunRow /\ j \in Seq(LifecycleTransition)
  BY <1>1 DEF ExpectedIsCommitted, Typed, TypeOK, Database
<1>3. RunReplays(r, current, j)
  BY <1>1 DEF StoreConsistent, ExpectedIsCommitted
<1>4. EventReplays(current.checkpoint.lifecycle, e)
  BY DEF Appending, ExpectedIsCommitted
<1>5. NextCheckpoint(u) = CheckpointAfter(current.checkpoint.identity, e)
  BY DEF NextCheckpoint, ExpectedIsCommitted
<1>6. RunReplays(r, new, Append(j, e))
  BY <1>1, <1>2, <1>3, <1>4, <1>5, AppendReplays
<1>7. /\ Updated(c).journal[r] = Append(j, e)
      /\ \A q \in RunIds \ {r} : Updated(c).journal[q] = db.journal[q]
  BY <1>1 DEF Updated, Inserted, Typed, TypeOK, Database
<1>8. /\ Updated(c).runs[r] = new
      /\ \A q \in RunIds \ {r} : Updated(c).runs[q] = db.runs[q]
  BY <1>1 DEF Updated, Inserted, Typed, TypeOK, Database
<1>9. new # None
  <2>1. NextCheckpoint(u) \in RunCheckpoint
    BY <1>1, NextType
  <2>2. new \in RunRow
    BY <1>2, <2>1 DEF RunRow
  <2> QED
    BY <2>2, LifecycleAssumption
<1> HIDE DEF new
<1> QED
  BY <1>1, <1>6, <1>7, <1>8, <1>9 DEF Consistent, StoreConsistent

-----------------------------------------------------------------------------
(* The inductive invariant. *)

LEMMA InvInit == Init => Inv
<1> SUFFICES ASSUME Init PROVE Inv
  OBVIOUS
<1>1. NoCall \in Call
  BY DEF NoCall, Call
<1>2. db \in Database /\ work \in Database
  BY DEF Init, Database
<1>3. TypeOK
  BY <1>1, <1>2 DEF Init, TypeOK, Steps, Replies
<1>4. CallInv
  BY DEF Init, CallInv
<1>5. TxnInv
  BY StateStoreAssumption DEF Init, TxnInv, TxnAt, TxnSteps
<1>6. StoreConsistent
  BY DEF Init, StoreConsistent
<1> QED
  BY <1>3, <1>4, <1>5, <1>6 DEF Inv

\* The transaction invariant survives every step.
LEMMA TxnStep == Inv /\ [Next]_vars => TxnInv'
<1> SUFFICES ASSUME Inv, [Next]_vars PROVE TxnInv'
  OBVIOUS
<1> USE DEF local
<1>t. Typed /\ TxnInv /\ Typed'
  BY TypedStep DEF Inv, Typed
<1>s. step' \in [Clients -> Steps]
  BY <1>t DEF Typed, TypeOK
<1>1. ASSUME NEW c \in Clients, StartCall(c)
      PROVE  TxnInv'
  <2>1. /\ UNCHANGED <<db, work, lock>>
        /\ step[c] = "idle"
        /\ \A d \in Clients \ {c} :
              step'[d] = step[d] /\ call'[d] = call[d] /\ held'[d] = held[d]
        /\ step'[c] \in {"idle", "reading", "init_waiting", "cas_waiting"}
    BY <1>1, <1>t DEF StartCall, ReadRow, CallInitialize, CallAppend, Finish,
                      Goto, Typed, TypeOK
  <2> QED
    BY <1>t, <1>s, <2>1, OutsideTxn DEF TxnSteps
<1>2. ASSUME NEW c \in Clients, NEW cause, NEW cp, Finish(c, cause, cp),
             UNCHANGED <<db, work, lock>>, step[c] \notin TxnSteps
      PROVE  TxnInv'
  <2>1. step'[c] = "idle" /\ \A d \in Clients \ {c} :
            step'[d] = step[d] /\ call'[d] = call[d] /\ held'[d] = held[d]
    BY <1>2, <1>t DEF Finish, Typed, TypeOK
  <2> QED
    BY <1>2, <1>t, <1>s, <2>1, OutsideTxn DEF TxnSteps
<1>3. ASSUME NEW c \in Clients, ReadJournal(c)
      PROVE  TxnInv'
  BY <1>2, <1>3 DEF ReadJournal, TxnSteps
<1>4. ASSUME NEW c \in Clients, LockTimeout(c)
      PROVE  TxnInv'
  BY <1>2, <1>4 DEF LockTimeout, TxnSteps
<1>5. ASSUME NEW c \in Clients, Return(c)
      PROVE  TxnInv'
  BY <1>2, <1>5 DEF Return, TxnSteps
<1>6. ASSUME NEW c \in Clients, Begin(c)
      PROVE  TxnInv'
  <2>1. /\ UNCHANGED <<db, work, call, held>>
        /\ lock = None /\ lock' = c
        /\ step'[c] \in {"init_inserting", "cas_checking"}
        /\ \A d \in Clients \ {c} : step'[d] = step[d]
    BY <1>6, <1>t DEF Begin, Goto, Typed, TypeOK
  <2>2. work = db /\ \A d \in Clients : step[d] \notin TxnSteps
    BY <1>t, <2>1, StateStoreAssumption DEF TxnInv
  <2> QED
    BY <2>1, <2>2, StateStoreAssumption DEF TxnInv, TxnAt, TxnSteps
<1>7. ASSUME NEW c \in Clients, InsertRun(c)
      PROVE  TxnInv'
  <2>1. CASE work.runs[call[c].run] # None
    BY <1>7, <1>t, <2>1, EndTxn DEF InsertRun
  <2>2. CASE work.runs[call[c].run] = None
    <3>1. Initializing(c) /\ work = db
      BY <1>7, <1>t DEF InsertRun, Typed, CallInv, TxnInv, TxnAt
    <3>2. /\ work' = Created(c) /\ Goto(c, "committing")
          /\ UNCHANGED <<db, lock, call, row, held>>
      BY <1>7, <2>2, <3>1 DEF InsertRun, Created
    <3>3. Initializing(c)' /\ work' = Created(c)'
      BY <3>1, <3>2 DEF Initializing, Created
    <3>4. TxnAt(c)'
      BY <1>t, <2>2, <3>1, <3>2, <3>3 DEF TxnAt, Goto, Typed, TypeOK
    <3> QED
      BY <1>7, <1>t, <3>2, <3>4, WithinTxn DEF InsertRun, TxnSteps
  <2> QED
    BY <2>1, <2>2
<1>8. ASSUME NEW c \in Clients, CheckExpected(c)
      PROVE  TxnInv'
  <2>1. CASE \E cause \in Replies : Finish(c, cause, held[c]) /\ Rollback(c)
    BY <1>8, <1>t, <2>1, EndTxn DEF CheckExpected
  <2>2. CASE /\ work.runs[call[c].run] # None
             /\ work.runs[call[c].run].checkpoint = call[c].update.expected
             /\ Goto(c, "cas_inserting")
             /\ UNCHANGED <<work, lock, call, row, held, reply>>
    <3>1. work = db /\ UNCHANGED db
      BY <1>8, <1>t DEF CheckExpected, TxnInv, TxnAt
    <3>2. ExpectedIsCommitted(c)'
      BY <2>2, <3>1 DEF ExpectedIsCommitted
    <3>3. TxnAt(c)'
      BY <1>t, <2>2, <3>1, <3>2 DEF TxnAt, Goto, Typed, TypeOK
    <3> QED
      BY <1>8, <1>t, <2>2, <3>3, WithinTxn DEF CheckExpected, TxnSteps
  <2> QED
    BY <1>8, <2>1, <2>2 DEF CheckExpected, Replies
<1>9. ASSUME NEW c \in Clients, InsertTransition(c)
      PROVE  TxnInv'
  <2>1. CASE Finish(c, "storage_failure", held[c]) /\ Rollback(c)
    BY <1>9, <1>t, <2>1, EndTxn DEF InsertTransition
  <2>2. CASE /\ work' = [work EXCEPT !.journal[call[c].run] =
                            Append(@, call[c].update.event)]
             /\ Goto(c, "cas_updating")
             /\ UNCHANGED <<lock, call, row, held, reply>>
    <3>1. work = db /\ ExpectedIsCommitted(c) /\ UNCHANGED db
      BY <1>9, <1>t DEF InsertTransition, TxnInv, TxnAt
    <3>2. work' = Inserted(c)' /\ ExpectedIsCommitted(c)'
      BY <2>2, <3>1 DEF Inserted, ExpectedIsCommitted
    <3>3. TxnAt(c)'
      BY <1>t, <2>2, <3>2 DEF TxnAt, Goto, Typed, TypeOK
    <3> QED
      BY <1>9, <1>t, <2>2, <3>3, WithinTxn DEF InsertTransition, TxnSteps
  <2> QED
    BY <1>9, <2>1, <2>2 DEF InsertTransition
<1>10. ASSUME NEW c \in Clients, UpdateCheckpoint(c)
       PROVE  TxnInv'
  <2>1. CASE Finish(c, "conflict", held[c]) /\ Rollback(c)
    BY <1>10, <1>t, <2>1, EndTxn DEF UpdateCheckpoint
  <2>2. CASE /\ work' = [work EXCEPT !.runs[call[c].run] =
                            [@ EXCEPT !.checkpoint = NextCheckpoint(call[c].update)]]
             /\ Goto(c, "committing")
             /\ UNCHANGED <<lock, call, row, held, reply>>
    <3>1. /\ work = Inserted(c) /\ ExpectedIsCommitted(c) /\ UNCHANGED db
          /\ Appending(c)
      BY <1>10, <1>t DEF UpdateCheckpoint, TxnInv, TxnAt, Typed, CallInv
    <3>2. work' = Updated(c)
      BY <2>2, <3>1 DEF Updated
    <3>3. Updated(c)' = Updated(c) /\ ExpectedIsCommitted(c)' /\ Appending(c)'
      BY <2>2, <3>1 DEF Updated, Inserted, ExpectedIsCommitted, Appending
    <3>4. TxnAt(c)'
      BY <1>t, <2>2, <3>2, <3>3 DEF TxnAt, Goto, Typed, TypeOK
    <3> QED
      BY <1>10, <1>t, <2>2, <3>4, WithinTxn DEF UpdateCheckpoint, TxnSteps
  <2> QED
    BY <1>10, <2>1, <2>2 DEF UpdateCheckpoint
<1>11. ASSUME NEW c \in Clients, Commit(c)
       PROVE  TxnInv'
  <2>1. /\ step[c] = "committing" /\ db' = work /\ lock' = None
        /\ work' = work /\ step'[c] = "committed"
        /\ \A d \in Clients \ {c} : step'[d] = step[d]
    BY <1>11, <1>t DEF Commit, Goto, Typed, TypeOK
  <2>2. \A d \in Clients \ {c} : step[d] \notin TxnSteps
    BY <1>t, <2>1 DEF TxnInv, TxnSteps
  <2> QED
    BY <2>1, <2>2, StateStoreAssumption DEF TxnInv, TxnAt, TxnSteps
<1>12. ASSUME NEW c \in Clients, StorageError(c) \/ Crash(c)
       PROVE  TxnInv'
  BY <1>12, <1>t, EndTxn DEF StorageError, Crash
<1>13. CASE UNCHANGED vars
  <2>1. \A d \in Clients : TxnAt(d)'
    BY <1>13, <1>t, TxnAtFrame DEF vars, TxnInv
  <2> QED
    BY <1>13, <1>t, <2>1 DEF vars, TxnInv
<1> QED
  BY <1>1, <1>3, <1>4, <1>5, <1>6, <1>7, <1>8, <1>9, <1>10, <1>11, <1>12,
     <1>13 DEF Next, Proceed

\* Only a commit changes the committed database.
LEMMA OnlyCommitPublishes ==
    ASSUME Next, db' # db
    PROVE  \E c \in Clients : Commit(c)
BY DEF Next, StartCall, Proceed, ReadRow, CallInitialize, CallAppend,
       ReadJournal, Begin, LockTimeout, InsertRun, CheckExpected,
       InsertTransition, UpdateCheckpoint, Return, StorageError, Crash, local

\* What a commit publishes: the image after the call's writes.
LEMMA CommitPublishes ==
    ASSUME Inv, NEW c \in Clients, Commit(c)
    PROVE  \/ /\ Initializing(c)
              /\ db.runs[call[c].run] = None
              /\ db' = Created(c)
           \/ /\ Appending(c)
              /\ ExpectedIsCommitted(c)
              /\ db' = Updated(c)
BY DEF Inv, TxnInv, TxnAt, Commit

\* With prepared updates the committed database stays consistent.
LEMMA ConsistentStep == ~Assembles /\ Inv /\ [Next]_vars => StoreConsistent'
<1> SUFFICES ASSUME ~Assembles, Inv, [Next]_vars PROVE StoreConsistent'
  OBVIOUS
<1>1. CASE db' = db
  BY <1>1 DEF Inv, StoreConsistent
<1>2. CASE db' # db
  <2>1. PICK c \in Clients : Commit(c)
    BY <1>2, OnlyCommitPublishes DEF vars
  <2>2. Consistent(db)'
    <3>1. CASE Initializing(c) /\ db.runs[call[c].run] = None /\ db' = Created(c)
      BY <3>1, CreatedConsistent DEF Inv, Typed, Consistent
    <3>2. CASE Appending(c) /\ ExpectedIsCommitted(c) /\ db' = Updated(c)
      BY <3>2, UpdatedConsistent DEF Inv, Typed, Consistent
    <3> QED
      BY <2>1, <3>1, <3>2, CommitPublishes
  <2> QED
    BY <2>2 DEF Consistent, StoreConsistent
<1> QED
  BY <1>1, <1>2

LEMMA InvStep == ~Assembles /\ Inv /\ [Next]_vars => Inv'
BY TypedStep, TxnStep, ConsistentStep DEF Inv, Typed

\* Type correctness holds whatever updates the clients submit.
THEOREM TypeCorrect == Spec => []TypeOK
<1>1. Init => Typed
  BY InvInit DEF Inv, Typed
<1>2. Typed => TypeOK
  BY DEF Typed
<1> QED
  BY <1>1, <1>2, TypedStep, PTL DEF Spec

\* The inductive invariant, when every update comes from prepare_state_update.
THEOREM Invariance == ASSUME ~Assembles PROVE Spec => []Inv
<1>1. Init => Inv
  BY InvInit
<1>2. Inv /\ [Next]_vars => Inv'
  BY InvStep
<1> QED
  BY <1>1, <1>2, PTL DEF Spec

\* The committed database always replays: _validated_run accepts every run,
\* whatever crashed or failed between the INSERT and the UPDATE.
THEOREM Consistency == ASSUME ~Assembles PROVE Spec => []StoreConsistent
<1>1. Inv => StoreConsistent
  BY DEF Inv
<1> QED
  BY <1>1, Invariance, PTL

-----------------------------------------------------------------------------
(* The past is never rewritten. *)

\* No step removes or changes a run, an event, or a completed run.
LEMMA NeverRewrittenStep ==
    ASSUME ~Assembles, Inv, [Next]_vars, NEW r \in RunIds, db.runs[r] # None
    PROVE  /\ db'.runs[r] # None
           /\ db'.runs[r].identity = db.runs[r].identity
           /\ \/ db'.journal[r] = db.journal[r]
              \/ /\ db.runs[r].checkpoint.lifecycle.state # "COMPLETED"
                 /\ Len(db'.journal[r]) = Len(db.journal[r]) + 1
                 /\ SubSeq(db'.journal[r], 1, Len(db.journal[r])) = db.journal[r]
<1>1. CASE db' = db
  BY <1>1
<1>2. ASSUME NEW c \in Clients, Initializing(c),
             db.runs[call[c].run] = None, db' = Created(c)
      PROVE  db'.runs[r] = db.runs[r] /\ db'.journal[r] = db.journal[r]
  BY <1>2 DEF Created, Inv, TypeOK, Database
<1>3. ASSUME NEW c \in Clients, Appending(c), ExpectedIsCommitted(c),
             db' = Updated(c), call[c].run # r
      PROVE  db'.runs[r] = db.runs[r] /\ db'.journal[r] = db.journal[r]
  BY <1>3 DEF Updated, Inserted, Inv, TypeOK, Database
<1>4. ASSUME NEW c \in Clients, Appending(c), ExpectedIsCommitted(c),
             db' = Updated(c), call[c].run = r
      PROVE  /\ db'.runs[r] # None
             /\ db'.runs[r].identity = db.runs[r].identity
             /\ db.runs[r].checkpoint.lifecycle.state # "COMPLETED"
             /\ Len(db'.journal[r]) = Len(db.journal[r]) + 1
             /\ SubSeq(db'.journal[r], 1, Len(db.journal[r])) = db.journal[r]
  <2> DEFINE u == call[c].update
             new == [db.runs[r] EXCEPT !.checkpoint = NextCheckpoint(u)]
  <2>1. u \in StateUpdate /\ u.event \in LifecycleTransition
    BY <1>4 DEF Appending, StateUpdate
  <2>2. db.runs[r] \in RunRow /\ db.journal[r] \in Seq(LifecycleTransition)
    BY <1>4 DEF Inv, TypeOK, Database
  <2>3. db'.runs[r] = new /\ db'.journal[r] = Append(db.journal[r], u.event)
    BY <1>4 DEF Updated, Inserted, Inv, TypeOK, Database
  <2>4. new \in RunRow /\ new.identity = db.runs[r].identity
    <3>1. NextCheckpoint(u) \in RunCheckpoint
      BY <2>1, NextType
    <3> QED
      BY <2>2, <3>1 DEF RunRow
  <2>5. db.runs[r].checkpoint.lifecycle.state # "COMPLETED"
    BY <1>4 DEF Appending, ExpectedIsCommitted, EventReplays, AdvanceVerdict
  <2> HIDE DEF new, u
  <2> QED
    BY <2>1, <2>2, <2>3, <2>4, <2>5, AppendKeepsPrefix, LifecycleAssumption
<1> QED
  BY <1>1, <1>2, <1>3, <1>4, OnlyCommitPublishes, CommitPublishes DEF vars

\* A run's identity is immutable, its journal only grows, one event at a time,
\* and a completed run is never touched again.
THEOREM HistoryPreserved == ASSUME ~Assembles PROVE Spec => RunNeverRewritten
<1>1. Inv /\ [Next]_vars =>
        \A r \in RunIds : db.runs[r] # None =>
          /\ db'.runs[r] # None
          /\ db'.runs[r].identity = db.runs[r].identity
          /\ \/ db'.journal[r] = db.journal[r]
             \/ /\ db.runs[r].checkpoint.lifecycle.state # "COMPLETED"
                /\ Len(db'.journal[r]) = Len(db.journal[r]) + 1
                /\ SubSeq(db'.journal[r], 1, Len(db.journal[r])) = db.journal[r]
  BY NeverRewrittenStep
<1> QED
  BY <1>1, Invariance, PTL DEF Spec, RunNeverRewritten

-----------------------------------------------------------------------------
(* Acknowledged updates. *)

\* The committed history is extended, never rewritten: an event once in it stays.
LEMMA JournalKeeps ==
    ASSUME ~Assembles, Inv, Next, NEW e \in LifecycleTransition, InJournal(e)
    PROVE  InJournal(e)'
<1> DEFINE r == e.run_id
<1>1. r \in RunIds /\ db.journal[r] \in Seq(LifecycleTransition)
  BY DEF LifecycleTransition, Inv, TypeOK, Database
<1>2. db.runs[r] # None
  BY <1>1 DEF InJournal, Inv, StoreConsistent
<1>3. \/ db'.journal[r] = db.journal[r]
      \/ /\ Len(db'.journal[r]) = Len(db.journal[r]) + 1
         /\ SubSeq(db'.journal[r], 1, Len(db.journal[r])) = db.journal[r]
  BY <1>1, <1>2, NeverRewrittenStep
<1>4. db'.journal[r] \in Seq(LifecycleTransition)
  BY <1>1, InvStep DEF Inv, TypeOK, Database
<1> DEFINE j == db.journal[r]
           k == db'.journal[r]
<1>5. CASE Len(k) = Len(j) + 1 /\ SubSeq(k, 1, Len(j)) = j
  <2>1. e.revision \in 1..Len(j) /\ j[e.revision] = e
    BY <1>1 DEF InJournal
  <2>2. e.revision \in DOMAIN k /\ k[e.revision] = SubSeq(k, 1, Len(j))[e.revision]
    BY <1>1, <1>4, <1>5, <2>1
  <2> QED
    BY <1>5, <2>1, <2>2 DEF InJournal
<1> QED
  BY <1>3, <1>5 DEF InJournal

\* A commit puts the update's event at a revision nothing occupied.
LEMMA CommitFills ==
    ASSUME ~Assembles, Inv, NEW c \in Clients, Commit(c),
           call[c].op = "compare_and_append"
    PROVE  /\ ~ \E n \in DOMAIN db.journal[call[c].update.event.run_id] :
                  n = call[c].update.event.revision
           /\ InJournal(call[c].update.event)'
<1> DEFINE r == call[c].run
           u == call[c].update
           e == call[c].update.event
           j == db.journal[r]
           l == db.runs[r].checkpoint.lifecycle
<1>1. Appending(c) /\ ExpectedIsCommitted(c) /\ db' = Updated(c)
  BY CommitPublishes DEF Initializing
<1>2. e \in LifecycleTransition /\ r \in RunIds
  BY <1>1, LifecycleAssumption DEF Appending, StateUpdate, RunCheckpoint
<1>3. RunReplays(r, db.runs[r], j) /\ j \in Seq(LifecycleTransition)
  BY <1>1, <1>2 DEF Inv, StoreConsistent, ExpectedIsCommitted, TypeOK, Database
<1>4. e = EventOf(l, e.to_state, e.occurred_at, e.actor, e.final_state)
  BY <1>1 DEF Appending, ExpectedIsCommitted, EventReplays
<1>5. e.run_id = r
  <2>1. l.run_id = r
    BY <1>3 DEF RunReplays, WellFormedCheckpoint
  <2> QED
    BY <1>4, <2>1 DEF EventOf
<1>7. l.revision = Len(j)
  BY <1>3, RevisionIsLength
<1>8. e.revision = Len(j) + 1
  BY <1>4, <1>7 DEF EventOf
<1>9. db'.journal[r] = Append(j, e)
  BY <1>1, <1>2 DEF Updated, Inserted, Inv, TypeOK, Database
<1>10. call'[c] = call[c]
  BY DEF Commit, local
<1>11. ~ \E n \in DOMAIN j : n = e.revision
  BY <1>3, <1>8
<1>12. /\ e.revision \in DOMAIN db'.journal[r]
       /\ db'.journal[r][e.revision] = e
  BY <1>2, <1>3, <1>8, <1>9
<1> QED
  BY <1>5, <1>10, <1>11, <1>12 DEF InJournal

\* Acknowledgements stay backed by the journal, one client per slot.
LEMMA AckStep == ~Assembles /\ Inv /\ AckInv /\ [Next]_vars => AckInv'
<1> SUFFICES ASSUME ~Assembles, Inv, AckInv, [Next]_vars PROVE AckInv'
  OBVIOUS
<1>1. \A a \in acked : a.event \in LifecycleTransition
  BY DEF Inv, TypeOK
<1>2. \A c \in Clients : Landed(c) => call[c].update.event \in LifecycleTransition
  BY DEF Landed, Inv, CallInv, Initializing, Appending, StateUpdate
<1>3. CASE UNCHANGED vars
  BY <1>3 DEF vars, AckInv, InJournal, Landed, SameSlot
<1>4. CASE Next /\ \E c \in Clients : Commit(c)
  <2>1. PICK c \in Clients : Commit(c)
    BY <1>4
  <2>2. /\ acked' = acked /\ call' = call /\ step[c] = "committing"
        /\ \A d \in Clients \ {c} : Landed(d)' <=> Landed(d)
        /\ Landed(c)' <=> call[c].op = "compare_and_append"
    BY <2>1 DEF Commit, local, Goto, Landed, Inv, TypeOK
  <2>3. \A a \in acked : InJournal(a.event)'
    BY <1>1, <1>4, JournalKeeps DEF AckInv
  <2>4. \A d \in Clients \ {c} : Landed(d) => InJournal(call[d].update.event)'
    BY <1>2, <1>4, <2>2, JournalKeeps DEF AckInv, InJournal
  <2>5. ASSUME call[c].op = "compare_and_append"
        PROVE  /\ InJournal(call[c].update.event)'
               /\ \A a \in acked : ~SameSlot(a.event, call[c].update.event)
               /\ \A d \in Clients \ {c} : Landed(d) =>
                     ~SameSlot(call[d].update.event, call[c].update.event)
    <3>1. ~ \E n \in DOMAIN db.journal[call[c].update.event.run_id] :
                n = call[c].update.event.revision
      BY <2>1, <2>5, CommitFills
    <3> QED
      BY <2>1, <2>5, <3>1, CommitFills DEF AckInv, InJournal, SameSlot
  <2> QED
    BY <2>2, <2>3, <2>4, <2>5 DEF AckInv, SameSlot
<1>5. CASE Next /\ ~ \E c \in Clients : Commit(c)
  <2>1. db' = db
    BY <1>5, OnlyCommitPublishes
  <2>2. ASSUME NEW c \in Clients, Return(c), Landed(c)
        PROVE  AckInv'
    <3>1. /\ acked' = acked \cup {[client |-> c, event |-> call[c].update.event]}
          /\ step'[c] = "idle"
          /\ \A d \in Clients \ {c} : step'[d] = step[d] /\ call'[d] = call[d]
      BY <2>2 DEF Return, Landed, Finish, Inv, TypeOK
    <3> QED
      BY <2>1, <2>2, <3>1 DEF AckInv, InJournal, Landed, SameSlot
  <2>3. CASE ~ \E c \in Clients : Return(c) /\ Landed(c)
    <3>1. acked' = acked
      BY <1>5, <2>3 DEF Next, StartCall, Proceed, ReadRow, CallInitialize,
         CallAppend, ReadJournal, Begin, LockTimeout, InsertRun, CheckExpected,
         InsertTransition, UpdateCheckpoint, Return, StorageError, Crash, local,
         Landed
    <3>2. ASSUME NEW d \in Clients, Landed(d)'
          PROVE  Landed(d) /\ call'[d] = call[d]
      <4>1. PICK c \in Clients :
                StartCall(c) \/ Proceed(c) \/ StorageError(c) \/ Crash(c)
        BY <1>5 DEF Next
      <4>2. step'[c] # "committed"
        BY <1>5, <4>1 DEF StartCall, Proceed, ReadRow, CallInitialize,
           CallAppend, ReadJournal, Begin, LockTimeout, InsertRun, CheckExpected,
           InsertTransition, UpdateCheckpoint, Return, StorageError, Crash,
           Finish, Goto, Inv, TypeOK
      <4>3. d # c
        BY <3>2, <4>2 DEF Landed
      <4>4. step'[d] = step[d] /\ call'[d] = call[d]
        BY <1>5, <4>1, <4>3 DEF StartCall, Proceed, ReadRow, CallInitialize,
           CallAppend, ReadJournal, Begin, LockTimeout, InsertRun, CheckExpected,
           InsertTransition, UpdateCheckpoint, Return, StorageError, Crash,
           Finish, Goto, Inv, TypeOK, local
      <4> QED
        BY <3>2, <4>4 DEF Landed
    <3> QED
      BY <2>1, <3>1, <3>2 DEF AckInv, InJournal, SameSlot
  <2> QED
    BY <2>2, <2>3
<1> QED
  BY <1>3, <1>4, <1>5 DEF vars

LEMMA Acknowledgement == ASSUME ~Assembles PROVE Spec => []AckInv
<1>1. Init => AckInv
  BY DEF Init, AckInv, Landed
<1>2. Inv /\ AckInv /\ [Next]_vars => AckInv'
  BY AckStep
<1> QED
  BY <1>1, <1>2, Invariance, PTL DEF Spec

\* An update compare_and_append returned for is in the journal at its revision
\* for good.
THEOREM Durability == ASSUME ~Assembles PROVE Spec => []AckedDurable
<1>1. AckInv => AckedDurable
  BY DEF AckInv, AckedDurable, InJournal
<1> QED
  BY <1>1, Acknowledgement, PTL

\* Of any number of clients racing from one checkpoint one is told it won.
THEOREM SingleWinner == ASSUME ~Assembles PROVE Spec => []OneWinner
<1>1. AckInv => OneWinner
  BY DEF AckInv, OneWinner, SameSlot
<1> QED
  BY <1>1, Acknowledgement, PTL

=============================================================================
