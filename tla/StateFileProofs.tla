-------------------------- MODULE StateFileProofs ---------------------------
(***************************************************************************)
(* Proofs about StateFile for any processes, runs, contracts, instants and *)
(* bounds: what opening may do to the schema, that the store accepts no    *)
(* bytes it would not have written itself, however the file was damaged,   *)
(* and that identity, checkpoint and journal vouch for each other: one     *)
(* damaged cell changes neither what is read nor which contract resumes.   *)
(***************************************************************************)
EXTENDS StateFile, LifecycleProofs, SequenceTheorems

-----------------------------------------------------------------------------
(* The schema. *)

Schemas == [version : Nat, tables : SUBSET Tables]

InTransaction ==
    {"reading", "creating_runs", "creating_transitions", "stamping", "committing"}

ConnStates == {"closed", "waiting", "open"} \cup InTransaction

\* What the open transaction has done to the schema at each of its statements.
DraftAt(c) ==
    /\ conn[c] = "reading" => draft = schema
    /\ conn[c] = "creating_runs" => draft = schema /\ schema.version = 0
    /\ conn[c] = "creating_transitions" =>
          /\ schema.version = 0
          /\ draft = [schema EXCEPT !.tables = @ \cup {"alicerce_runs"}]
    /\ conn[c] = "stamping" =>
          schema.version = 0 /\ draft = [version |-> 0, tables |-> Tables]
    /\ conn[c] = "committing" =>
          draft = schema \/ (schema.version = 0 /\ draft = Complete)

OpeningInv ==
    /\ conn \in [Clients -> ConnStates]
    /\ origin \in Schemas /\ schema \in Schemas
    /\ lock = None => draft = schema
    /\ \A c \in Clients : lock = c <=> conn[c] \in InTransaction
    /\ \A c \in Clients : DraftAt(c)
    /\ SchemaAllOrNothing

\* A statement of one process, inside its transaction.
LEMMA StatementStep ==
    ASSUME OpeningInv, NEW c \in Clients, NEW s \in InTransaction,
           conn[c] \in InTransaction, Goto(c, s),
           UNCHANGED <<origin, schema, lock>>, DraftAt(c)'
    PROVE  OpeningInv'
<1>1. conn' \in [Clients -> ConnStates] /\ conn'[c] = s
  BY DEF OpeningInv, Goto, ConnStates
<1>2. \A d \in Clients \ {c} : conn'[d] = conn[d] /\ conn[d] \notin InTransaction
  BY DEF OpeningInv, Goto
<1>3. \A d \in Clients : DraftAt(d)'
  BY <1>1, <1>2 DEF DraftAt, InTransaction
<1>4. lock # None
  BY StateFileAssumption DEF OpeningInv
<1> QED
  BY <1>1, <1>2, <1>3, <1>4 DEF OpeningInv, SchemaAllOrNothing

\* An opening that fails rolls back what its transaction did.
LEMMA FailureStep ==
    ASSUME OpeningInv, NEW c \in Clients, OpenFails(c)
    PROVE  OpeningInv'
<1>1. /\ conn' \in [Clients -> ConnStates] /\ conn'[c] = "closed"
      /\ \A d \in Clients \ {c} : conn'[d] = conn[d]
      /\ UNCHANGED <<origin, schema>>
  BY DEF OpeningInv, OpenFails, Goto, ConnStates
<1>2. CASE lock = c
  <2>1. lock' = None /\ draft' = schema
    BY <1>2 DEF OpenFails
  <2>2. \A d \in Clients : conn'[d] \notin InTransaction
    BY <1>1, <1>2 DEF OpeningInv, InTransaction
  <2> QED
    BY <1>1, <2>1, <2>2, StateFileAssumption
       DEF OpeningInv, DraftAt, InTransaction, SchemaAllOrNothing
<1>3. CASE lock # c
  <2>1. UNCHANGED <<lock, draft>>
    BY <1>3 DEF OpenFails
  <2>2. \A d \in Clients : DraftAt(d)'
    BY <1>1, <2>1 DEF OpeningInv, DraftAt
  <2> QED
    BY <1>1, <1>3, <2>1, <2>2 DEF OpeningInv, InTransaction, SchemaAllOrNothing
<1> QED
  BY <1>2, <1>3

LEMMA OpeningStep == OpeningInv /\ [Next]_vars => OpeningInv'
<1> SUFFICES ASSUME OpeningInv, [Next]_vars PROVE OpeningInv'
  OBVIOUS
<1>1. CASE UNCHANGED opening
  BY <1>1 DEF opening, OpeningInv, DraftAt, SchemaAllOrNothing
<1>2. ASSUME NEW c \in Clients, Open(c) \/ BeginOpen(c) PROVE OpeningInv'
  <2>1. /\ conn' \in [Clients -> ConnStates]
        /\ \A d \in Clients \ {c} : conn'[d] = conn[d]
        /\ UNCHANGED <<origin, schema, draft>>
    BY <1>2 DEF OpeningInv, Open, BeginOpen, Goto, ConnStates, InTransaction
  <2>2. CASE Open(c)
    <3>1. conn[c] = "closed" /\ conn'[c] = "waiting" /\ lock' = lock
      BY <2>2 DEF OpeningInv, Open, Goto
    <3> QED
      BY <2>1, <3>1 DEF OpeningInv, DraftAt, InTransaction, SchemaAllOrNothing
  <2>3. CASE BeginOpen(c)
    <3>1. /\ conn[c] = "waiting" /\ conn'[c] = "reading" /\ lock = None /\ lock' = c
          /\ draft = schema
      BY <2>3 DEF OpeningInv, BeginOpen, Goto
    <3>2. \A d \in Clients : conn[d] \notin InTransaction
      BY <3>1, StateFileAssumption DEF OpeningInv
    <3> QED
      BY <2>1, <3>1, <3>2, StateFileAssumption
         DEF OpeningInv, DraftAt, InTransaction, SchemaAllOrNothing
  <2> QED
    BY <1>2, <2>2, <2>3
<1>3. ASSUME NEW c \in Clients, ReadVersion(c) PROVE OpeningInv'
  <2>1. conn[c] = "reading" /\ draft = schema
    BY <1>3 DEF ReadVersion, OpeningInv, DraftAt
  <2>2. ASSUME NEW s \in {"creating_runs", "committing"}, Goto(c, s),
               UNCHANGED <<origin, schema, draft, lock>>,
               s = "creating_runs" => schema.version = 0
        PROVE  OpeningInv'
    <3>1. conn'[c] = s
      BY <2>2 DEF OpeningInv, Goto
    <3>2. DraftAt(c)'
      BY <2>1, <2>2, <3>1 DEF DraftAt
    <3> QED
      BY <2>1, <2>2, <3>2, StatementStep DEF InTransaction
  <2> QED
    BY <1>3, <2>1, <2>2, FailureStep DEF ReadVersion
<1>4. ASSUME NEW c \in Clients, CreateRuns(c) PROVE OpeningInv'
  <2>1. conn[c] = "creating_runs" /\ draft = schema /\ schema.version = 0
    BY <1>4 DEF CreateRuns, CreateTable, OpeningInv, DraftAt
  <2>2. CASE OpenFails(c)
    BY <2>2, FailureStep
  <2>3. CASE ~OpenFails(c)
    <3>1. /\ draft' = [draft EXCEPT !.tables = @ \cup {"alicerce_runs"}]
          /\ Goto(c, "creating_transitions") /\ UNCHANGED <<origin, schema, lock>>
      BY <1>4, <2>3 DEF CreateRuns, CreateTable
    <3>2. conn'[c] = "creating_transitions"
      BY <3>1 DEF OpeningInv, Goto
    <3>3. DraftAt(c)'
      BY <2>1, <3>1, <3>2 DEF DraftAt
    <3> QED
      BY <2>1, <3>1, <3>3, StatementStep DEF InTransaction
  <2> QED
    BY <2>2, <2>3
<1>5. ASSUME NEW c \in Clients, CreateTransitions(c) PROVE OpeningInv'
  <2>1. /\ conn[c] = "creating_transitions" /\ schema \in Schemas /\ schema.version = 0
        /\ draft = [schema EXCEPT !.tables = @ \cup {"alicerce_runs"}]
    BY <1>5 DEF CreateTransitions, CreateTable, OpeningInv, DraftAt
  <2>2. CASE OpenFails(c)
    BY <2>2, FailureStep
  <2>3. CASE ~OpenFails(c)
    <3>1. /\ draft' = [draft EXCEPT !.tables = @ \cup {"alicerce_transitions"}]
          /\ Goto(c, "stamping") /\ UNCHANGED <<origin, schema, lock>>
      BY <1>5, <2>3 DEF CreateTransitions, CreateTable
    <3>2. conn'[c] = "stamping"
      BY <3>1 DEF OpeningInv, Goto
    <3>3. draft' = [version |-> 0, tables |-> Tables]
      BY <2>1, <3>1 DEF Schemas, Tables
    <3>4. DraftAt(c)'
      BY <2>1, <3>1, <3>2, <3>3 DEF DraftAt
    <3> QED
      BY <2>1, <3>1, <3>4, StatementStep DEF InTransaction
  <2> QED
    BY <2>2, <2>3
<1>6. ASSUME NEW c \in Clients, Stamp(c) PROVE OpeningInv'
  <2>1. /\ conn[c] = "stamping" /\ schema.version = 0
        /\ draft = [version |-> 0, tables |-> Tables]
    BY <1>6 DEF Stamp, OpeningInv, DraftAt
  <2>2. /\ draft' = Complete /\ conn'[c] = "committing"
        /\ Goto(c, "committing") /\ UNCHANGED <<origin, schema, lock>>
    BY <1>6, <2>1 DEF Stamp, OpeningInv, Goto, Complete
  <2>3. DraftAt(c)'
    BY <2>1, <2>2 DEF DraftAt, Complete
  <2> QED
    BY <2>1, <2>2, <2>3, StatementStep DEF InTransaction
<1>7. ASSUME NEW c \in Clients, CommitOpen(c) PROVE OpeningInv'
  <2>1. /\ conn[c] = "committing" /\ schema' = draft /\ lock' = None
        /\ draft' = draft /\ origin' = origin
        /\ conn' \in [Clients -> ConnStates] /\ conn'[c] = "open"
        /\ \A d \in Clients \ {c} : conn'[d] = conn[d]
    BY <1>7 DEF CommitOpen, OpeningInv, Goto, ConnStates
  <2>2. draft = schema \/ (schema.version = 0 /\ draft = Complete)
    BY <2>1 DEF OpeningInv, DraftAt
  <2>3. SchemaAllOrNothing' /\ schema' \in Schemas
    BY <2>1, <2>2 DEF OpeningInv, SchemaAllOrNothing, Complete, Schemas, Tables
  <2>4. \A d \in Clients : conn'[d] \notin InTransaction
    BY <2>1 DEF OpeningInv, InTransaction
  <2> QED
    BY <2>1, <2>3, <2>4, StateFileAssumption DEF OpeningInv, DraftAt, InTransaction
<1>8. CASE Use \/ \E r \in DOMAIN runs : Damage(r)
  <2>1. ASSUME NEW r PROVE (LoadRun(r) \/ Damage(r)) => UNCHANGED opening
    BY DEF LoadRun, Damage
  <2>2. ASSUME NEW r, NEW b, NEW baseline, NEW policy
        PROVE  ResumeRun(r, b, baseline, policy) => UNCHANGED opening
    BY DEF ResumeRun
  <2>3. ASSUME NEW r, NEW b, NEW baseline, NEW policy, NEW now
        PROVE  StartRun(b, r, baseline, policy, now) => UNCHANGED opening
    BY DEF StartRun
  <2>4. ASSUME NEW u PROVE AppendTransition(u) => UNCHANGED opening
    BY DEF AppendTransition
  <2>5. UNCHANGED opening
    BY <1>8, <2>1, <2>2, <2>3, <2>4 DEF Use
  <2> QED
    BY <1>1, <2>5
<1> QED
  BY <1>1, <1>2, <1>3, <1>4, <1>5, <1>6, <1>7, <1>8, FailureStep
     DEF Next, OpenStep, LockTimeout, OpenError, vars

\* Whatever fails or dies while any number of processes open one file, its schema is
\* the one it was found with or the complete one, and a file of another version is
\* left alone.
THEOREM SchemaIsWhole == Spec => []SchemaAllOrNothing
<1>1. Init => OpeningInv
  BY StateFileAssumption
     DEF Init, OpeningInv, ConnStates, InTransaction, Schemas, DraftAt,
         SchemaAllOrNothing
<1>2. OpeningInv => SchemaAllOrNothing
  BY DEF OpeningInv
<1> QED
  BY <1>1, <1>2, OpeningStep, PTL DEF Spec

-----------------------------------------------------------------------------
(* The codec, field by field. *)

LEMMA NameRoundTrip == \A x : NameOf(Name(x)) = x
BY DEF NameOf, Name, Text

LEMMA NamesHoldNames ==
    ASSUME NEW S, NEW v \in Names(S)
    PROVE  NameOf(v) \in S /\ v = Name(NameOf(v))
BY NameRoundTrip DEF Names

LEMMA InstantRoundTrip == \A i : InstantOf(Timestamp(i)) = i
BY DEF InstantOf, Timestamp, Time, Text

\* An accepted timestamp is the text strftime writes for what strptime reads.
LEMMA TimestampIsCanonical ==
    ASSUME NEW v, ReadsTimestamp(v)
    PROVE  InstantOf(v) \in Instants /\ v = Timestamp(InstantOf(v))
BY InstantRoundTrip DEF ReadsTimestamp

\* Timestamps of years with four digits are read back.
LEMMA TimestampIsRead ==
    ASSUME NEW i \in Instants \ ShortYears
    PROVE  ReadsTimestamp(Timestamp(i))
BY DEF ReadsTimestamp, Timestamp

LEMMA NameIsNotNull == \A x : Name(x) # Null
<1> SUFFICES ASSUME NEW x, Name(x) = Null PROVE FALSE
  OBVIOUS
<1>1. Name(x)[1] = "text" /\ Null[1] = "null"
  BY DEF Name, Text, Null
<1> QED
  BY <1>1

LEMMA OptionalRoundTrip ==
    ASSUME NEW x \in FinalStates \cup {None}
    PROVE  /\ OptionalOf(OptionalText(x)) = x
           /\ OptionalText(x) \in Names(FinalStates) \cup {Null}
BY NameRoundTrip, NameIsNotNull DEF OptionalOf, OptionalText, Names

LEMMA OptionalIsCanonical ==
    ASSUME NEW v \in Names(FinalStates) \cup {Null}
    PROVE  /\ OptionalOf(v) \in FinalStates \cup {None}
           /\ v = OptionalText(OptionalOf(v))
<1>1. CASE v = Null
  BY <1>1 DEF OptionalOf, OptionalText
<1>2. CASE v # Null
  <2>1. NameOf(v) \in FinalStates /\ v = Name(NameOf(v))
    BY <1>2, NamesHoldNames
  <2> QED
    BY <1>2, <2>1, LifecycleAssumption DEF OptionalOf, OptionalText
<1> QED
  BY <1>1, <1>2

\* What the bytes of a cell hold: a value whose fields are values.
Document(v) ==
    /\ Shaped(v)
    /\ Kind(v) = "object" => \A k \in DOMAIN Fields(v) : Shaped(Fields(v)[k])

LEMMA ObjectIsShaped ==
    ASSUME NEW f, IsFunction(f)
    PROVE  Shaped(Object(f)) /\ Kind(Object(f)) = "object" /\ Fields(Object(f)) = f
BY DEF Shaped, Object, Kind, Fields

LEMMA ShapedObject ==
    ASSUME NEW v, Shaped(v), Kind(v) = "object"
    PROVE  v = Object(Fields(v)) /\ IsFunction(Fields(v))
<1>1. v # Null
  BY DEF Kind, Null
<1> QED
  BY <1>1 DEF Shaped, Object

LEMMA ShapedRevision ==
    ASSUME NEW v, Shaped(v), IsRevision(v)
    PROVE  v = Number(v[2])
<1>1. v # Null
  BY DEF IsRevision, Kind, Null
<1> QED
  BY <1>1 DEF Shaped, IsRevision, Number, Kind, Fields

LEMMA ScalarsAreShaped ==
    /\ \A x : Shaped(Name(x)) /\ Shaped(Number(x)) /\ Shaped(Timestamp(x))
    /\ \A x : Shaped(OptionalText(x))
<1>1. \A t : Shaped(Text(t))
  BY DEF Shaped, Text, Kind, Fields
<1>2. \A n : Shaped(Number(n))
  BY DEF Shaped, Number, Kind, Fields
<1> QED
  BY <1>1, <1>2 DEF Name, Timestamp, Time, OptionalText, Shaped

-----------------------------------------------------------------------------
(* Identities, checkpoints and transitions. *)

LEMMA IdentityRoundTrip ==
    ASSUME NEW id \in RunIdentity
    PROVE  IdentityFromPayload(IdentityPayload(id)) = id
<1>1. Fields(IdentityPayload(id)) =
        [baseline_sha |-> Name(id.baseline_sha), contract_hash |-> Name(id.contract_hash),
         contract_id |-> Name(id.contract_id),
         contract_version |-> Name(id.contract_version),
         created_at |-> Timestamp(id.created_at), format |-> Name("run_identity"),
         policy_hash |-> Name(id.policy_hash), run_id |-> Name(id.run_id),
         version |-> Number(1)]
  BY DEF IdentityPayload, Object, Fields
<1> QED
  BY <1>1, NameRoundTrip, InstantRoundTrip DEF IdentityFromPayload, RunIdentity

LEMMA IdentityIsCanonical ==
    ASSUME NEW v, Shaped(v), IdentityPayloadAccepted(v)
    PROVE  /\ IdentityFromPayload(v) \in RunIdentity
           /\ IdentityPayload(IdentityFromPayload(v)) = v
<1> DEFINE p == Fields(v)
           id == IdentityFromPayload(v)
<1>1. v = Object(p) /\ IsFunction(p) /\ DOMAIN p = IdentityKeys
  BY ShapedObject DEF IdentityPayloadAccepted, HasFields
<1>2. p.format = Name("run_identity") /\ p.version = Number(1)
  BY DEF IdentityPayloadAccepted, Header
<1>3. /\ id.run_id \in RunIds /\ p.run_id = Name(id.run_id)
      /\ id.contract_id \in ContractIds /\ p.contract_id = Name(id.contract_id)
      /\ id.contract_version \in ContractVersions
      /\ p.contract_version = Name(id.contract_version)
  BY NamesHoldNames DEF IdentityPayloadAccepted, IdentityFromPayload
<1>4. /\ id.contract_hash \in Digests /\ p.contract_hash = Name(id.contract_hash)
      /\ id.baseline_sha \in BaselineShas /\ p.baseline_sha = Name(id.baseline_sha)
      /\ id.policy_hash \in Digests /\ p.policy_hash = Name(id.policy_hash)
  BY NamesHoldNames DEF IdentityPayloadAccepted, IdentityFromPayload
<1>5. id.created_at \in Instants /\ p.created_at = Timestamp(id.created_at)
  BY TimestampIsCanonical DEF IdentityPayloadAccepted, IdentityFromPayload
<1>6. id \in RunIdentity
  BY <1>3, <1>4, <1>5 DEF IdentityFromPayload, RunIdentity
<1> HIDE DEF id, p
<1>7. p = [baseline_sha |-> Name(id.baseline_sha),
           contract_hash |-> Name(id.contract_hash),
           contract_id |-> Name(id.contract_id),
           contract_version |-> Name(id.contract_version),
           created_at |-> Timestamp(id.created_at), format |-> Name("run_identity"),
           policy_hash |-> Name(id.policy_hash), run_id |-> Name(id.run_id),
           version |-> Number(1)]
  BY <1>1, <1>2, <1>3, <1>4, <1>5 DEF IsFunction, IdentityKeys
<1> QED
  BY <1>1, <1>6, <1>7 DEF id, IdentityPayload

\* An identity with a four-digit year is accepted as it was written.
LEMMA IdentityIsRead ==
    ASSUME NEW id \in RunIdentity, id.created_at \notin ShortYears
    PROVE  /\ IdentityPayloadAccepted(IdentityPayload(id))
           /\ IdentityAccepted(SerializeIdentity(id))
<1> DEFINE p == [baseline_sha |-> Name(id.baseline_sha),
                 contract_hash |-> Name(id.contract_hash),
                 contract_id |-> Name(id.contract_id),
                 contract_version |-> Name(id.contract_version),
                 created_at |-> Timestamp(id.created_at), format |-> Name("run_identity"),
                 policy_hash |-> Name(id.policy_hash), run_id |-> Name(id.run_id),
                 version |-> Number(1)]
<1>1. /\ Kind(IdentityPayload(id)) = "object" /\ Fields(IdentityPayload(id)) = p
      /\ IsFunction(p) /\ DOMAIN p = IdentityKeys
  BY DEF IdentityPayload, Object, Kind, Fields, IsFunction, IdentityKeys
<1>2. Header(p, "run_identity")
  BY DEF Header
<1>3. /\ p.run_id \in Names(RunIds) /\ p.contract_id \in Names(ContractIds)
      /\ p.contract_version \in Names(ContractVersions)
      /\ p.contract_hash \in Names(Digests) /\ p.baseline_sha \in Names(BaselineShas)
      /\ p.policy_hash \in Names(Digests)
  BY DEF Names, RunIdentity
<1>4. ReadsTimestamp(p.created_at)
  BY TimestampIsRead DEF RunIdentity
<1> HIDE DEF p
<1>5. IdentityPayloadAccepted(IdentityPayload(id))
  BY <1>1, <1>2, <1>3, <1>4 DEF IdentityPayloadAccepted, HasFields
<1>6. Loaded(SerializeIdentity(id)) /\ SerializeIdentity(id).value = IdentityPayload(id)
  BY <1>1 DEF Loaded, SerializeIdentity, Dump, Bytes, Parses
<1> QED
  BY <1>5, <1>6 DEF IdentityAccepted

\* The document a checkpoint is written as.
CheckpointFields(cp) ==
    [final_state |-> OptionalText(cp.lifecycle.final_state),
     format |-> Name("run_checkpoint"), identity |-> IdentityPayload(cp.identity),
     revision |-> Number(cp.lifecycle.revision), state |-> Name(cp.lifecycle.state),
     updated_at |-> Timestamp(cp.lifecycle.updated_at), version |-> Number(1)]

LEMMA CheckpointWritten ==
    ASSUME NEW cp
    PROVE  /\ SerializeCheckpoint(cp) = Dump(Object(CheckpointFields(cp)))
           /\ SerializeCheckpoint(cp).value = Object(CheckpointFields(cp))
           /\ Kind(SerializeCheckpoint(cp).value) = "object"
           /\ Fields(SerializeCheckpoint(cp).value) = CheckpointFields(cp)
           /\ IsFunction(CheckpointFields(cp))
           /\ DOMAIN CheckpointFields(cp) = CheckpointKeys
BY DEF SerializeCheckpoint, CheckpointFields, Dump, Bytes, Object, Kind, Fields,
       IsFunction, CheckpointKeys

\* The run a checkpoint is of is written once, in its identity.
LEMMA CheckpointRoundTrip ==
    ASSUME NEW cp \in RunCheckpoint, cp.lifecycle.run_id = cp.identity.run_id
    PROVE  CheckpointOf(SerializeCheckpoint(cp)) = cp
<1> DEFINE p == Fields(SerializeCheckpoint(cp).value)
           l == cp.lifecycle
<1>1. /\ cp.identity \in RunIdentity /\ l \in RunLifecycle
      /\ cp = [identity |-> cp.identity, lifecycle |-> l]
  BY CodecAssumption DEF RunCheckpoint
<1>p. p = CheckpointFields(cp)
  BY CheckpointWritten
<1>6. CheckpointOf(SerializeCheckpoint(cp)) =
        [identity |-> IdentityFromPayload(p.identity),
         lifecycle |-> [run_id |-> IdentityFromPayload(p.identity).run_id,
                        state |-> NameOf(p.state), revision |-> p.revision[2],
                        updated_at |-> InstantOf(p.updated_at),
                        final_state |-> OptionalOf(p.final_state)]]
  BY DEF CheckpointOf, CheckpointFromPayload
<1> HIDE DEF p
<1>2. IdentityFromPayload(p.identity) = cp.identity
  BY <1>1, <1>p, IdentityRoundTrip DEF CheckpointFields
<1>3. /\ NameOf(p.state) = l.state /\ p.revision[2] = l.revision
      /\ InstantOf(p.updated_at) = l.updated_at
  BY <1>p, NameRoundTrip, InstantRoundTrip DEF CheckpointFields, Number
<1>4. OptionalOf(p.final_state) = l.final_state
  BY <1>1, <1>p, OptionalRoundTrip DEF CheckpointFields, RunLifecycle
<1>5. l = [run_id |-> l.run_id, state |-> l.state, revision |-> l.revision,
           updated_at |-> l.updated_at, final_state |-> l.final_state]
  BY <1>1 DEF RunLifecycle
<1> HIDE DEF l
<1> QED
  BY <1>1, <1>2, <1>3, <1>4, <1>5, <1>6 DEF l

LEMMA CheckpointIsCanonical ==
    ASSUME NEW data, Document(data.value), CheckpointAccepted(data)
    PROVE  /\ CheckpointOf(data) \in RunCheckpoint
           /\ WellFormedCheckpoint(CheckpointOf(data))
           /\ SerializeCheckpoint(CheckpointOf(data)) = data
<1> DEFINE v == data.value
           p == Fields(v)
           cp == CheckpointOf(data)
           id == IdentityFromPayload(p.identity)
<1>1. /\ v = Object(p) /\ IsFunction(p) /\ DOMAIN p = CheckpointKeys
      /\ data = Dump(v)
  BY ShapedObject DEF CheckpointAccepted, HasFields, Document, Loaded
<1>2. p.format = Name("run_checkpoint") /\ p.version = Number(1)
  BY DEF CheckpointAccepted, Header
<1>3. Shaped(p.identity) /\ Shaped(p.revision)
  BY <1>1 DEF Document, CheckpointAccepted, HasFields, CheckpointKeys
<1>4. id \in RunIdentity /\ IdentityPayload(id) = p.identity
  BY <1>3, IdentityIsCanonical DEF CheckpointAccepted
<1>5. p.revision = Number(p.revision[2]) /\ p.revision[2] \in Nat
  BY <1>3, ShapedRevision DEF CheckpointAccepted, IsRevision
<1>6. NameOf(p.state) \in LifecycleState /\ p.state = Name(NameOf(p.state))
  BY NamesHoldNames DEF CheckpointAccepted
<1>7. InstantOf(p.updated_at) \in Instants /\ p.updated_at = Timestamp(InstantOf(p.updated_at))
  BY TimestampIsCanonical DEF CheckpointAccepted
<1>8. /\ OptionalOf(p.final_state) \in FinalStates \cup {None}
      /\ p.final_state = OptionalText(OptionalOf(p.final_state))
  BY OptionalIsCanonical DEF CheckpointAccepted
<1>9. cp = [identity |-> id,
            lifecycle |-> [run_id |-> id.run_id, state |-> NameOf(p.state),
                           revision |-> p.revision[2],
                           updated_at |-> InstantOf(p.updated_at),
                           final_state |-> OptionalOf(p.final_state)]]
  BY DEF CheckpointOf, CheckpointFromPayload
<1>w. WellFormedCheckpoint(cp)
  BY DEF CheckpointAccepted, CheckpointOf
<1> HIDE DEF cp, id, p
<1>10. cp \in RunCheckpoint
  <2>1. id \in Identities /\ id.run_id \in RunIds
    BY <1>4, CodecAssumption DEF RunIdentity
  <2> QED
    BY <1>5, <1>6, <1>7, <1>8, <1>9, <2>1 DEF RunCheckpoint, RunLifecycle
<1>11. p = CheckpointFields(cp)
  BY <1>1, <1>2, <1>4, <1>5, <1>6, <1>7, <1>8, <1>9
     DEF IsFunction, CheckpointKeys, CheckpointFields
<1>12. SerializeCheckpoint(cp) = data
  BY <1>1, <1>11, CheckpointWritten
<1> QED
  BY <1>w, <1>10, <1>12 DEF cp

LEMMA CheckpointIsRead ==
    ASSUME NEW cp \in RunCheckpoint, WellFormedCheckpoint(cp),
           {cp.identity.created_at, cp.lifecycle.updated_at} \cap ShortYears = {}
    PROVE  CheckpointAccepted(SerializeCheckpoint(cp))
<1> DEFINE data == SerializeCheckpoint(cp)
           p == CheckpointFields(cp)
<1>1. cp.identity \in RunIdentity /\ cp.lifecycle \in RunLifecycle
  BY CodecAssumption DEF RunCheckpoint
<1>2. Loaded(data)
  BY CheckpointWritten DEF Loaded, Dump, Bytes, Parses
<1>3. HasFields(data.value, CheckpointKeys) /\ Header(p, "run_checkpoint")
  BY CheckpointWritten DEF HasFields, Header, CheckpointFields
<1>4. IdentityPayloadAccepted(p.identity)
  BY <1>1, IdentityIsRead DEF CheckpointFields
<1>5. p.state \in Names(LifecycleState) /\ IsRevision(p.revision)
  BY <1>1 DEF CheckpointFields, Names, RunLifecycle, IsRevision, Number, Kind
<1>6. ReadsTimestamp(p.updated_at)
  BY <1>1, TimestampIsRead DEF CheckpointFields, RunLifecycle
<1>7. p.final_state \in Names(FinalStates) \cup {Null}
  BY <1>1, OptionalRoundTrip DEF CheckpointFields, RunLifecycle
<1>8. WellFormedCheckpoint(CheckpointFromPayload(data.value))
  <2>1. CheckpointOf(data) = cp
    BY CheckpointRoundTrip DEF WellFormedCheckpoint
  <2> QED
    BY <2>1 DEF CheckpointOf
<1> HIDE DEF p
<1> QED
  BY <1>2, <1>3, <1>4, <1>5, <1>6, <1>7, <1>8, CheckpointWritten
     DEF CheckpointAccepted, p

\* The document a transition is written as.
TransitionFields(e) ==
    [actor |-> Name(e.actor), final_state |-> OptionalText(e.final_state),
     format |-> Name("lifecycle_transition"), from_state |-> Name(e.from_state),
     occurred_at |-> Timestamp(e.occurred_at), revision |-> Number(e.revision),
     run_id |-> Name(e.run_id), to_state |-> Name(e.to_state), version |-> Number(1)]

LEMMA TransitionWritten ==
    ASSUME NEW e
    PROVE  /\ SerializeTransition(e) = Dump(Object(TransitionFields(e)))
           /\ SerializeTransition(e).value = Object(TransitionFields(e))
           /\ Kind(SerializeTransition(e).value) = "object"
           /\ Fields(SerializeTransition(e).value) = TransitionFields(e)
           /\ IsFunction(TransitionFields(e))
           /\ DOMAIN TransitionFields(e) = TransitionKeys
BY DEF SerializeTransition, TransitionFields, Dump, Bytes, Object, Kind, Fields,
       IsFunction, TransitionKeys

LEMMA TransitionRoundTrip ==
    ASSUME NEW e \in LifecycleTransition
    PROVE  TransitionOf(SerializeTransition(e)) = e
<1> DEFINE p == Fields(SerializeTransition(e).value)
<1>1. p = TransitionFields(e)
  BY TransitionWritten
<1>2. TransitionOf(SerializeTransition(e)) =
        [run_id |-> NameOf(p.run_id), revision |-> p.revision[2],
         from_state |-> NameOf(p.from_state), to_state |-> NameOf(p.to_state),
         occurred_at |-> InstantOf(p.occurred_at), actor |-> NameOf(p.actor),
         final_state |-> OptionalOf(p.final_state)]
  BY DEF TransitionOf, TransitionFromPayload
<1> HIDE DEF p
<1>3. /\ NameOf(p.run_id) = e.run_id /\ NameOf(p.actor) = e.actor
      /\ NameOf(p.from_state) = e.from_state /\ NameOf(p.to_state) = e.to_state
      /\ p.revision[2] = e.revision /\ InstantOf(p.occurred_at) = e.occurred_at
  BY <1>1, NameRoundTrip, InstantRoundTrip DEF TransitionFields, Number
<1>4. OptionalOf(p.final_state) = e.final_state
  BY <1>1, OptionalRoundTrip DEF TransitionFields, LifecycleTransition
<1> QED
  BY <1>2, <1>3, <1>4 DEF LifecycleTransition

LEMMA TransitionIsCanonical ==
    ASSUME NEW data, Document(data.value), TransitionAccepted(data)
    PROVE  SerializeTransition(TransitionOf(data)) = data
<1> DEFINE v == data.value
           p == Fields(v)
           e == TransitionOf(data)
<1>1. /\ v = Object(p) /\ IsFunction(p) /\ DOMAIN p = TransitionKeys
      /\ data = Dump(v)
  BY ShapedObject DEF TransitionAccepted, HasFields, Document, Loaded
<1>2. p.format = Name("lifecycle_transition") /\ p.version = Number(1)
  BY DEF TransitionAccepted, Header
<1>3. Shaped(p.revision)
  BY <1>1 DEF Document, TransitionAccepted, HasFields, TransitionKeys
<1>4. p.revision = Number(p.revision[2])
  BY <1>3, ShapedRevision DEF TransitionAccepted
<1>5. /\ p.run_id = Name(NameOf(p.run_id)) /\ p.actor = Name(NameOf(p.actor))
      /\ p.from_state = Name(NameOf(p.from_state))
      /\ p.to_state = Name(NameOf(p.to_state))
  BY NamesHoldNames DEF TransitionAccepted
<1>6. p.occurred_at = Timestamp(InstantOf(p.occurred_at))
  BY TimestampIsCanonical DEF TransitionAccepted
<1>7. p.final_state = OptionalText(OptionalOf(p.final_state))
  BY OptionalIsCanonical DEF TransitionAccepted
<1>8. e = [run_id |-> NameOf(p.run_id), revision |-> p.revision[2],
           from_state |-> NameOf(p.from_state), to_state |-> NameOf(p.to_state),
           occurred_at |-> InstantOf(p.occurred_at), actor |-> NameOf(p.actor),
           final_state |-> OptionalOf(p.final_state)]
  BY DEF TransitionOf, TransitionFromPayload
<1> HIDE DEF e, p
<1>9. p = TransitionFields(e)
  BY <1>1, <1>2, <1>4, <1>5, <1>6, <1>7, <1>8
     DEF IsFunction, TransitionKeys, TransitionFields
<1> QED
  BY <1>1, <1>9, TransitionWritten DEF e

\* Accepted bytes decode to a value the constructors accept.
LEMMA TransitionIsTyped ==
    ASSUME NEW data, TransitionAccepted(data)
    PROVE  TransitionOf(data) \in LifecycleTransition
<1> DEFINE p == Fields(data.value)
<1>1. /\ NameOf(p.run_id) \in RunIds /\ NameOf(p.actor) \in Actors
      /\ NameOf(p.from_state) \in LifecycleState /\ NameOf(p.to_state) \in LifecycleState
  BY NamesHoldNames DEF TransitionAccepted
<1>2. InstantOf(p.occurred_at) \in Instants /\ p.revision[2] \in Nat
  BY TimestampIsCanonical DEF TransitionAccepted, IsRevision
<1>3. OptionalOf(p.final_state) \in FinalStates \cup {None}
  BY OptionalIsCanonical DEF TransitionAccepted
<1> QED
  BY <1>1, <1>2, <1>3 DEF TransitionOf, TransitionFromPayload, LifecycleTransition

LEMMA TransitionIsRead ==
    ASSUME NEW e \in LifecycleTransition, e.occurred_at \notin ShortYears,
           FinalStateFits(e.to_state, e.final_state)
    PROVE  TransitionAccepted(SerializeTransition(e))
<1> DEFINE data == SerializeTransition(e)
           p == TransitionFields(e)
<1>1. Loaded(data)
  BY TransitionWritten DEF Loaded, Dump, Bytes, Parses
<1>2. HasFields(data.value, TransitionKeys) /\ Header(p, "lifecycle_transition")
  BY TransitionWritten DEF HasFields, Header, TransitionFields
<1>3. /\ p.run_id \in Names(RunIds) /\ p.actor \in Names(Actors)
      /\ {p.from_state, p.to_state} \subseteq Names(LifecycleState)
      /\ IsRevision(p.revision)
  BY DEF TransitionFields, Names, LifecycleTransition, IsRevision, Number, Kind
<1>4. ReadsTimestamp(p.occurred_at)
  BY TimestampIsRead DEF TransitionFields, LifecycleTransition
<1>5. p.final_state \in Names(FinalStates) \cup {Null}
  BY OptionalRoundTrip DEF TransitionFields, LifecycleTransition
<1>6. TransitionFromPayload(data.value) = e
  BY TransitionRoundTrip DEF TransitionOf
<1> HIDE DEF p
<1> QED
  BY <1>1, <1>2, <1>3, <1>4, <1>5, <1>6, TransitionWritten DEF TransitionAccepted, p

\* What the store writes is a document.
LEMMA WrittenIsDocument ==
    /\ \A id : Document(SerializeIdentity(id).value)
    /\ \A cp : Document(SerializeCheckpoint(cp).value)
    /\ \A e : Document(SerializeTransition(e).value)
<1>1. ASSUME NEW id PROVE Shaped(IdentityPayload(id)) /\ Document(IdentityPayload(id))
  <2> DEFINE p == [baseline_sha |-> Name(id.baseline_sha),
                   contract_hash |-> Name(id.contract_hash),
                   contract_id |-> Name(id.contract_id),
                   contract_version |-> Name(id.contract_version),
                   created_at |-> Timestamp(id.created_at),
                   format |-> Name("run_identity"), policy_hash |-> Name(id.policy_hash),
                   run_id |-> Name(id.run_id), version |-> Number(1)]
  <2>1. IsFunction(p) /\ \A k \in DOMAIN p : Shaped(p[k])
    BY ScalarsAreShaped DEF IsFunction
  <2>2. IdentityPayload(id) = Object(p)
    BY DEF IdentityPayload
  <2> HIDE DEF p
  <2> QED
    BY <2>1, <2>2, ObjectIsShaped DEF Document
<1>2. ASSUME NEW cp PROVE Document(SerializeCheckpoint(cp).value)
  <2>1. \A k \in DOMAIN CheckpointFields(cp) : Shaped(CheckpointFields(cp)[k])
    BY <1>1, ScalarsAreShaped DEF CheckpointFields
  <2> QED
    BY <2>1, CheckpointWritten, ObjectIsShaped DEF Document
<1>3. ASSUME NEW e PROVE Document(SerializeTransition(e).value)
  <2>1. \A k \in DOMAIN TransitionFields(e) : Shaped(TransitionFields(e)[k])
    BY ScalarsAreShaped DEF TransitionFields
  <2> QED
    BY <2>1, TransitionWritten, ObjectIsShaped DEF Document
<1>4. \A id : SerializeIdentity(id).value = IdentityPayload(id)
  BY DEF SerializeIdentity, Dump, Bytes
<1> QED
  BY <1>1, <1>2, <1>3, <1>4

-----------------------------------------------------------------------------
(* The form of the stored rows, whatever was damaged. *)

IsRunRow(row) ==
    /\ DOMAIN row = {"identity", "checkpoint"}
    /\ Document(row.identity.value) /\ Document(row.checkpoint.value)

IsEventRow(row) ==
    DOMAIN row = {"revision", "transition"} /\ Document(row.transition.value)

AreEventRows(rows) ==
    rows \in Seq(Range(rows)) /\ \A n \in DOMAIN rows : IsEventRow(rows[n])

ShapeInv ==
    /\ DOMAIN runs \subseteq RunIds
    /\ \A r \in DOMAIN runs : IsRunRow(runs[r])
    /\ DOMAIN journal = RunIds
    /\ \A r \in RunIds : AreEventRows(journal[r])

LEMMA SequenceOf ==
    ASSUME NEW S, NEW s \in Seq(S)
    PROVE  s \in Seq(Range(s))
<1>1. s \in [1..Len(s) -> Range(s)] /\ Len(s) \in Nat
  BY DEF Range
<1> QED
  BY <1>1

LEMMA RowAppended ==
    ASSUME NEW s, s \in Seq(Range(s)), NEW e
    PROVE  /\ Append(s, e) \in Seq(Range(Append(s, e)))
           /\ DOMAIN Append(s, e) = 1..(Len(s) + 1) /\ DOMAIN s = 1..Len(s)
           /\ Append(s, e)[Len(s) + 1] = e
           /\ \A n \in 1..Len(s) : Append(s, e)[n] = s[n]
<1> DEFINE S == Range(s) \cup {e}
<1>1. s \in Seq(S) /\ e \in S
  OBVIOUS
<1>2. Append(s, e) \in Seq(S)
  BY <1>1
<1>3. /\ DOMAIN Append(s, e) = 1..(Len(s) + 1) /\ DOMAIN s = 1..Len(s)
      /\ Append(s, e)[Len(s) + 1] = e
      /\ \A n \in 1..Len(s) : Append(s, e)[n] = s[n]
  BY <1>1
<1> HIDE DEF S
<1>4. Append(s, e) \in Seq(Range(Append(s, e)))
  BY <1>2, SequenceOf
<1> QED
  BY <1>3, <1>4

LEMMA RowRemoved ==
    ASSUME NEW s, s \in Seq(Range(s)), NEW n \in DOMAIN s
    PROVE  /\ RemoveAt(s, n) \in Seq(Range(RemoveAt(s, n)))
           /\ Len(RemoveAt(s, n)) = Len(s) - 1
           /\ \A m \in DOMAIN RemoveAt(s, n) : \E k \in DOMAIN s : RemoveAt(s, n)[m] = s[k]
<1> DEFINE S == Range(s)
           before == SubSeq(s, 1, n - 1)
           after == SubSeq(s, n + 1, Len(s))
<1>1. n \in 1..Len(s) /\ Len(s) \in Nat
  OBVIOUS
<1>2. before \in Seq(S) /\ Len(before) = n - 1
  BY <1>1
<1>3. after \in Seq(S) /\ Len(after) = Len(s) - n
  BY <1>1
<1>4. RemoveAt(s, n) = before \o after
  BY DEF RemoveAt
<1> HIDE DEF before, after
<1>5. before \o after \in Seq(S) /\ Len(before \o after) = Len(before) + Len(after)
  BY <1>2, <1>3, ConcatProperties
<1>6. \A m \in DOMAIN (before \o after) : (before \o after)[m] \in S
  BY <1>5
<1>7. Len(before) + Len(after) = Len(s) - 1
  BY <1>1, <1>2, <1>3
<1>8. \A x \in S : \E k \in DOMAIN s : x = s[k]
  BY DEF Range
<1> HIDE DEF S
<1>9. RemoveAt(s, n) \in Seq(Range(RemoveAt(s, n)))
  BY <1>4, <1>5, SequenceOf
<1> QED
  BY <1>4, <1>5, <1>6, <1>7, <1>8, <1>9

LEMMA AlteredCases ==
    ASSUME NEW f, NEW g \in AlteredFields(f)
    PROVE  \/ \E k \in DOMAIN f, x \in Spoilt : g = [f EXCEPT ![k] = x]
           \/ \E k \in DOMAIN f : g = Restrict(f, DOMAIN f \ {k})
           \/ g = [k \in DOMAIN f \cup {"extra"} |-> IF k = "extra" THEN Null ELSE f[k]]
<1>1. \/ g \in {[f EXCEPT ![k] = x] : k \in DOMAIN f, x \in Spoilt}
      \/ g \in {Restrict(f, DOMAIN f \ {k}) : k \in DOMAIN f}
      \/ g = [k \in DOMAIN f \cup {"extra"} |-> IF k = "extra" THEN Null ELSE f[k]]
  BY DEF AlteredFields
<1>2. ASSUME g \in {[f EXCEPT ![k] = x] : k \in DOMAIN f, x \in Spoilt}
      PROVE  \E k \in DOMAIN f, x \in Spoilt : g = [f EXCEPT ![k] = x]
  BY <1>2
<1> QED
  BY <1>1, <1>2

LEMMA AlteredIsFunction ==
    ASSUME NEW f, NEW g \in AlteredFields(f)
    PROVE  IsFunction(g)
<1>1. ASSUME NEW k \in DOMAIN f, NEW x \in Spoilt, g = [f EXCEPT ![k] = x]
      PROVE  IsFunction(g)
  BY <1>1 DEF IsFunction
<1>2. ASSUME NEW k \in DOMAIN f, g = Restrict(f, DOMAIN f \ {k}) PROVE IsFunction(g)
  BY <1>2 DEF IsFunction, Restrict
<1>3. ASSUME g = [k \in DOMAIN f \cup {"extra"} |-> IF k = "extra" THEN Null ELSE f[k]]
      PROVE  IsFunction(g)
  BY <1>3 DEF IsFunction
<1> QED
  BY <1>1, <1>2, <1>3, AlteredCases, Zenon

LEMMA AlteredAreShaped ==
    ASSUME NEW f, \A k \in DOMAIN f : Shaped(f[k]), NEW g \in AlteredFields(f)
    PROVE  \A k \in DOMAIN g : Shaped(g[k])
<1>1. Shaped(Null)
  BY DEF Shaped
<1>2. ASSUME NEW k \in DOMAIN f, NEW x \in Spoilt, g = [f EXCEPT ![k] = x]
      PROVE  \A q \in DOMAIN g : Shaped(g[q])
  BY <1>2, StateFileAssumption
<1>3. ASSUME NEW k \in DOMAIN f, g = Restrict(f, DOMAIN f \ {k})
      PROVE  \A q \in DOMAIN g : Shaped(g[q])
  BY <1>3 DEF Restrict
<1>4. ASSUME g = [k \in DOMAIN f \cup {"extra"} |-> IF k = "extra" THEN Null ELSE f[k]]
      PROVE  \A q \in DOMAIN g : Shaped(g[q])
  BY <1>1, <1>4
<1> QED
  BY <1>2, <1>3, <1>4, AlteredCases, Zenon

LEMMA AlteredIsDocument ==
    ASSUME NEW v, Document(v), Kind(v) = "object", NEW g \in Altered(Fields(v))
    PROVE  Document(Object(g))
<1> DEFINE f == Fields(v)
<1>1. \A k \in DOMAIN f : Shaped(f[k])
  BY DEF Document
<1>2. ASSUME g \in AlteredFields(f) PROVE Document(Object(g))
  BY <1>1, <1>2, AlteredIsFunction, AlteredAreShaped, ObjectIsShaped DEF Document
<1>3. ASSUME NEW h, h \in AlteredFields(Fields(f.identity)),
             g = [f EXCEPT !.identity = Object(h)]
      PROVE  Document(Object(g))
  <2>1. Shaped(Object(h))
    BY <1>3, AlteredIsFunction, ObjectIsShaped
  <2>2. IsFunction(g)
    BY <1>3 DEF IsFunction
  <2>3. \A k \in DOMAIN g : Shaped(g[k])
    BY <1>1, <1>3, <2>1
  <2> QED
    BY <2>2, <2>3, ObjectIsShaped DEF Document
<1> QED
  BY <1>2, <1>3 DEF Altered

LEMMA SpoilsAreDocuments ==
    ASSUME ShapeInv, NEW data, Document(data.value), NEW x \in Spoils(data)
    PROVE  Document(x.value)
<1>1. CASE x \in {Bytes(layout, data.value) : layout \in Layouts}
  BY <1>1 DEF Bytes
<1>2. CASE x = Dump(Null)
  <2>1. x.value = Null /\ Kind(Null) # "object"
    BY <1>2 DEF Dump, Bytes, Null, Kind
  <2> QED
    BY <2>1 DEF Document, Shaped
<1>3. ASSUME Kind(data.value) = "object", NEW f \in Altered(Fields(data.value)),
             x = Dump(Object(f))
      PROVE  Document(x.value)
  BY <1>3, AlteredIsDocument DEF Dump, Bytes
<1>4. CASE x \in StoredBytes
  <2>1. \/ \E r \in DOMAIN runs : x = runs[r].identity \/ x = runs[r].checkpoint
        \/ \E r \in RunIds : \E n \in DOMAIN journal[r] : x = journal[r][n].transition
    <3>1. ASSUME x \in RunBytes
          PROVE  \E r \in DOMAIN runs : x = runs[r].identity \/ x = runs[r].checkpoint
      BY <3>1 DEF RunBytes
    <3>2. ASSUME x \in EventBytes
          PROVE  \E r \in RunIds : \E n \in DOMAIN journal[r] :
                    x = journal[r][n].transition
      BY <3>2 DEF EventBytes
    <3> QED
      BY <1>4, <3>1, <3>2 DEF StoredBytes
  <2> QED
    BY <2>1 DEF ShapeInv, IsRunRow, AreEventRows, IsEventRow
<1> QED
  BY <1>1, <1>2, <1>3, <1>4 DEF Spoils

LEMMA OpeningKeepsContent ==
    ASSUME NEW c, Open(c) \/ OpenStep(c) \/ OpenError(c)
    PROVE  UNCHANGED <<content, caller, damage>>
BY DEF Open, OpenStep, OpenError, BeginOpen, LockTimeout, ReadVersion, CreateRuns,
       CreateTransitions, CreateTable, Stamp, CommitOpen, OpenFails

\* What the calls write.
LEMMA StartRunWrites ==
    ASSUME NEW b, NEW r, NEW baseline, NEW policy, NEW now,
           StartRun(b, r, baseline, policy, now),
           ~UNCHANGED <<content, held>>
    PROVE  LET identity == IdentityFor(b, r, baseline, policy, now)
               cp == InitialCheckpoint(identity)
           IN  /\ BindingCause(b) = "ok" /\ r \notin DOMAIN runs
               /\ runs' = Insert(runs, r, [identity |-> SerializeIdentity(identity),
                                           checkpoint |-> SerializeCheckpoint(cp)])
               /\ genuine' = Insert(genuine, r,
                     [source |-> b.source, checkpoint |-> cp, events |-> <<>>])
               /\ held' = cp /\ journal' = journal
BY DEF StartRun, content

LEMMA AppendWrites ==
    ASSUME NEW u, AppendTransition(u), ~UNCHANGED <<content, held>>
    PROVE  LET r == u.expected.identity.run_id
           IN  /\ AppendResult(u) = "ok"
               /\ journal' = [journal EXCEPT ![r] =
                     Append(@, [revision |-> u.event.revision,
                                transition |-> SerializeTransition(u.event)])]
               /\ runs' = [runs EXCEPT ![r].checkpoint =
                     SerializeCheckpoint(NextCheckpoint(u))]
               /\ genuine' = [genuine EXCEPT ![r] =
                     [source |-> @.source, checkpoint |-> NextCheckpoint(u),
                      events |-> Append(@.events, u.event)]]
               /\ held' = NextCheckpoint(u)
BY DEF AppendTransition, content

\* An update that lands found a run it could validate, with the expected checkpoint.
LEMMA AppendFinds ==
    ASSUME NEW u, AppendResult(u) = "ok"
    PROVE  LET r == u.expected.identity.run_id
           IN  /\ r \in DOMAIN runs /\ Validated(r)
               /\ Decoded(r).checkpoint = u.expected
BY DEF AppendResult, ReadResult

LEMMA ShapeStep == ShapeInv /\ [Next]_vars => ShapeInv'
<1> SUFFICES ASSUME ShapeInv, [Next]_vars PROVE ShapeInv'
  OBVIOUS
<1>1. CASE UNCHANGED content
  BY <1>1 DEF content, ShapeInv
<1>2. ASSUME NEW r \in RunIds, NEW b, NEW baseline, NEW policy, NEW now,
             StartRun(b, r, baseline, policy, now), ~UNCHANGED <<content, held>>
      PROVE  ShapeInv'
  <2> DEFINE identity == IdentityFor(b, r, baseline, policy, now)
             row == [identity |-> SerializeIdentity(identity),
                     checkpoint |-> SerializeCheckpoint(InitialCheckpoint(identity))]
  <2>1. runs' = Insert(runs, r, row) /\ journal' = journal
    BY <1>2, StartRunWrites
  <2>2. IsRunRow(row)
    BY WrittenIsDocument DEF IsRunRow
  <2> HIDE DEF row
  <2> QED
    BY <2>1, <2>2 DEF ShapeInv, Insert
<1>3. ASSUME NEW u, AppendTransition(u), ~UNCHANGED <<content, held>> PROVE ShapeInv'
  <2> DEFINE r == u.expected.identity.run_id
             bytes == SerializeCheckpoint(NextCheckpoint(u))
             row == [revision |-> u.event.revision,
                     transition |-> SerializeTransition(u.event)]
  <2>1. /\ runs' = [runs EXCEPT ![r].checkpoint = bytes]
        /\ journal' = [journal EXCEPT ![r] = Append(@, row)]
        /\ r \in DOMAIN runs
    BY <1>3, AppendWrites, AppendFinds
  <2>2. Document(bytes.value) /\ IsEventRow(row)
    BY WrittenIsDocument DEF IsEventRow
  <2> HIDE DEF r, bytes, row
  <2>3. DOMAIN runs' = DOMAIN runs /\ \A q \in DOMAIN runs : IsRunRow(runs'[q])
    BY <2>1, <2>2 DEF ShapeInv, IsRunRow
  <2>4. r \in RunIds /\ journal'[r] = Append(journal[r], row)
    BY <2>1 DEF ShapeInv
  <2>5. AreEventRows(journal'[r])
    <3>1. journal[r] \in Seq(Range(journal[r]))
      BY <2>4 DEF ShapeInv, AreEventRows
    <3>2. /\ journal'[r] \in Seq(Range(journal'[r]))
          /\ DOMAIN journal[r] = 1..Len(journal[r])
          /\ DOMAIN journal'[r] = 1..(Len(journal[r]) + 1)
          /\ journal'[r][Len(journal[r]) + 1] = row
          /\ \A n \in 1..Len(journal[r]) : journal'[r][n] = journal[r][n]
      BY <2>4, <3>1, RowAppended
    <3>3. \A n \in DOMAIN journal'[r] : n \in DOMAIN journal[r] \/ n = Len(journal[r]) + 1
      BY <3>1, <3>2
    <3> QED
      BY <2>2, <2>4, <3>2, <3>3 DEF AreEventRows, ShapeInv
  <2> QED
    BY <2>1, <2>3, <2>5 DEF ShapeInv
<1>4. ASSUME NEW r \in DOMAIN runs, Damage(r) PROVE ShapeInv'
  <2>0. r \in RunIds /\ IsRunRow(runs[r]) /\ AreEventRows(journal[r])
    BY DEF ShapeInv
  <2>1. ASSUME NEW x \in Spoils(runs[r].identity), UNCHANGED journal,
               runs' = [runs EXCEPT ![r].identity = x]
        PROVE  ShapeInv'
    <3>1. Document(x.value)
      BY <2>0, SpoilsAreDocuments DEF IsRunRow
    <3> QED
      BY <2>1, <3>1 DEF ShapeInv, IsRunRow
  <2>2. ASSUME NEW x \in Spoils(runs[r].checkpoint), UNCHANGED journal,
               runs' = [runs EXCEPT ![r].checkpoint = x]
        PROVE  ShapeInv'
    <3>1. Document(x.value)
      BY <2>0, SpoilsAreDocuments DEF IsRunRow
    <3> QED
      BY <2>2, <3>1 DEF ShapeInv, IsRunRow
  <2>3. ASSUME NEW n \in DOMAIN journal[r], NEW x \in Spoils(journal[r][n].transition),
               UNCHANGED runs, journal' = [journal EXCEPT ![r][n].transition = x]
        PROVE  ShapeInv'
    <3>1. Document(x.value)
      BY <2>0, SpoilsAreDocuments DEF AreEventRows, IsEventRow
    <3>2. journal'[r] = [journal[r] EXCEPT ![n].transition = x]
      BY <2>0, <2>3 DEF ShapeInv
    <3>3. AreEventRows(journal'[r])
      <4>1. /\ DOMAIN journal'[r] = DOMAIN journal[r]
            /\ \A m \in DOMAIN journal[r] : IsEventRow(journal'[r][m])
        BY <2>0, <3>1, <3>2 DEF AreEventRows, IsEventRow
      <4>2. journal'[r] \in Seq(Range(journal'[r]))
        <5>1. DOMAIN journal[r] = 1..Len(journal[r]) /\ Len(journal[r]) \in Nat
          BY <2>0 DEF AreEventRows
        <5>2. journal'[r] \in [1..Len(journal[r]) -> Range(journal'[r])]
          BY <3>2, <5>1 DEF Range
        <5> QED
          BY <5>1, <5>2
      <4> QED
        BY <4>1, <4>2 DEF AreEventRows
    <3> QED
      BY <2>0, <2>3, <3>3 DEF ShapeInv
  <2>4. ASSUME NEW n \in DOMAIN journal[r], UNCHANGED runs,
               journal' = [journal EXCEPT ![r] = RemoveAt(@, n)]
        PROVE  ShapeInv'
    <3>1. journal'[r] = RemoveAt(journal[r], n)
      BY <2>0, <2>4 DEF ShapeInv
    <3>2. /\ journal'[r] \in Seq(Range(journal'[r]))
          /\ \A m \in DOMAIN journal'[r] :
                \E k \in DOMAIN journal[r] : journal'[r][m] = journal[r][k]
      BY <2>0, <3>1, RowRemoved DEF AreEventRows
    <3>3. AreEventRows(journal'[r])
      BY <2>0, <3>2 DEF AreEventRows
    <3> QED
      BY <2>0, <2>4, <3>3 DEF ShapeInv
  <2> QED
    BY <1>4, <2>1, <2>2, <2>3, <2>4 DEF Damage
<1>5. ASSUME NEW r PROVE LoadRun(r) => UNCHANGED content
  BY DEF LoadRun
<1>6. ASSUME NEW r, NEW b, NEW baseline, NEW policy
      PROVE  ResumeRun(r, b, baseline, policy) => UNCHANGED content
  BY DEF ResumeRun
<1>7. Use => ShapeInv'
  <2>1. UNCHANGED <<content, held>> => UNCHANGED content
    OBVIOUS
  <2> QED
    BY <1>1, <1>2, <1>3, <1>5, <1>6, <2>1 DEF Use
<1>8. UNCHANGED vars => UNCHANGED content
  BY DEF vars
<1>9. (\E c \in Clients : Open(c) \/ OpenStep(c) \/ OpenError(c)) => UNCHANGED content
  BY OpeningKeepsContent
<1> QED
  BY <1>1, <1>4, <1>7, <1>8, <1>9 DEF Next

\* However many cells are damaged, and however the file is used in between, bytes the
\* store accepts are the bytes it would have written for what it reads from them.
THEOREM AcceptedIsCanonical == Spec => []AcceptedBytesAreCanonical
<1>1. Init => ShapeInv
  <2>1. <<>> \in Seq(Range(<<>>)) /\ DOMAIN <<>> = {}
    OBVIOUS
  <2> QED
    BY <2>1 DEF Init, ShapeInv, AreEventRows
<1>2. ShapeInv => AcceptedBytesAreCanonical
  <2> SUFFICES ASSUME ShapeInv, NEW r \in DOMAIN runs, Validated(r)
      PROVE  /\ SerializeIdentity(Decoded(r).identity) = runs[r].identity
             /\ SerializeCheckpoint(Decoded(r).checkpoint) = runs[r].checkpoint
             /\ \A n \in DOMAIN journal[r] :
                 SerializeTransition(Events(r)[n]) = journal[r][n].transition
    BY DEF AcceptedBytesAreCanonical
  <2>1. /\ Document(runs[r].identity.value) /\ Document(runs[r].checkpoint.value)
        /\ \A n \in DOMAIN journal[r] : Document(journal[r][n].transition.value)
    BY DEF ShapeInv, IsRunRow, AreEventRows, IsEventRow
  <2>2. SerializeIdentity(IdentityOf(runs[r].identity)) = runs[r].identity
    BY <2>1, IdentityIsCanonical
       DEF Validated, IdentityAccepted, IdentityOf, SerializeIdentity, Loaded, Document
  <2>3. SerializeCheckpoint(CheckpointOf(runs[r].checkpoint)) = runs[r].checkpoint
    BY <2>1, CheckpointIsCanonical DEF Validated
  <2>4. \A n \in DOMAIN journal[r] :
          SerializeTransition(TransitionOf(journal[r][n].transition))
            = journal[r][n].transition
    BY <2>1, TransitionIsCanonical DEF Validated
  <2> QED
    BY <2>2, <2>3, <2>4 DEF Decoded, Events
<1> QED
  BY <1>1, <1>2, ShapeStep, PTL DEF Spec

-----------------------------------------------------------------------------
(***************************************************************************)
(* How far the bytes are from the values that were written.  genuine[r] is *)
(* a run that replays, and as long as no more than one cell was damaged,   *)
(* everything but at most one cell of the run still holds it.              *)
(***************************************************************************)
EventRow(e) == [revision |-> e.revision, transition |-> SerializeTransition(e)]

IdentityStored(r) == runs[r].identity = SerializeIdentity(genuine[r].checkpoint.identity)
CheckpointStored(r) == runs[r].checkpoint = SerializeCheckpoint(genuine[r].checkpoint)
JournalStoredBut(r, S) ==
    /\ DOMAIN journal[r] = DOMAIN genuine[r].events
    /\ \A n \in DOMAIN journal[r] \ S : journal[r][n] = EventRow(genuine[r].events[n])
JournalStored(r) == JournalStoredBut(r, {})

Intact(r) == IdentityStored(r) /\ CheckpointStored(r) /\ JournalStored(r)

\* One cell may hold anything, or one row of the journal may be missing.
NearlyIntact(r) ==
    \/ CheckpointStored(r) /\ JournalStored(r)
    \/ IdentityStored(r) /\ JournalStored(r)
    \/ /\ IdentityStored(r) /\ CheckpointStored(r)
       /\ \/ \E m \in DOMAIN journal[r] : JournalStoredBut(r, {m})
          \/ Len(journal[r]) + 1 = Len(genuine[r].events)

GenuineRun == [source : Sources, checkpoint : RunCheckpoint, events : Seq(LifecycleTransition)]

RowOf(g) == [identity |-> g.checkpoint.identity, checkpoint |-> g.checkpoint]

Genuine(r) ==
    /\ genuine[r] \in GenuineRun
    /\ genuine[r].checkpoint.identity.contract_hash = Sha256[genuine[r].source]
    /\ RunReplays(r, RowOf(genuine[r]), genuine[r].events)

FileInv ==
    /\ ShapeInv
    /\ damage \in Nat
    /\ held \in RunCheckpoint \cup {None}
    /\ DOMAIN genuine = DOMAIN runs
    /\ \A r \in RunIds \ DOMAIN runs : journal[r] = <<>>
    /\ damage <= 1 => \A r \in DOMAIN runs : Genuine(r) /\ NearlyIntact(r)
    /\ damage = 0 => \A r \in DOMAIN runs : Intact(r)
    /\ damage <= 1 /\ resumed # None =>
          /\ resumed.run \in DOMAIN runs
          /\ genuine[resumed.run].source = resumed.source

\* What is decoded from cells that hold what was written.
LEMMA StoredDecodes ==
    ASSUME NEW r, Genuine(r)
    PROVE  /\ IdentityStored(r) => Decoded(r).identity = genuine[r].checkpoint.identity
           /\ CheckpointStored(r) => Decoded(r).checkpoint = genuine[r].checkpoint
           /\ \A n \in DOMAIN genuine[r].events :
                journal[r][n] = EventRow(genuine[r].events[n]) =>
                    TransitionOf(journal[r][n].transition) = genuine[r].events[n]
<1> DEFINE g == genuine[r]
<1>1. /\ g.checkpoint \in RunCheckpoint /\ g.checkpoint.identity \in RunIdentity
      /\ g.events \in Seq(LifecycleTransition)
  BY CodecAssumption DEF Genuine, GenuineRun, RunCheckpoint
<1>2. g.checkpoint.lifecycle.run_id = g.checkpoint.identity.run_id
  BY DEF Genuine, RunReplays, RowOf, WellFormedCheckpoint
<1>3. IdentityOf(SerializeIdentity(g.checkpoint.identity)) = g.checkpoint.identity
  BY <1>1, IdentityRoundTrip DEF IdentityOf, SerializeIdentity, Dump, Bytes
<1>4. CheckpointOf(SerializeCheckpoint(g.checkpoint)) = g.checkpoint
  BY <1>1, <1>2, CheckpointRoundTrip
<1>5. \A n \in DOMAIN g.events :
        TransitionOf(EventRow(g.events[n]).transition) = g.events[n]
  <2>1. \A n \in DOMAIN g.events : g.events[n] \in LifecycleTransition
    BY <1>1
  <2> QED
    BY <2>1, TransitionRoundTrip DEF EventRow
<1> QED
  BY <1>3, <1>4, <1>5 DEF IdentityStored, CheckpointStored, Decoded

\* The events of a run the store accepts are a journal that replays.
LEMMA ValidatedEvents ==
    ASSUME ShapeInv, NEW r \in DOMAIN runs, Validated(r)
    PROVE  /\ Events(r) \in Seq(LifecycleTransition)
           /\ DOMAIN Events(r) = DOMAIN journal[r]
           /\ Len(Events(r)) = Len(journal[r]) /\ Len(journal[r]) \in Nat
           /\ DOMAIN journal[r] = 1..Len(journal[r])
           /\ RunReplays(r, Decoded(r), Events(r))
<1> DEFINE j == journal[r]
           e == Events(r)
<1>1. DOMAIN j = 1..Len(j) /\ Len(j) \in Nat
  BY DEF ShapeInv, AreEventRows
<1>2. \A n \in DOMAIN j : TransitionOf(j[n].transition) \in LifecycleTransition
  BY TransitionIsTyped DEF Validated
<1>3. e \in [1..Len(j) -> LifecycleTransition]
  BY <1>1, <1>2 DEF Events
<1>4. RunReplays(r, Decoded(r), Events(r))
  BY DEF Validated
<1> HIDE DEF e, j
<1>5. e \in Seq(LifecycleTransition) /\ Len(e) = Len(j) /\ DOMAIN e = 1..Len(j)
  BY <1>1, <1>3
<1> QED
  BY <1>1, <1>4, <1>5 DEF e, j

\* d is e, but for who did it and when.
Retells(d, e) == d = [e EXCEPT !.actor = d.actor, !.occurred_at = d.occurred_at]

\* Two events that follow the same snapshot differ in what they chose.
LEMMA SameSnapshot ==
    ASSUME NEW before, NEW d \in LifecycleTransition, NEW e \in LifecycleTransition,
           EventReplays(before, d), EventReplays(before, e),
           d.to_state = e.to_state, d.final_state = e.final_state
    PROVE  Retells(d, e)
<1>1. /\ d.run_id = before.run_id /\ e.run_id = before.run_id
      /\ d.revision = before.revision + 1 /\ e.revision = before.revision + 1
      /\ d.from_state = before.state /\ e.from_state = before.state
  BY DEF EventReplays, EventOf
<1> QED
  BY <1>1 DEF LifecycleTransition, Retells

\* The final state of an event that replays fits its target.
LEMMA ReplayFits ==
    ASSUME NEW before, NEW e, EventReplays(before, e)
    PROVE  FinalStateFits(e.to_state, e.final_state) /\ before.state # "COMPLETED"
BY DEF EventReplays, AdvanceVerdict, FinalStateFits

\* Two journals that replay to one checkpoint and differ in one event differ there in
\* the actor and the time only: the snapshot before it, the event after it, or the
\* checkpoint fixes everything else.
LEMMA OneEventOff ==
    ASSUME NEW r, NEW row, NEW d \in Seq(LifecycleTransition),
           NEW e \in Seq(LifecycleTransition), NEW m \in 1..Len(e),
           Len(d) = Len(e), \A n \in 1..Len(e) : n # m => d[n] = e[n],
           RunReplays(r, row, d), RunReplays(r, row, e)
    PROVE  Retells(d[m], e[m])
<1> DEFINE id == row.identity
<1>0. Len(e) \in Nat /\ m \in Nat /\ m <= Len(e) /\ m >= 1
  OBVIOUS
<1>t. d[m] \in LifecycleTransition /\ e[m] \in LifecycleTransition
  OBVIOUS
<1>1. EventReplays(LifecycleAt(id, d, m - 1), d[m]) /\ EventReplays(LifecycleAt(id, e, m - 1), e[m])
  BY DEF RunReplays, JournalReplays
<1>2. LifecycleAt(id, d, m - 1) = LifecycleAt(id, e, m - 1)
  <2>1. m - 1 = 0 \/ d[m - 1] = e[m - 1]
    BY <1>0
  <2> QED
    BY <2>1 DEF LifecycleAt
<1>3. d[m].to_state = e[m].to_state /\ d[m].final_state = e[m].final_state
  <2>1. CASE m = Len(e)
    <3>1. LifecycleAfter(d[m]) = LifecycleAfter(e[m])
      BY <1>0, <2>1 DEF RunReplays, ReplayedCheckpoint, LifecycleAt
    <3> QED
      BY <3>1 DEF LifecycleAfter
  <2>2. CASE m # Len(e)
    <3>1. m + 1 \in 1..Len(e) /\ d[m + 1] = e[m + 1] /\ (m + 1) - 1 = m
      BY <1>0, <2>2
    <3>2. /\ EventReplays(LifecycleAfter(d[m]), d[m + 1])
          /\ EventReplays(LifecycleAfter(e[m]), e[m + 1])
      BY <1>0, <3>1 DEF RunReplays, JournalReplays, LifecycleAt
    <3>3. /\ d[m + 1].from_state = d[m].to_state /\ d[m].to_state # "COMPLETED"
          /\ e[m + 1].from_state = e[m].to_state
      BY <3>2, ReplayFits DEF EventReplays, EventOf, LifecycleAfter
    <3>4. d[m].to_state = e[m].to_state
      BY <3>1, <3>3
    <3>5. d[m].final_state = None /\ e[m].final_state = None
      BY <1>1, <3>3, <3>4, ReplayFits DEF FinalStateFits
    <3> QED
      BY <3>4, <3>5
  <2> QED
    BY <2>1, <2>2
<1> QED
  BY <1>t, <1>1, <1>2, <1>3, SameSnapshot

\* What the store serves of a run with at most one cell that is not as written.
LEMMA NearlyIntactServes ==
    ASSUME ShapeInv, NEW r \in DOMAIN runs, Genuine(r), NearlyIntact(r), Validated(r)
    PROVE  /\ Decoded(r).checkpoint = genuine[r].checkpoint
           /\ Len(journal[r]) = Len(genuine[r].events)
           /\ DOMAIN journal[r] = DOMAIN genuine[r].events
           /\ \A n \in DOMAIN journal[r] :
                Retells(Events(r)[n], genuine[r].events[n])
<1> DEFINE d == Events(r)
           e == genuine[r].events
           cp == genuine[r].checkpoint
<1>1. /\ d \in Seq(LifecycleTransition) /\ DOMAIN d = DOMAIN journal[r]
      /\ Len(d) = Len(journal[r]) /\ DOMAIN journal[r] = 1..Len(journal[r])
      /\ Len(journal[r]) \in Nat /\ RunReplays(r, Decoded(r), d)
  BY ValidatedEvents
<1>2. /\ e \in Seq(LifecycleTransition) /\ DOMAIN e = 1..Len(e) /\ Len(e) \in Nat
      /\ RunReplays(r, RowOf(genuine[r]), e) /\ cp \in RunCheckpoint
  BY DEF Genuine, GenuineRun
<1>3. \A n \in DOMAIN e : e[n] \in LifecycleTransition
  BY <1>2
<1>4. /\ Decoded(r).identity = Decoded(r).checkpoint.identity
      /\ Decoded(r) = [identity |-> Decoded(r).identity,
                       checkpoint |-> Decoded(r).checkpoint]
      /\ Decoded(r).checkpoint = ReplayedCheckpoint(Decoded(r).identity, d)
      /\ cp = ReplayedCheckpoint(cp.identity, e)
  BY <1>1, <1>2 DEF RunReplays, Decoded, RowOf
<1>5. ASSUME NEW S, JournalStoredBut(r, S)
      PROVE  /\ DOMAIN d = DOMAIN e /\ Len(d) = Len(e)
             /\ \A n \in DOMAIN e \ S : d[n] = e[n]
  <2>1. DOMAIN journal[r] = DOMAIN e
    BY <1>5 DEF JournalStoredBut
  <2>2. ASSUME NEW n \in DOMAIN e \ S PROVE d[n] = e[n]
    <3>1. journal[r][n] = EventRow(e[n]) /\ n \in DOMAIN journal[r]
      BY <1>5, <2>1 DEF JournalStoredBut
    <3>2. d[n] = TransitionOf(journal[r][n].transition)
      BY <3>1 DEF Events
    <3> QED
      BY <3>1, <3>2, StoredDecodes
  <2> HIDE DEF d, e
  <2>3. Len(d) = Len(e)
    BY <1>1, <1>2, <2>1
  <2> QED
    BY <1>1, <2>1, <2>2, <2>3
<1>6. ASSUME NEW n \in DOMAIN e, d[n] = e[n]
      PROVE  Retells(d[n], e[n])
  BY <1>3, <1>6 DEF LifecycleTransition, Retells
<1> HIDE DEF d, e, cp
<1>7. ASSUME JournalStored(r), CheckpointStored(r) \/ IdentityStored(r)
      PROVE  Decoded(r).checkpoint = cp /\ Len(d) = Len(e) /\ d = e
  <2>1. Len(d) = Len(e) /\ \A n \in 1..Len(e) : d[n] = e[n]
    BY <1>2, <1>5, <1>7 DEF JournalStored
  <2>2. d = e
    BY <1>1, <1>2, <2>1
  <2>3. CASE CheckpointStored(r)
    BY <2>2, <2>3, StoredDecodes DEF cp
  <2>4. CASE IdentityStored(r)
    <3>1. Decoded(r).identity = cp.identity
      BY <2>4, StoredDecodes DEF cp
    <3> QED
      BY <1>4, <2>2, <3>1
  <2> QED
    BY <1>7, <2>2, <2>3, <2>4
<1>8. ASSUME IdentityStored(r), CheckpointStored(r)
      PROVE  Decoded(r) = RowOf(genuine[r]) /\ Decoded(r).checkpoint = cp
  BY <1>4, <1>8, StoredDecodes DEF RowOf, cp
<1>9. ASSUME IdentityStored(r), CheckpointStored(r),
             NEW m \in DOMAIN journal[r], JournalStoredBut(r, {m})
      PROVE  /\ Len(d) = Len(e)
             /\ \A n \in DOMAIN e : Retells(d[n], e[n])
  <2>1. Len(d) = Len(e) /\ \A n \in 1..Len(e) : n # m => d[n] = e[n]
    BY <1>2, <1>5, <1>9
  <2>2. m \in 1..Len(e)
    BY <1>1, <2>1
  <2>3. Retells(d[m], e[m])
    <3> DEFINE row == RowOf(genuine[r])
    <3>1. RunReplays(r, row, d) /\ RunReplays(r, row, e)
      BY <1>1, <1>2, <1>8, <1>9
    <3>2. d \in Seq(LifecycleTransition) /\ e \in Seq(LifecycleTransition)
      BY <1>1, <1>2
    <3> HIDE DEF row
    <3> QED
      BY <2>1, <2>2, <3>1, <3>2, OneEventOff, Zenon
  <2> QED
    BY <1>2, <1>6, <2>1, <2>3
<1>10. ASSUME CheckpointStored(r), Len(journal[r]) + 1 = Len(e) PROVE FALSE
  <2>1. Decoded(r).checkpoint = cp
    BY <1>10, StoredDecodes DEF cp
  <2>2. cp.lifecycle.revision = Len(d)
    BY <1>1, <2>1, RevisionIsLength
  <2>3. RowOf(genuine[r]).checkpoint = cp
    BY DEF RowOf, cp
  <2>4. cp.lifecycle.revision = Len(e)
    BY <1>2, <2>3, RevisionIsLength
  <2> QED
    BY <1>1, <1>2, <1>10, <2>2, <2>4
<1>11. /\ Decoded(r).checkpoint = cp /\ Len(d) = Len(e)
       /\ \A n \in DOMAIN e : Retells(d[n], e[n])
  <2>1. CASE JournalStored(r) /\ (CheckpointStored(r) \/ IdentityStored(r))
    BY <1>6, <1>7, <2>1
  <2>2. CASE /\ IdentityStored(r) /\ CheckpointStored(r)
             /\ \E m \in DOMAIN journal[r] : JournalStoredBut(r, {m})
    BY <1>8, <1>9, <2>2
  <2>3. CASE CheckpointStored(r) /\ Len(journal[r]) + 1 = Len(e)
    BY <1>10, <2>3
  <2> QED
    BY <2>1, <2>2, <2>3 DEF NearlyIntact, e
<1>12. DOMAIN journal[r] = DOMAIN e /\ Len(journal[r]) = Len(e)
  BY <1>1, <1>2, <1>11
<1> QED
  BY <1>11, <1>12 DEF d, e, cp

-----------------------------------------------------------------------------
(* The steps. *)

LEMMA StartIsTyped ==
    ASSUME NEW b \in Bindings, NEW r \in RunIds, NEW baseline \in BaselineShas,
           NEW policy \in Policies, NEW now \in Instants, BindingCause(b) = "ok"
    PROVE  LET id == IdentityFor(b, r, baseline, policy, now)
           IN  /\ id \in RunIdentity /\ id.run_id = r
               /\ b.source \in Sources /\ id.contract_hash = Sha256[b.source]
               /\ InitialCheckpoint(id) \in RunCheckpoint
<1> DEFINE id == IdentityFor(b, r, baseline, policy, now)
<1>1. /\ b.source \in Sources /\ b.hash = Sha256[b.source]
      /\ b.source.value \in DOMAIN ContractOf /\ b.contract = ContractOf[b.source.value]
  BY StateFileAssumption DEF BindingCause, ParseCause
<1>2. id \in RunIdentity /\ id.contract_hash = Sha256[b.source] /\ id.run_id = r
  BY <1>1, StateFileAssumption DEF IdentityFor, RunIdentity
<1> HIDE DEF id
<1>3. InitialCheckpoint(id) \in RunCheckpoint
  BY <1>2, CodecAssumption, InitialType
<1> QED
  BY <1>1, <1>2, <1>3 DEF id

LEMMA StartIsGenuine ==
    ASSUME FileInv,
           NEW b \in Bindings, NEW r \in RunIds, NEW baseline \in BaselineShas,
           NEW policy \in Policies, NEW now \in Instants,
           StartRun(b, r, baseline, policy, now), ~UNCHANGED <<content, held>>
    PROVE  Genuine(r)' /\ Intact(r)' /\ held' \in RunCheckpoint
<1> DEFINE id == IdentityFor(b, r, baseline, policy, now)
           cp == InitialCheckpoint(id)
<1>1. /\ BindingCause(b) = "ok" /\ r \notin DOMAIN runs
      /\ runs'[r] = [identity |-> SerializeIdentity(id),
                     checkpoint |-> SerializeCheckpoint(cp)]
      /\ genuine'[r] = [source |-> b.source, checkpoint |-> cp, events |-> <<>>]
      /\ held' = cp /\ journal' = journal
  <2> DEFINE row == [identity |-> SerializeIdentity(id),
                     checkpoint |-> SerializeCheckpoint(cp)]
             new == [source |-> b.source, checkpoint |-> cp, events |-> <<>>]
  <2>1. /\ BindingCause(b) = "ok" /\ r \notin DOMAIN runs
        /\ runs' = Insert(runs, r, row) /\ genuine' = Insert(genuine, r, new)
        /\ held' = cp /\ journal' = journal
    BY StartRunWrites
  <2>2. \A table, v : Insert(table, r, v)[r] = v
    BY DEF Insert
  <2> HIDE DEF row, new
  <2>3. runs'[r] = row /\ genuine'[r] = new
    BY <2>1, <2>2
  <2> QED
    BY <2>1, <2>3 DEF row, new
<1>2. /\ id \in RunIdentity /\ id.contract_hash = Sha256[b.source] /\ id.run_id = r
      /\ b.source \in Sources /\ cp \in RunCheckpoint
  BY <1>1, StartIsTyped
<1>3. cp.identity = id
  BY DEF InitialCheckpoint
<1>4. id \in Identities
  BY <1>2, CodecAssumption
<1>5. RunReplays(r, [identity |-> id, checkpoint |-> cp], <<>>)
  BY <1>2, <1>4, FreshReplays
<1> HIDE DEF id, cp
<1>6. Genuine(r)'
  <2>1. genuine'[r] \in GenuineRun
    BY <1>1, <1>2 DEF GenuineRun
  <2>2. RowOf(genuine'[r]) = [identity |-> id, checkpoint |-> cp]
    BY <1>1, <1>3 DEF RowOf
  <2> QED
    BY <1>1, <1>2, <1>3, <1>5, <2>1, <2>2 DEF Genuine
<1>7. journal'[r] = <<>> /\ genuine'[r].events = <<>>
  BY <1>1 DEF FileInv
<1> QED
  BY <1>1, <1>2, <1>3, <1>6, <1>7
     DEF Intact, IdentityStored, CheckpointStored, JournalStored, JournalStoredBut

\* A landed update extends a genuine run by a genuine event.
LEMMA AppendIsGenuine ==
    ASSUME FileInv, damage <= 1, NEW u \in PreparedUpdates(held), held # None,
           AppendTransition(u), ~UNCHANGED <<content, held>>
    PROVE  LET r == u.expected.identity.run_id
           IN  /\ r \in DOMAIN runs
               /\ Genuine(r)' /\ NearlyIntact(r)' /\ (Intact(r) => Intact(r)')
               /\ genuine'[r].source = genuine[r].source
<1> DEFINE r == u.expected.identity.run_id
           g == genuine[r]
           e == g.events
           j == journal[r]
           next == NextCheckpoint(u)
<1>1. u \in StateUpdate /\ u.expected = held /\ EventReplays(held.lifecycle, u.event)
  BY DraftType DEF FileInv, PreparedUpdates
<1>2. AppendResult(u) = "ok"
  BY AppendWrites
<1>3. r \in DOMAIN runs /\ Validated(r) /\ Decoded(r).checkpoint = u.expected
  BY <1>2, AppendFinds
<1>4. Genuine(r) /\ NearlyIntact(r) /\ DOMAIN genuine = DOMAIN runs /\ ShapeInv
  BY <1>3 DEF FileInv
<1>5. u.expected = g.checkpoint /\ DOMAIN j = DOMAIN e /\ Len(j) = Len(e)
  BY <1>3, <1>4, NearlyIntactServes
<1>6. g \in GenuineRun /\ e \in Seq(LifecycleTransition) /\ g.checkpoint \in RunCheckpoint
  BY <1>4 DEF Genuine, GenuineRun
<1>7. /\ runs'[r] = [runs[r] EXCEPT !.checkpoint = SerializeCheckpoint(next)]
      /\ journal'[r] = Append(j, EventRow(u.event))
      /\ genuine'[r] = [source |-> g.source, checkpoint |-> next,
                        events |-> Append(e, u.event)]
  <2> HIDE DEF r
  <2>1. runs' = [runs EXCEPT ![r].checkpoint = SerializeCheckpoint(next)]
    BY AppendWrites DEF r
  <2>2. journal' = [journal EXCEPT ![r] = Append(@, EventRow(u.event))]
    BY AppendWrites DEF EventRow, r
  <2>3. genuine' = [genuine EXCEPT ![r] =
                      [source |-> @.source, checkpoint |-> next,
                       events |-> Append(@.events, u.event)]]
    BY AppendWrites DEF r
  <2>4. r \in DOMAIN runs /\ r \in DOMAIN genuine /\ r \in DOMAIN journal
    BY <1>3, <1>4 DEF ShapeInv
  <2> QED
    BY <2>1, <2>2, <2>3, <2>4
<1>8. /\ u.event \in LifecycleTransition /\ next \in RunCheckpoint
      /\ next = CheckpointAfter(g.checkpoint.identity, u.event)
      /\ next.identity = g.checkpoint.identity
  BY <1>1, <1>5, NextType DEF StateUpdate, NextCheckpoint, CheckpointAfter
<1>9. r \in RunIds /\ j \in Seq(Range(j)) /\ IsRunRow(runs[r])
  BY <1>3, <1>4 DEF ShapeInv, AreEventRows
<1> HIDE DEF r, g, e, j, next
<1>10. /\ genuine'[r].source = g.source /\ genuine'[r].checkpoint = next
       /\ genuine'[r].events = Append(e, u.event) /\ genuine'[r] \in GenuineRun
  BY <1>6, <1>7, <1>8 DEF GenuineRun
<1>11. Genuine(r)'
  <2> DEFINE row == RowOf(g)
  <2>1. row \in RunRow /\ row.checkpoint = g.checkpoint /\ row.identity = g.checkpoint.identity
    BY <1>6 DEF RowOf, RunRow, RunCheckpoint
  <2>2. RunReplays(r, row, e) /\ EventReplays(row.checkpoint.lifecycle, u.event)
    BY <1>1, <1>4, <1>5, <2>1 DEF Genuine, g, e
  <2>3. RunReplays(r, [row EXCEPT !.checkpoint =
                          CheckpointAfter(row.checkpoint.identity, u.event)],
                   Append(e, u.event))
    <3> HIDE DEF row
    <3> QED
      BY <1>6, <1>8, <1>9, <2>1, <2>2, AppendReplays
  <2>4. RowOf(genuine'[r]) =
          [row EXCEPT !.checkpoint = CheckpointAfter(row.checkpoint.identity, u.event)]
    BY <1>8, <1>10, <2>1 DEF RowOf
  <2>5. genuine'[r].checkpoint.identity.contract_hash = Sha256[genuine'[r].source]
    BY <1>4, <1>8, <1>10 DEF Genuine, g
  <2> HIDE DEF row
  <2> QED
    BY <1>10, <2>3, <2>4, <2>5 DEF Genuine
<1>12. CheckpointStored(r)' /\ (IdentityStored(r) => IdentityStored(r)')
  BY <1>7, <1>8, <1>9, <1>10 DEF CheckpointStored, IdentityStored, IsRunRow, g
<1>13. ASSUME NEW S, JournalStoredBut(r, S) PROVE JournalStoredBut(r, S)'
  <2>1. /\ DOMAIN e = 1..Len(e) /\ DOMAIN j = 1..Len(e) /\ Len(e) \in Nat
        /\ DOMAIN Append(e, u.event) = 1..(Len(e) + 1)
        /\ Append(e, u.event)[Len(e) + 1] = u.event
        /\ \A n \in 1..Len(e) : Append(e, u.event)[n] = e[n]
    BY <1>5, <1>6, <1>8
  <2>2. /\ DOMAIN journal'[r] = 1..(Len(e) + 1)
        /\ journal'[r][Len(e) + 1] = EventRow(u.event)
        /\ \A n \in 1..Len(e) : journal'[r][n] = j[n]
    BY <1>5, <1>7, <1>9, RowAppended
  <2>3. \A n \in 1..(Len(e) + 1) : n \in 1..Len(e) \/ n = Len(e) + 1
    BY <2>1
  <2>4. \A n \in 1..Len(e) : n \notin S => j[n] = EventRow(e[n])
    BY <1>13, <2>1 DEF JournalStoredBut, j, e, g
  <2>5. \A n \in DOMAIN journal'[r] : n \notin S =>
          journal'[r][n] = EventRow(genuine'[r].events[n])
    BY <1>10, <2>1, <2>2, <2>3, <2>4
  <2>6. DOMAIN journal'[r] = DOMAIN genuine'[r].events
    BY <1>10, <2>1, <2>2
  <2> QED
    BY <2>5, <2>6 DEF JournalStoredBut
<1>14. NearlyIntact(r)'
  <2>1. CASE JournalStored(r)
    BY <1>12, <1>13, <2>1 DEF NearlyIntact, JournalStored
  <2>2. ASSUME NEW m \in DOMAIN journal[r], IdentityStored(r), JournalStoredBut(r, {m})
        PROVE  NearlyIntact(r)'
    <3>1. m \in DOMAIN journal'[r]
      BY <1>5, <1>7, <1>9, RowAppended DEF j
    <3> QED
      BY <1>12, <1>13, <2>2, <3>1 DEF NearlyIntact
  <2>3. Len(journal[r]) + 1 # Len(genuine[r].events)
    BY <1>5, <1>6 DEF j, e, g
  <2> QED
    BY <1>4, <2>1, <2>2, <2>3 DEF NearlyIntact
<1>15. Intact(r) => Intact(r)'
  BY <1>12, <1>13 DEF Intact, JournalStored
<1> QED
  BY <1>3, <1>10, <1>11, <1>14, <1>15 DEF r, g

\* What nobody touched stays as it is.
LEMMA Untouched ==
    ASSUME NEW r, runs'[r] = runs[r], journal'[r] = journal[r], genuine'[r] = genuine[r]
    PROVE  /\ Genuine(r) => Genuine(r)'
           /\ NearlyIntact(r) => NearlyIntact(r)'
           /\ Intact(r) => Intact(r)'
<1>1. /\ IdentityStored(r) => IdentityStored(r)'
      /\ CheckpointStored(r) => CheckpointStored(r)'
      /\ \A S : JournalStoredBut(r, S) => JournalStoredBut(r, S)'
  BY DEF IdentityStored, CheckpointStored, JournalStoredBut
<1> QED
  BY <1>1 DEF Genuine, NearlyIntact, Intact, JournalStored

\* The first damage spoils one cell, or loses one row.
LEMMA FirstDamage ==
    ASSUME ShapeInv, NEW r \in DOMAIN runs, Intact(r), Genuine(r), Damage(r)
    PROVE  NearlyIntact(r)'
<1>1. genuine' = genuine
  BY DEF Damage
<1>2. r \in RunIds /\ r \in DOMAIN journal /\ IsRunRow(runs[r]) /\ AreEventRows(journal[r])
  BY DEF ShapeInv
<1>3. IdentityStored(r) /\ CheckpointStored(r) /\ JournalStored(r)
  BY DEF Intact
<1>4. UNCHANGED journal => JournalStored(r)'
  BY <1>1, <1>3 DEF JournalStored, JournalStoredBut
<1>5. UNCHANGED runs => IdentityStored(r)' /\ CheckpointStored(r)'
  BY <1>1, <1>3 DEF IdentityStored, CheckpointStored
<1>6. ASSUME NEW x, UNCHANGED journal, runs' = [runs EXCEPT ![r].identity = x]
      PROVE  NearlyIntact(r)'
  <2>1. runs'[r].checkpoint = runs[r].checkpoint
    BY <1>2, <1>6 DEF IsRunRow
  <2> QED
    BY <1>1, <1>3, <1>4, <1>6, <2>1 DEF NearlyIntact, CheckpointStored
<1>7. ASSUME NEW x, UNCHANGED journal, runs' = [runs EXCEPT ![r].checkpoint = x]
      PROVE  NearlyIntact(r)'
  <2>1. runs'[r].identity = runs[r].identity
    BY <1>2, <1>7 DEF IsRunRow
  <2> QED
    BY <1>1, <1>3, <1>4, <1>7, <2>1 DEF NearlyIntact, IdentityStored
<1>8. ASSUME NEW m \in DOMAIN journal[r], NEW x, UNCHANGED runs,
             journal' = [journal EXCEPT ![r][m].transition = x]
      PROVE  NearlyIntact(r)'
  <2>1. /\ DOMAIN journal'[r] = DOMAIN journal[r]
        /\ \A n \in DOMAIN journal[r] \ {m} : journal'[r][n] = journal[r][n]
    BY <1>2, <1>8
  <2>2. JournalStoredBut(r, {m})'
    BY <1>1, <1>3, <2>1 DEF JournalStored, JournalStoredBut
  <2>3. m \in DOMAIN journal'[r]
    BY <2>1
  <2> QED
    BY <1>5, <1>8, <2>2, <2>3 DEF NearlyIntact
<1>9. ASSUME NEW n \in DOMAIN journal[r], UNCHANGED runs,
             journal' = [journal EXCEPT ![r] = RemoveAt(@, n)]
      PROVE  NearlyIntact(r)'
  <2>1. journal'[r] = RemoveAt(journal[r], n) /\ journal[r] \in Seq(Range(journal[r]))
    BY <1>2, <1>9 DEF AreEventRows
  <2>2. Len(journal'[r]) = Len(journal[r]) - 1
    BY <2>1, RowRemoved
  <2>3. Len(journal[r]) = Len(genuine[r].events) /\ Len(journal[r]) \in Nat
    <3>1. DOMAIN journal[r] = DOMAIN genuine[r].events
      BY <1>3 DEF JournalStored, JournalStoredBut
    <3>2. genuine[r].events \in Seq(LifecycleTransition)
      BY DEF Genuine, GenuineRun
    <3> QED
      BY <2>1, <3>1, <3>2
  <2>4. (Len(journal[r]) + 1 = Len(genuine[r].events))'
    BY <1>1, <2>2, <2>3
  <2> QED
    BY <1>5, <1>9, <2>4 DEF NearlyIntact
<1> QED
  BY <1>6, <1>7, <1>8, <1>9 DEF Damage

\* A run the store serves is served as a checkpoint.
LEMMA ServedIsTyped ==
    ASSUME ShapeInv, NEW r, NEW absent, absent # "ok", ReadResult(r, absent) = "ok"
    PROVE  /\ r \in DOMAIN runs /\ Validated(r)
           /\ Decoded(r).checkpoint \in RunCheckpoint
<1>1. r \in DOMAIN runs /\ Validated(r)
  BY DEF ReadResult
<1>2. Document(runs[r].checkpoint.value)
  BY <1>1 DEF ShapeInv, IsRunRow
<1> QED
  BY <1>1, <1>2, CheckpointIsCanonical DEF Validated, Decoded

\* A resumed run was bound to the digest of the very bytes presented.
LEMMA ResumeIsGenuine ==
    ASSUME FileInv, damage <= 1, NEW r, NEW b \in Bindings, NEW baseline, NEW policy,
           ReadResult(r, "not_found") = "ok", BindingCause(b) = "ok",
           ResumeVerdict(Decoded(r).checkpoint, b, baseline, policy) = "ok"
    PROVE  r \in DOMAIN runs /\ genuine[r].source = b.source
<1>1. r \in DOMAIN runs /\ Validated(r)
  BY ServedIsTyped DEF FileInv
<1>2. Genuine(r) /\ NearlyIntact(r) /\ ShapeInv
  BY <1>1 DEF FileInv
<1>3. Decoded(r).checkpoint = genuine[r].checkpoint
  BY <1>1, <1>2, NearlyIntactServes
<1>4. genuine[r].checkpoint.identity.contract_hash = b.hash
  BY <1>3 DEF ResumeVerdict
<1>5. b.source \in Sources /\ b.hash = Sha256[b.source]
  BY StateFileAssumption DEF BindingCause
<1>6. genuine[r].source \in Sources /\ Sha256[genuine[r].source] = Sha256[b.source]
  BY <1>2, <1>4, <1>5 DEF Genuine, GenuineRun
<1> QED
  BY <1>1, <1>5, <1>6, BindingAssumption

LEMMA FileStep == FileInv /\ [Next]_vars => FileInv'
<1> SUFFICES ASSUME FileInv, [Next]_vars PROVE FileInv'
  OBVIOUS
<1>s. ShapeInv'
  BY ShapeStep DEF FileInv
<1>1. ASSUME UNCHANGED <<content, damage>>, held' \in RunCheckpoint \cup {None},
             damage <= 1 /\ resumed' # None =>
                 /\ resumed'.run \in DOMAIN runs
                 /\ genuine[resumed'.run].source = resumed'.source
      PROVE  FileInv'
  <2>1. runs' = runs /\ journal' = journal /\ genuine' = genuine /\ damage' = damage
    BY <1>1 DEF content
  <2>2. \A r \in DOMAIN runs : /\ Genuine(r) => Genuine(r)'
                               /\ NearlyIntact(r) => NearlyIntact(r)'
                               /\ Intact(r) => Intact(r)'
    BY <2>1, Untouched
  <2> QED
    BY <1>s, <1>1, <2>1, <2>2 DEF FileInv
<1>2. ASSUME UNCHANGED <<content, damage>>, held' \in RunCheckpoint \cup {None},
             resumed' = None \/ resumed' = resumed
      PROVE  FileInv'
  BY <1>1, <1>2 DEF FileInv
<1>3. ASSUME NEW r \in RunIds, LoadRun(r) PROVE FileInv'
  <2>1. /\ UNCHANGED <<content, damage>> /\ resumed' = None
        /\ held' = held \/ (ReadResult(r, "absent") = "ok" /\ held' = Decoded(r).checkpoint)
    BY <1>3 DEF LoadRun
  <2>2. held' \in RunCheckpoint \cup {None}
    BY <2>1, ServedIsTyped DEF FileInv
  <2> QED
    BY <1>2, <2>1, <2>2
<1>4. ASSUME NEW r \in RunIds, NEW b \in Bindings, NEW baseline, NEW policy,
             ResumeRun(r, b, baseline, policy)
      PROVE  FileInv'
  <2>1. UNCHANGED <<content, damage>> /\ BindingCause(b) = "ok"
    BY <1>4 DEF ResumeRun
  <2>2. CASE /\ ReadResult(r, "not_found") = "ok"
             /\ ResumeVerdict(Decoded(r).checkpoint, b, baseline, policy) = "ok"
             /\ held' = Decoded(r).checkpoint
             /\ resumed' = [run |-> r, source |-> b.source]
    <3>1. held' \in RunCheckpoint
      BY <2>2, ServedIsTyped DEF FileInv
    <3>2. damage <= 1 => r \in DOMAIN runs /\ genuine[r].source = b.source
      BY <2>1, <2>2, ResumeIsGenuine
    <3>3. resumed'.run = r /\ resumed'.source = b.source
      BY <2>2
    <3> QED
      BY <1>1, <2>1, <3>1, <3>2, <3>3
  <2>3. CASE resumed' = None /\ held' = held
    <3>1. held' \in RunCheckpoint \cup {None}
      BY <2>3 DEF FileInv
    <3> QED
      BY <1>2, <2>1, <2>3, <3>1
  <2> QED
    BY <1>4, <2>2, <2>3 DEF ResumeRun
<1>5. ASSUME NEW r \in RunIds, NEW b \in Bindings, NEW baseline \in BaselineShas,
             NEW policy \in Policies, NEW now \in Instants,
             StartRun(b, r, baseline, policy, now)
      PROVE  FileInv'
  <2>1. damage' = damage /\ resumed' = None
    BY <1>5 DEF StartRun
  <2>2. CASE UNCHANGED <<content, held>>
    <3>1. held' \in RunCheckpoint \cup {None}
      BY <2>2 DEF FileInv
    <3> QED
      BY <1>2, <2>1, <2>2, <3>1
  <2>3. CASE ~UNCHANGED <<content, held>>
    <3> DEFINE id == IdentityFor(b, r, baseline, policy, now)
               row == [identity |-> SerializeIdentity(id),
                       checkpoint |-> SerializeCheckpoint(InitialCheckpoint(id))]
               new == [source |-> b.source, checkpoint |-> InitialCheckpoint(id),
                       events |-> <<>>]
    <3>1. /\ r \notin DOMAIN runs /\ journal' = journal
          /\ runs' = Insert(runs, r, row) /\ genuine' = Insert(genuine, r, new)
      BY <1>5, <2>3, StartRunWrites
    <3> HIDE DEF row, new
    <3>2. /\ DOMAIN runs' = DOMAIN runs \cup {r} /\ DOMAIN genuine' = DOMAIN genuine \cup {r}
          /\ \A q \in DOMAIN runs : q # r /\ runs'[q] = runs[q]
          /\ \A q \in DOMAIN genuine : q # r => genuine'[q] = genuine[q]
      BY <3>1 DEF Insert
    <3>3. held' \in RunCheckpoint
      BY <1>5, <2>3, StartIsGenuine
    <3>4. Genuine(r)' /\ Intact(r)'
      BY <1>5, <2>3, StartIsGenuine
    <3>5. \A q \in DOMAIN runs : /\ Genuine(q) => Genuine(q)'
                                 /\ NearlyIntact(q) => NearlyIntact(q)'
                                 /\ Intact(q) => Intact(q)'
      BY <3>1, <3>2, Untouched DEF FileInv
    <3>6. Intact(r)' => NearlyIntact(r)'
      BY DEF Intact, NearlyIntact
    <3>7. damage <= 1 => \A q \in DOMAIN runs' : Genuine(q)' /\ NearlyIntact(q)'
      BY <3>2, <3>4, <3>5, <3>6 DEF FileInv
    <3>8. damage = 0 => \A q \in DOMAIN runs' : Intact(q)'
      BY <3>2, <3>4, <3>5 DEF FileInv
    <3> QED
      BY <1>s, <2>1, <3>1, <3>2, <3>3, <3>7, <3>8 DEF FileInv
  <2> QED
    BY <2>2, <2>3
<1>6. ASSUME held # None, NEW u \in PreparedUpdates(held), AppendTransition(u)
      PROVE  FileInv'
  <2>1. damage' = damage /\ resumed' = None
    BY <1>6 DEF AppendTransition
  <2>2. CASE UNCHANGED <<content, held>>
    <3>1. held' \in RunCheckpoint \cup {None}
      BY <2>2 DEF FileInv
    <3> QED
      BY <1>2, <2>1, <2>2, <3>1
  <2>3. CASE ~UNCHANGED <<content, held>>
    <3> DEFINE r == u.expected.identity.run_id
               row == EventRow(u.event)
               bytes == SerializeCheckpoint(NextCheckpoint(u))
    <3>1. /\ AppendResult(u) = "ok" /\ held' = NextCheckpoint(u)
          /\ runs' = [runs EXCEPT ![r].checkpoint = bytes]
          /\ journal' = [journal EXCEPT ![r] = Append(@, row)]
      BY <1>6, <2>3, AppendWrites DEF EventRow
    <3>2. genuine' = [genuine EXCEPT ![r] =
                        [source |-> @.source, checkpoint |-> NextCheckpoint(u),
                         events |-> Append(@.events, u.event)]]
      BY <1>6, <2>3, AppendWrites
    <3>3. r \in DOMAIN runs
      BY <3>1, AppendFinds
    <3>4. held' \in RunCheckpoint
      BY <1>6, <3>1, DraftType, NextType DEF FileInv, PreparedUpdates
    <3>5. damage <= 1 => Genuine(r)' /\ NearlyIntact(r)' /\ (Intact(r) => Intact(r)')
      BY <1>6, <2>3, AppendIsGenuine
    <3> HIDE DEF r, row, bytes
    <3>6. /\ DOMAIN runs' = DOMAIN runs /\ DOMAIN genuine' = DOMAIN genuine
          /\ DOMAIN journal' = DOMAIN journal
          /\ \A q \in DOMAIN runs : q # r => runs'[q] = runs[q]
          /\ \A q \in DOMAIN journal : q # r => journal'[q] = journal[q]
          /\ \A q \in DOMAIN genuine : q # r => genuine'[q] = genuine[q]
      BY <3>1, <3>2
    <3>7. \A q \in DOMAIN runs \ {r} : /\ Genuine(q) => Genuine(q)'
                                       /\ NearlyIntact(q) => NearlyIntact(q)'
                                       /\ Intact(q) => Intact(q)'
      BY <3>6, Untouched DEF FileInv, ShapeInv
    <3>8. damage <= 1 => \A q \in DOMAIN runs : Genuine(q)' /\ NearlyIntact(q)'
      BY <3>5, <3>7 DEF FileInv
    <3>9. damage = 0 => \A q \in DOMAIN runs : Intact(q)'
      BY <3>5, <3>7 DEF FileInv
    <3>10. \A q \in RunIds \ DOMAIN runs : journal'[q] = <<>>
      BY <3>3, <3>6 DEF FileInv, ShapeInv
    <3> QED
      BY <1>s, <2>1, <3>4, <3>6, <3>8, <3>9, <3>10 DEF FileInv
  <2> QED
    BY <2>2, <2>3
<1>7. ASSUME NEW r \in DOMAIN runs, Damage(r) PROVE FileInv'
  <2>1. damage' = damage + 1 /\ genuine' = genuine /\ held' = held /\ resumed' = resumed
    BY <1>7 DEF Damage, caller
  <2>2. /\ DOMAIN runs' = DOMAIN runs
        /\ \A q \in DOMAIN runs : q # r => runs'[q] = runs[q]
        /\ \A q \in DOMAIN journal : q # r => journal'[q] = journal[q]
    BY <1>7 DEF Damage
  <2>3. ASSUME damage' <= 1
        PROVE  \A q \in DOMAIN runs' : Genuine(q)' /\ NearlyIntact(q)'
    <3>1. damage = 0 /\ damage <= 1
      BY <2>1, <2>3 DEF FileInv
    <3>2. \A q \in DOMAIN runs : Genuine(q) /\ Intact(q) /\ NearlyIntact(q)
      BY <3>1 DEF FileInv
    <3>3. Genuine(r)' /\ NearlyIntact(r)'
      BY <1>7, <2>1, <3>2, FirstDamage DEF FileInv, Genuine
    <3>4. \A q \in DOMAIN runs : q # r => Genuine(q)' /\ NearlyIntact(q)'
      BY <2>1, <2>2, <3>2, Untouched DEF FileInv, ShapeInv
    <3> QED
      BY <2>2, <3>3, <3>4
  <2>4. damage' \in Nat /\ damage' # 0 /\ (damage' <= 1 => damage <= 1)
    BY <2>1 DEF FileInv
  <2>5. \A q \in RunIds \ DOMAIN runs : journal'[q] = <<>>
    BY <2>2 DEF FileInv, ShapeInv
  <2> QED
    BY <1>s, <2>1, <2>2, <2>3, <2>4, <2>5 DEF FileInv
<1>8. ASSUME UNCHANGED <<content, caller, damage>> PROVE FileInv'
  <2>1. held' \in RunCheckpoint \cup {None} /\ resumed' = resumed
    BY <1>8 DEF FileInv, caller
  <2> QED
    BY <1>2, <1>8, <2>1
<1>9. UNCHANGED vars => UNCHANGED <<content, caller, damage>>
  BY DEF vars
<1>10. Use => FileInv'
  BY <1>3, <1>4, <1>5, <1>6 DEF Use
<1>11. (\E c \in Clients : Open(c) \/ OpenStep(c) \/ OpenError(c)) => FileInv'
  BY <1>8, OpeningKeepsContent
<1> QED
  BY <1>7, <1>8, <1>9, <1>10, <1>11 DEF Next

\* FileInv is inductive.
THEOREM FileInvariance == Spec => []FileInv
<1>1. Init => FileInv
  <2>1. <<>> \in Seq(Range(<<>>)) /\ DOMAIN <<>> = {}
    OBVIOUS
  <2> QED
    BY <2>1 DEF Init, FileInv, ShapeInv, AreEventRows
<1> QED
  BY <1>1, FileStep, PTL DEF Spec

\* What was written and not damaged is read, whatever runs, events and instants of
\* four-digit years the file holds.
THEOREM IntactRunsAreRead == Spec => []IntactIsReadable
<1>1. FileInv => IntactIsReadable
  <2> SUFFICES ASSUME FileInv, NEW r \in DOMAIN runs, damage = 0,
                      ShortYears \cap ({genuine[r].checkpoint.identity.created_at}
                          \cup {e.occurred_at : e \in Range(genuine[r].events)}) = {}
               PROVE  Validated(r)
    BY DEF IntactIsReadable
  <2> DEFINE g == genuine[r]
             cp == g.checkpoint
             ev == g.events
             j == journal[r]
  <2>1. Genuine(r) /\ Intact(r) /\ ShapeInv
    BY DEF FileInv
  <2>2. /\ cp \in RunCheckpoint /\ cp.identity \in RunIdentity
        /\ ev \in Seq(LifecycleTransition) /\ RunReplays(r, RowOf(g), ev)
    BY <2>1, CodecAssumption DEF Genuine, GenuineRun, RunCheckpoint
  <2>3. /\ DOMAIN ev = 1..Len(ev) /\ Len(ev) \in Nat
        /\ \A n \in 1..Len(ev) : ev[n] \in LifecycleTransition
    BY <2>2
  <2>4. /\ cp.identity.created_at \notin ShortYears
        /\ \A n \in 1..Len(ev) : ev[n].occurred_at \notin ShortYears
    BY <2>3 DEF Range
  <2>5. /\ WellFormedCheckpoint(cp) /\ cp.lifecycle = LifecycleAt(cp.identity, ev, Len(ev))
        /\ \A n \in 1..Len(ev) : ev[n].revision = n
        /\ \A n \in 1..Len(ev) : EventReplays(LifecycleAt(cp.identity, ev, n - 1), ev[n])
    BY <2>2 DEF RunReplays, RowOf, NoRevisionGap, JournalReplays, ReplayedCheckpoint
  <2>6. DOMAIN j = DOMAIN ev /\ \A n \in DOMAIN j : j[n] = EventRow(ev[n])
    BY <2>1 DEF Intact, JournalStored, JournalStoredBut
  <2>7. /\ IdentityStored(r) /\ CheckpointStored(r)
        /\ Decoded(r).identity = cp.identity /\ Decoded(r).checkpoint = cp
        /\ \A n \in DOMAIN ev : TransitionOf(j[n].transition) = ev[n]
    BY <2>1, <2>6, StoredDecodes DEF Intact
  <2>8. Decoded(r) = RowOf(g)
    BY <2>7 DEF Decoded, RowOf
  <2>9. Events(r) = ev
    BY <2>2, <2>3, <2>6, <2>7 DEF Events
  <2> HIDE DEF g, cp, ev, j
  <2>10. IdentityAccepted(runs[r].identity)
    BY <2>2, <2>4, <2>7, IdentityIsRead DEF IdentityStored, cp, g
  <2>11. CheckpointAccepted(runs[r].checkpoint)
    <3>1. cp.lifecycle.updated_at \notin ShortYears
      BY <2>3, <2>4, <2>5 DEF LifecycleAt, StartLifecycle, LifecycleAfter
    <3>2. CheckpointAccepted(SerializeCheckpoint(cp))
      BY <2>2, <2>4, <2>5, <3>1, CheckpointIsRead
    <3> QED
      BY <2>7, <3>2 DEF CheckpointStored, cp, g
  <2>12. ASSUME NEW n \in DOMAIN j
         PROVE  j[n].revision = n /\ TransitionAccepted(j[n].transition)
    <3>1. n \in 1..Len(ev) /\ j[n] = EventRow(ev[n])
      BY <2>3, <2>6
    <3>2. FinalStateFits(ev[n].to_state, ev[n].final_state)
      BY <2>5, <3>1, ReplayFits
    <3>3. TransitionAccepted(SerializeTransition(ev[n]))
      BY <2>3, <2>4, <3>1, <3>2, TransitionIsRead
    <3> QED
      BY <2>5, <3>1, <3>3 DEF EventRow
  <2> QED
    BY <2>2, <2>8, <2>9, <2>10, <2>11, <2>12 DEF Validated, j
<1> QED
  BY <1>1, FileInvariance, PTL

\* With one damaged cell or lost row anywhere in the file, before, between or after any
\* updates, the store serves the checkpoint that was written or nothing.
THEOREM OneDamageIsHarmless == Spec => [](damage <= 1 => OneDamageForgesNothing)
<1>1. FileInv /\ damage <= 1 => OneDamageForgesNothing
  BY NearlyIntactServes DEF FileInv, OneDamageForgesNothing, Retells
<1> QED
  BY <1>1, FileInvariance, PTL

\* With at most one damaged cell, a run is only resumed with the contract bytes it was
\* started with, if the digest tells those bytes apart.
THEOREM ResumesFromItsBytes == Spec => [](damage <= 1 => ResumedFromSameBytes)
<1>1. FileInv /\ damage <= 1 => ResumedFromSameBytes
  BY DEF FileInv, ResumedFromSameBytes
<1> QED
  BY <1>1, FileInvariance, PTL

=============================================================================
