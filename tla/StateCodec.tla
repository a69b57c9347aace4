----------------------------- MODULE StateCodec -----------------------------
(***************************************************************************)
(* The canonical bytes of run state (adapters/local/state_serialization.py *)
(* with the values of domain/run_identity.py): how an identity, a          *)
(* checkpoint and a transition are written, and which bytes are read back. *)
(* A decoder is a predicate, XAccepted, and a function, XOf, of what it    *)
(* accepts: everything else is one StateSerializationError.                *)
(***************************************************************************)
EXTENDS Lifecycle, JsonBytes

CONSTANTS
    ContractIds,       \* the texts ContractId accepts
    ContractVersions,  \* the texts ContractVersion accepts
    Digests,           \* the SHA-256 texts ContractHash and PolicyHash accept
    BaselineShas,      \* the object identifiers BaselineSha accepts
    Unencodable,       \* contract identifiers with a lone surrogate: not UTF-8
    ShortYears         \* instants before the year 1000, which strftime does not pad

\* The constructors' checks: each field is a text of its own format, and the
\* timestamp is in UTC.
RunIdentity ==
    [run_id : RunIds, contract_id : ContractIds, contract_version : ContractVersions,
     contract_hash : Digests, baseline_sha : BaselineShas, policy_hash : Digests,
     created_at : Instants]

ASSUME CodecAssumption ==
    /\ Identities = RunIdentity
    /\ ShortYears \subseteq Instants
    /\ None \notin LifecycleState \cup Actors

Names(S) == {Name(x) : x \in S}
NameOf(v) == v[2][2]

\* _load: the value must encode back to exactly the bytes it came from.
Loaded(data) ==
    /\ Parses(data)
    /\ Kind(data.value) = "object"
    /\ Dump(data.value) = data

\* _object: the exact set of fields.
HasFields(v, keys) == Kind(v) = "object" /\ DOMAIN Fields(v) = keys

\* _header: the format, and the integer 1 (not 1.0).
Header(p, format) == p.format = Name(format) /\ p.version = Number(1)

\* _timestamp: strftime pads every field but the year.
Time(i, style) == Text(<<"time", i, style>>)
Timestamp(i) == Time(i, IF i \in ShortYears THEN "short" ELSE "padded")
InstantOf(v) == v[2][2]

\* Mutant: every text strptime reads is a timestamp.
ReadsTimestamp_Loosely(v) ==
    \E i \in Instants : v \in {Time(i, "padded"), Time(i, "loose")}

\* _parse_timestamp: strptime also reads unpadded fields, but no short year; only
\* the text that strftime would have written is accepted.
ReadsTimestamp(v) ==
    \E i \in Instants :
        /\ v \in {Time(i, "padded"), Time(i, "loose")}
        /\ Timestamp(i) = v

\* Mutant: no final state is written as an empty text.
OptionalText_Empty(x) == Name(IF x = None THEN "" ELSE x)

\* final_state: null or a text.
OptionalText(x) == IF x = None THEN Null ELSE Name(x)
OptionalOf(v) == IF v = Null THEN None ELSE NameOf(v)

IsRevision(v) == Kind(v) = "int" /\ v[2] \in Nat

-----------------------------------------------------------------------------
(* Identities. *)

IdentityKeys ==
    {"baseline_sha", "contract_hash", "contract_id", "contract_version", "created_at",
     "format", "policy_hash", "run_id", "version"}

IdentityPayload(id) ==
    Object([baseline_sha |-> Name(id.baseline_sha), contract_hash |-> Name(id.contract_hash),
            contract_id |-> Name(id.contract_id),
            contract_version |-> Name(id.contract_version),
            created_at |-> Timestamp(id.created_at), format |-> Name("run_identity"),
            policy_hash |-> Name(id.policy_hash), run_id |-> Name(id.run_id),
            version |-> Number(1)])

IdentityPayloadAccepted(v) ==
    /\ HasFields(v, IdentityKeys)
    /\ Header(Fields(v), "run_identity")
    /\ Fields(v).run_id \in Names(RunIds)
    /\ Fields(v).contract_id \in Names(ContractIds)
    /\ Fields(v).contract_version \in Names(ContractVersions)
    /\ Fields(v).contract_hash \in Names(Digests)
    /\ Fields(v).baseline_sha \in Names(BaselineShas)
    /\ Fields(v).policy_hash \in Names(Digests)
    /\ ReadsTimestamp(Fields(v).created_at)

IdentityFromPayload(v) ==
    LET p == Fields(v)
    IN  [run_id |-> NameOf(p.run_id), contract_id |-> NameOf(p.contract_id),
         contract_version |-> NameOf(p.contract_version),
         contract_hash |-> NameOf(p.contract_hash), baseline_sha |-> NameOf(p.baseline_sha),
         policy_hash |-> NameOf(p.policy_hash), created_at |-> InstantOf(p.created_at)]

\* _dump raises on a lone surrogate.
Encodable(id) == {id.contract_id, id.contract_version} \cap Unencodable = {}

SerializeIdentity(id) == Dump(IdentityPayload(id))
IdentityAccepted(data) == Loaded(data) /\ IdentityPayloadAccepted(data.value)
IdentityOf(data) == IdentityFromPayload(data.value)

-----------------------------------------------------------------------------
(* Checkpoints. *)

CheckpointKeys ==
    {"final_state", "format", "identity", "revision", "state", "updated_at", "version"}

SerializeCheckpoint(cp) ==
    Dump(Object([final_state |-> OptionalText(cp.lifecycle.final_state),
                 format |-> Name("run_checkpoint"),
                 identity |-> IdentityPayload(cp.identity),
                 revision |-> Number(cp.lifecycle.revision),
                 state |-> Name(cp.lifecycle.state),
                 updated_at |-> Timestamp(cp.lifecycle.updated_at),
                 version |-> Number(1)]))

CheckpointFromPayload(v) ==
    LET p == Fields(v)
        identity == IdentityFromPayload(p.identity)
    IN  [identity |-> identity,
         lifecycle |->
            [run_id |-> identity.run_id, state |-> NameOf(p.state),
             revision |-> p.revision[2], updated_at |-> InstantOf(p.updated_at),
             final_state |-> OptionalOf(p.final_state)]]

\* Decoding ends in the constructors of RunLifecycle and RunCheckpoint.
CheckpointAccepted(data) ==
    /\ Loaded(data)
    /\ HasFields(data.value, CheckpointKeys)
    /\ Header(Fields(data.value), "run_checkpoint")
    /\ IdentityPayloadAccepted(Fields(data.value).identity)
    /\ Fields(data.value).state \in Names(LifecycleState)
    /\ IsRevision(Fields(data.value).revision)
    /\ ReadsTimestamp(Fields(data.value).updated_at)
    /\ Fields(data.value).final_state \in Names(FinalStates) \cup {Null}
    /\ WellFormedCheckpoint(CheckpointFromPayload(data.value))

CheckpointOf(data) == CheckpointFromPayload(data.value)

-----------------------------------------------------------------------------
(* Transitions. *)

TransitionKeys ==
    {"actor", "final_state", "format", "from_state", "occurred_at", "revision", "run_id",
     "to_state", "version"}

SerializeTransition(e) ==
    Dump(Object([actor |-> Name(e.actor), final_state |-> OptionalText(e.final_state),
                 format |-> Name("lifecycle_transition"),
                 from_state |-> Name(e.from_state),
                 occurred_at |-> Timestamp(e.occurred_at),
                 revision |-> Number(e.revision), run_id |-> Name(e.run_id),
                 to_state |-> Name(e.to_state), version |-> Number(1)]))

TransitionFromPayload(v) ==
    LET p == Fields(v)
    IN  [run_id |-> NameOf(p.run_id), revision |-> p.revision[2],
         from_state |-> NameOf(p.from_state), to_state |-> NameOf(p.to_state),
         occurred_at |-> InstantOf(p.occurred_at), actor |-> NameOf(p.actor),
         final_state |-> OptionalOf(p.final_state)]

TransitionAccepted(data) ==
    /\ Loaded(data)
    /\ HasFields(data.value, TransitionKeys)
    /\ Header(Fields(data.value), "lifecycle_transition")
    /\ Fields(data.value).run_id \in Names(RunIds)
    /\ IsRevision(Fields(data.value).revision)
    /\ {Fields(data.value).from_state, Fields(data.value).to_state}
          \subseteq Names(LifecycleState)
    /\ ReadsTimestamp(Fields(data.value).occurred_at)
    /\ Fields(data.value).actor \in Names(Actors)
    /\ Fields(data.value).final_state \in Names(FinalStates) \cup {Null}
    /\ FinalStateFits(TransitionFromPayload(data.value).to_state,
                      TransitionFromPayload(data.value).final_state)

TransitionOf(data) == TransitionFromPayload(data.value)
=============================================================================
