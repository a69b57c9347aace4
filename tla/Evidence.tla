------------------------------ MODULE Evidence -------------------------------
(***************************************************************************)
(* adapters/local/evidence_serialization.py: what a command result and a   *)
(* complete evidence value must be like to be written, and the bytes they  *)
(* are written as.  Evidence is never read back here.  A text is the       *)
(* sequence of its characters, so far as JSON treats them differently; a   *)
(* digest stands for the bytes it was made of.                             *)
(***************************************************************************)
EXTENDS Integers, SequencesExt, JsonBytes

CONSTANT None   \* Python's None

\* UTF-8 has no bytes for a surrogate, with which Python carries an undecodable
\* byte of an argument.
Utf8(text) == "surrogate" \notin Range(text)
FullText(text) == text # <<>> /\ Utf8(text)

Digest(data) == <<"sha256", data>>
IsDigest(d) == d[1] = "sha256"

\* An object identifier is its number of digits and a name.
IsObjectId(id) == id[1] \in 7 .. 40

\* _number: not negative, and written as the int or the float it is.
IsNumber(v) == Kind(v) \in {"int", "float"} /\ v[2] >= 0

\* _timestamp: an instant that says its timezone.
IsTimestamp(t) == t[2] # "naive"

-----------------------------------------------------------------------------
(* Command results. *)

\* json.dumps of one text: quotes and backslashes are escaped.
Escaped(c) == IF c \in {"quote", "backslash"} THEN <<"backslash", c>> ELSE <<c>>
Quoted(text) ==
    <<"quote">> \o FlattenSeq([i \in DOMAIN text |-> Escaped(text[i])]) \o <<"quote">>

\* Mutant: the words of a command line.
CommandIdentity_Joined(argv) ==
    FlattenSeq([i \in DOMAIN argv |-> (IF i = 1 THEN <<>> ELSE <<"space">>) \o argv[i]])

\* _command_identity: a JSON array of texts, itself a text.
Listed(i, text) == IF i = 1 THEN Quoted(text) ELSE <<"comma">> \o Quoted(text)
CommandIdentity(argv) ==
    <<"open">> \o FlattenSeq([i \in DOMAIN argv |-> Listed(i, argv[i])]) \o <<"close">>

CanonicalTermination ==
    [exited |-> "EXITED", timed_out |-> "TIMED_OUT", cancelled |-> "CANCELLED",
     output_limit |-> "OUTPUT_LIMIT"]

\* What _command_payload raises on, and _dump after it.
CommandAccepted(c) ==
    /\ c.termination \in Range(CanonicalTermination)
    /\ (c.exit_code # None) = (c.termination = "EXITED")
    /\ FullText(c.command)
    /\ IsNumber(c.duration_s)
    /\ IsDigest(c.stdout_sha256) /\ IsDigest(c.stderr_sha256)
    /\ IsDigest(c.specification_sha256)

CommandPayload(c) ==
    Object([command |-> Text(c.command), duration_s |-> c.duration_s,
            exit_code |-> IF c.exit_code = None THEN Null ELSE Number(c.exit_code),
            specification_sha256 |-> Text(c.specification_sha256),
            stderr_sha256 |-> Text(c.stderr_sha256),
            stdout_sha256 |-> Text(c.stdout_sha256),
            termination |-> Name(c.termination)])

\* The command result of build_command_result, for an execution of argv; it is
\* raised instead of returned unless BuildAccepts.
CommandResult(r, specification) ==
    [command |-> CommandIdentity(r.argv), termination |-> CanonicalTermination[r.termination],
     exit_code |-> r.exit_code,
     stdout_sha256 |-> Digest(r.stdout), stderr_sha256 |-> Digest(r.stderr),
     specification_sha256 |-> Digest(specification),
     duration_s |-> Float(r.finished_at - r.started_at)]

BuildAccepts(r, specification) ==
    specification # <<>> /\ CommandAccepted(CommandResult(r, specification))

-----------------------------------------------------------------------------
(* Complete evidence. *)

EnvironmentAccepted(v) ==
    /\ FullText(v.python)
    /\ \A tool \in DOMAIN v.tool_versions :
          FullText(tool) /\ FullText(v.tool_versions[tool])
    /\ IsDigest(v.uv_lock_sha256)

EnvironmentPayload(v) ==
    Object([python |-> Text(v.python), uv_lock_sha256 |-> Text(v.uv_lock_sha256),
            tool_versions |-> Object([tool \in DOMAIN v.tool_versions |->
                                        Text(v.tool_versions[tool])])])

UsageAccepted(u) ==
    /\ FullText(u.model) /\ FullText(u.provider)
    /\ u.input >= 0 /\ u.output >= 0
    /\ u.cost = None \/ IsNumber(u.cost)

\* Mutant: a cost that is not known is written as zero.
UsagePayload_CostZero(u) ==
    Object([model |-> Text(u.model), provider |-> Text(u.provider),
            tokens |-> Object([input |-> Number(u.input), output |-> Number(u.output)]),
            estimated_cost_usd |-> IF u.cost = None THEN Number(0) ELSE u.cost])

\* The field of a cost that is not known is left out.
UsagePayload(u) ==
    LET tokens == Object([input |-> Number(u.input), output |-> Number(u.output)])
    IN  Object(IF u.cost = None
               THEN [model |-> Text(u.model), provider |-> Text(u.provider), tokens |-> tokens]
               ELSE [model |-> Text(u.model), provider |-> Text(u.provider), tokens |-> tokens,
                     estimated_cost_usd |-> u.cost])

\* What _evidence_payload and _dump raise on.  The order of the two timestamps
\* is not checked.
EvidenceAccepted(e) ==
    /\ e.commands # <<>>
    /\ \A i \in DOMAIN e.commands : CommandAccepted(e.commands[i])
    /\ \A i \in DOMAIN e.changed_files : Utf8(e.changed_files[i])
    /\ IsObjectId(e.baseline_sha) /\ IsObjectId(e.candidate_sha)
    /\ FullText(e.contract_id) /\ FullText(e.run_id)
    /\ IsTimestamp(e.started_at) /\ IsTimestamp(e.finished_at)
    /\ Len(e.version) = 3
    /\ EnvironmentAccepted(e.environment) /\ UsageAccepted(e.usage)

EvidenceFields ==
    {"baseline_sha", "candidate_sha", "changed_files", "commands", "contract_id",
     "environment", "finished_at", "run_id", "started_at", "usage", "version"}

SerializeEvidence(e) ==
    Dump(Object(
        [baseline_sha |-> Text(e.baseline_sha), candidate_sha |-> Text(e.candidate_sha),
         changed_files |-> Array([i \in DOMAIN e.changed_files |-> Text(e.changed_files[i])]),
         commands |-> Array([i \in DOMAIN e.commands |-> CommandPayload(e.commands[i])]),
         contract_id |-> Text(e.contract_id), environment |-> EnvironmentPayload(e.environment),
         finished_at |-> Text(e.finished_at), run_id |-> Text(e.run_id),
         started_at |-> Text(e.started_at), usage |-> UsagePayload(e.usage),
         version |-> Text(e.version)]))
=============================================================================
