---------------------------- MODULE CommandRecord ----------------------------
(***************************************************************************)
(* From a process to the evidence of what it did: the report of the        *)
(* sandbox (ProcessCapture) becomes an ExecutionResult in the executor, a  *)
(* canonical command result in build_command_result and a part of the      *)
(* evidence that serialize_evidence writes (Evidence).  The code that will *)
(* assemble complete evidence is not written yet: it is the caller here.   *)
(***************************************************************************)
EXTENDS ProcessCapture, Evidence

CONSTANTS
    Commands,       \* argument vectors of requests: logical executable and arguments
    Specifications, \* bytes callers give as the specification of a command
    ExitCodes,      \* what process.wait returns: negative for a signal
    Readings,       \* what the wall clock says
    Contexts        \* the other facts of a run that go into its evidence

\* The facts of a run are in the form their producers give them: an environment
\* with an interpreter, a lock file and tools with names, counted tokens, instants
\* with a timezone, identifiers.  How long object identifiers are, what the tools
\* say of their versions and the names of the changed files is open.
WellFormed(c) ==
    /\ c = [f \in EvidenceFields \ {"commands"} |-> c[f]]
    /\ \A sha \in {c.baseline_sha, c.candidate_sha} : sha[1] \in Int /\ sha[1] >= 7
    /\ IsFunction(c.changed_files)
    /\ FullText(c.contract_id) /\ FullText(c.run_id)
    /\ IsTimestamp(c.started_at) /\ IsTimestamp(c.finished_at)
    /\ Len(c.version) = 3
    /\ LET v == c.environment IN
        /\ v = [python |-> v.python, uv_lock_sha256 |-> v.uv_lock_sha256,
                tool_versions |-> v.tool_versions]
        /\ FullText(v.python) /\ IsDigest(v.uv_lock_sha256)
        /\ IsFunction(v.tool_versions) /\ \A tool \in DOMAIN v.tool_versions : FullText(tool)
    /\ LET u == c.usage IN
        /\ u = [model |-> u.model, provider |-> u.provider, input |-> u.input,
                output |-> u.output, cost |-> u.cost]
        /\ UsageAccepted(u)

\* A character is given by its name.
ASSUME RecordAssumption ==
    /\ Commands \subseteq Seq(Seq(STRING))
    /\ Readings \subseteq Int /\ ExitCodes \subseteq Int /\ None \notin ExitCodes
    /\ \A c \in Contexts : WellFormed(c)

VARIABLES
    argv,      \* the request
    result,    \* the ExecutionResult, or that there is none
    record,    \* the canonical command result
    evidence   \* the evidence that was assembled, and its bytes if it was written

recordVars == <<argv, result, record, evidence>>
everything == <<vars, recordVars>>

Accepted(x) == x # None /\ "refused" \notin DOMAIN x
Returned == Accepted(result)
Recorded == Accepted(record)

RecordInit ==
    /\ Init
    /\ argv \in Commands
    /\ result = None /\ record = None /\ evidence = None

\* The SandboxResult, with the readings of the clock before the start and at the
\* end of the execution.
SandboxResult(code, from, to) ==
    [argv |-> argv, termination |-> verdict,
     exit_code |-> IF verdict = "exited" THEN code ELSE None,
     stdout |-> captured["stdout"], stderr |-> captured["stderr"],
     started_at |-> from, finished_at |-> to]

Coherent_AnyInterval(r) ==
    /\ (r.exit_code # None) = (r.termination = "exited")
    /\ r.stdout <= Ceiling /\ r.stderr <= Ceiling

\* ExecutionResult.__post_init__.
Coherent(r) ==
    /\ (r.exit_code # None) = (r.termination = "exited")
    /\ r.stdout <= Ceiling /\ r.stderr <= Ceiling
    /\ r.started_at <= r.finished_at

\* The executor makes a result of the report; one that ExecutionResult refuses
\* becomes an isolation failure.  The wall clock may have been set back.
ReturnResult ==
    /\ pc = "done" /\ backend = "sandbox" /\ verdict \in Terminations
    /\ result = None
    /\ \E code \in ExitCodes, from, to \in Readings :
          LET r == SandboxResult(code, from, to)
          IN  result' = IF Coherent(r) THEN r ELSE [refused |-> "isolation_failure"]
    /\ UNCHANGED <<vars, argv, record, evidence>>

BuildCommandResult ==
    /\ Returned /\ record = None
    /\ \E specification \in Specifications :
          record' = IF BuildAccepts(result, specification)
                    THEN CommandResult(result, specification)
                    ELSE [refused |-> specification]
    /\ UNCHANGED <<vars, argv, result, evidence>>

EvidenceOf(context, commands) ==
    [f \in EvidenceFields |-> IF f = "commands" THEN commands ELSE context[f]]

AssembleEvidence ==
    /\ Recorded /\ evidence = None
    /\ \E context \in Contexts, commands \in {<<>>, <<record>>} :
          LET e == EvidenceOf(context, commands)
          IN  evidence' = IF EvidenceAccepted(e)
                          THEN [value |-> e, bytes |-> SerializeEvidence(e)]
                          ELSE [refused |-> e]
    /\ UNCHANGED <<vars, argv, result, record>>

RecordNext ==
    \/ Next /\ UNCHANGED recordVars
    \/ ReturnResult \/ BuildCommandResult \/ AssembleEvidence

\* Time passes, the adapter runs, SIGKILL works.  Nothing is assumed of the
\* command, which may run and write for ever, nor that a system call fails, nor
\* of the caller.
RecordSpec ==
    /\ RecordInit /\ [][RecordNext]_everything
    /\ WF_everything(Adapter /\ UNCHANGED recordVars)
    /\ WF_everything(Deadline /\ UNCHANGED recordVars)
    /\ WF_everything(KillTakesEffect /\ UNCHANGED recordVars)

-----------------------------------------------------------------------------
(* Properties. *)

\* A command result tells what happened: its digests are of what was captured,
\* which is all the command wrote if it is recorded as exited; it has an exit
\* code exactly then; and the command it names is no other command's.
RecordTellsWhatHappened ==
    Recorded =>
        /\ record.stdout_sha256 = Digest(captured["stdout"])
        /\ record.stderr_sha256 = Digest(captured["stderr"])
        /\ record.termination = "EXITED" => captured = written
        /\ record.exit_code \in IF verdict = "exited" THEN ExitCodes ELSE {None}
        /\ \A other \in Commands : CommandIdentity(other) = record.command => other = argv

\* Nothing that happened is lost for the evidence afterwards.  Every result the
\* executor returns becomes a command result, whatever the clock did, if only the
\* caller has a specification and UTF-8 can represent the arguments; and evidence
\* with a recorded command, such texts and object identifiers of at most 40 digits
\* is written: an unknown cost, a candidate without changed files and a command
\* that was stopped are no reason to refuse it.
WhatHappenedCanBeRecorded ==
    /\ record # None /\ ~Recorded =>
        record.refused = <<>> \/ \E i \in DOMAIN argv : ~Utf8(argv[i])
    /\ evidence # None /\ ~Accepted(evidence) =>
        LET e == evidence.refused
        IN  \/ e.commands = <<>>
            \/ e.candidate_sha[1] > 40 \/ e.baseline_sha[1] > 40
            \/ \E i \in DOMAIN e.changed_files : ~Utf8(e.changed_files[i])
            \/ \E tool \in DOMAIN e.environment.tool_versions :
                  ~FullText(e.environment.tool_versions[tool])

\* The bytes of evidence identify it: no other facts of a run give the same
\* bytes with the same command.
BytesIdentifyEvidence ==
    Accepted(evidence) =>
        \A context \in Contexts :
            LET other == EvidenceOf(context, <<record>>)
            IN  EvidenceAccepted(other) /\ SerializeEvidence(other) = evidence.bytes
                    => other = evidence.value
=============================================================================
