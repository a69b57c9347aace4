--------------------------- MODULE ProcessCapture ---------------------------
(***************************************************************************)
(* Running one command and capturing its output: the sandbox backend       *)
(* (linux_process_sandbox.py, execute) and the Git primitive (git_cli.py,  *)
(* _capture_bounded) share one loop over two pipes with a deadline and     *)
(* ceilings, and differ in what they keep and in how they end the process. *)
(* The command is external: a leader (bubblewrap, git) that holds both     *)
(* pipes until it exits, and descendants that write, close their ends and  *)
(* live on.  Output is counted in bytes; the content is not modelled.      *)
(***************************************************************************)
EXTENDS Naturals, FiniteSets

CONSTANTS
    Ceiling,  \* bytes a stream may have (sandbox), or both together (git)
    Chunk,    \* the most one os.read returns
    PipeSize, \* the most a pipe holds
    MaxBytes  \* bound of the model: bytes the command writes to one stream

ASSUME CaptureAssumption ==
    /\ Ceiling \in Nat /\ MaxBytes \in Nat
    /\ Chunk \in Nat \ {0} /\ PipeSize \in Nat \ {0}

VARIABLES
    backend,   \* who runs the command: the sandbox backend or the Git primitive
    pc,        \* where the adapter is
    watched,   \* the selector's map: streams not yet at their end
    events,    \* streams of the last select still to be read
    captured,  \* bytes kept of each stream
    late,      \* the deadline has passed
    verdict,   \* how the execution will be reported
    leader,    \* the process that was started
    inner,     \* its descendants
    signal,    \* the strongest signal sent
    holders,   \* who has the write end of each pipe open
    pipe,      \* bytes in each pipe
    written    \* bytes ever written to each pipe

adapter == <<pc, watched, events, captured, verdict>>
command == <<leader, inner, holders, pipe, written>>
vars == <<backend, adapter, late, signal, command>>

Streams == {"stdout", "stderr"}
Lesser(m, n) == IF m < n THEN m ELSE n
Captured == captured["stdout"] + captured["stderr"]

\* The reports that say how the command itself ended, and the failures.
Terminations == {"exited", "timed_out", "output_limit"}
Failures == {"spawn_failed", "cleanup_failed", "isolation_failure", "command_failed"}

TypeOK ==
    /\ backend \in {"sandbox", "git"}
    /\ pc \in {"starting", "selecting", "reading", "terminating", "grace",
               "killed", "reaping", "finishing", "done"}
    /\ watched \subseteq Streams
    /\ events \subseteq watched
    /\ captured \in
          [Streams -> 0 .. IF backend = "sandbox" THEN Ceiling ELSE Ceiling + Chunk]
    /\ late \in BOOLEAN
    /\ verdict \in Terminations \cup Failures
    /\ leader \in {"none", "running", "exited"}
    /\ inner \in {"none", "running", "gone"}
    /\ signal \in {"none", "term", "kill"}
    /\ holders \in [Streams -> SUBSET {"leader", "inner"}]
    /\ pipe \in [Streams -> 0 .. PipeSize]
    /\ written \in [Streams -> 0 .. MaxBytes]

Init ==
    /\ backend \in {"sandbox", "git"}
    /\ pc = "starting"
    /\ watched = {} /\ events = {}
    /\ captured = [s \in Streams |-> 0]
    /\ late = FALSE
    /\ verdict = "exited"
    /\ leader = "none" /\ inner = "none" /\ signal = "none"
    /\ holders = [s \in Streams |-> {}]
    /\ pipe = [s \in Streams |-> 0]
    /\ written = [s \in Streams |-> 0]

-----------------------------------------------------------------------------
(* The command and the kernel. *)

\* The bubblewrap sandbox has its own process namespace and dies with its
\* parent; the descendants of git only share its process group.
LeaderDies ==
    /\ leader' = "exited"
    /\ IF backend = "sandbox" /\ inner = "running"
       THEN /\ inner' = "gone"
            /\ holders' = [s \in Streams |-> {}]
       ELSE /\ UNCHANGED inner
            /\ holders' = [s \in Streams |-> holders[s] \ {"leader"}]

Fork ==
    /\ leader = "running" /\ inner = "none"
    /\ inner' = "running"
    /\ holders' = [s \in Streams |-> holders[s] \cup {"inner"}]
    /\ UNCHANGED <<backend, adapter, late, signal, leader, pipe, written>>

WriteTo(s) ==
    /\ holders[s] # {}
    /\ pc \in {"selecting", "reading"}
    /\ written[s] < MaxBytes /\ pipe[s] < PipeSize
    /\ pipe' = [pipe EXCEPT ![s] = @ + 1]
    /\ written' = [written EXCEPT ![s] = @ + 1]
    /\ UNCHANGED <<backend, adapter, late, signal, leader, inner, holders>>

InnerCloses(s) ==
    /\ "inner" \in holders[s]
    /\ holders' = [holders EXCEPT ![s] = @ \ {"inner"}]
    /\ UNCHANGED <<backend, adapter, late, signal, leader, inner, pipe, written>>

InnerExits ==
    /\ inner = "running"
    /\ inner' = "gone"
    /\ holders' = [s \in Streams |-> holders[s] \ {"inner"}]
    /\ UNCHANGED <<backend, adapter, late, signal, leader, pipe, written>>

\* By itself, or because it obeys a SIGTERM.
LeaderExits ==
    /\ leader = "running"
    /\ LeaderDies
    /\ UNCHANGED <<backend, adapter, late, signal, pipe, written>>

\* SIGKILL takes the leader with its process group, and with the leader of a
\* sandbox its process namespace.
KillTakesEffect ==
    /\ signal = "kill" /\ leader = "running"
    /\ leader' = "exited"
    /\ inner' = IF inner = "running" THEN "gone" ELSE inner
    /\ holders' = [s \in Streams |-> {}]
    /\ UNCHANGED <<backend, adapter, late, signal, pipe, written>>

Deadline ==
    /\ ~late /\ leader # "none"
    /\ late' = TRUE
    /\ UNCHANGED <<backend, adapter, signal, command>>

-----------------------------------------------------------------------------
(* The adapter. *)

\* Checks before the start (policy, probe, pinned executable) and Popen.
Spawn ==
    /\ pc = "starting"
    /\ \/ /\ leader' = "running"
          /\ holders' = [s \in Streams |-> {"leader"}]
          /\ watched' = Streams
          /\ pc' = "selecting"
          /\ UNCHANGED verdict
       \/ /\ verdict' \in IF backend = "sandbox" THEN {"isolation_failure", "spawn_failed"}
                          ELSE {"command_failed"}
          /\ pc' = "done"
          /\ UNCHANGED <<leader, holders, watched>>
    /\ UNCHANGED <<backend, events, captured, late, signal, inner, pipe, written>>

AtEnd(s) == pipe[s] = 0 /\ holders[s] = {}
Ready == {s \in watched : pipe[s] > 0 \/ AtEnd(s)}

EndOfStreams_AtExit ==
    /\ pc = "selecting" /\ (watched = {} \/ leader = "exited")
    /\ pc' = "reaping"
    /\ watched' = {}
    /\ UNCHANGED <<backend, events, captured, verdict, late, signal, command>>

EndOfStreams ==
    /\ pc = "selecting" /\ watched = {}
    /\ pc' = "reaping"
    /\ UNCHANGED <<backend, watched, events, captured, verdict, late, signal, command>>

TimeOut_WithEventsOnly ==
    /\ pc = "selecting" /\ watched # {}
    /\ late /\ Ready # {}
    /\ pc' = "terminating" /\ verdict' = "timed_out"
    /\ UNCHANGED <<backend, watched, events, captured, late, signal, command>>

\* Nothing remains of the deadline, before the select or when it gives up.
TimeOut ==
    /\ pc = "selecting" /\ watched # {}
    /\ late
    /\ pc' = "terminating" /\ verdict' = "timed_out"
    /\ UNCHANGED <<backend, watched, events, captured, late, signal, command>>

Select ==
    /\ pc = "selecting" /\ ~late
    /\ Ready # {}
    /\ events' = Ready
    /\ pc' = "reading"
    /\ UNCHANGED <<backend, watched, captured, verdict, late, signal, command>>

\* What is kept of n bytes of a stream: the sandbox cuts at the ceiling.
Kept_Everything(s, n) == n

Kept(s, n) == IF backend = "sandbox" THEN Lesser(n, Ceiling - captured[s]) ELSE n

Exceeds_WhenReached(s, n) ==
    IF backend = "sandbox" THEN captured[s] + n >= Ceiling ELSE Captured + n >= Ceiling

Exceeds(s, n) ==
    IF backend = "sandbox" THEN captured[s] + n > Ceiling ELSE Captured + n > Ceiling

ReadEnd(s) ==
    /\ pc = "reading" /\ s \in events
    /\ AtEnd(s)
    /\ watched' = watched \ {s}
    /\ events' = events \ {s}
    /\ UNCHANGED <<backend, pc, captured, verdict, late, signal, command>>

ReadChunk(s) ==
    /\ pc = "reading" /\ s \in events
    /\ pipe[s] > 0
    /\ LET n == Lesser(pipe[s], Chunk) IN
        /\ pipe' = [pipe EXCEPT ![s] = @ - n]
        /\ captured' = [captured EXCEPT ![s] = @ + Kept(s, n)]
        /\ \/ /\ Exceeds(s, n)
              /\ pc' = "terminating" /\ verdict' = "output_limit"
              /\ events' = {}
           \/ /\ ~Exceeds(s, n)
              /\ events' = events \ {s}
              /\ UNCHANGED <<pc, verdict>>
    /\ UNCHANGED <<backend, watched, late, signal, leader, inner, holders, written>>

EndOfEvents ==
    /\ pc = "reading" /\ events = {}
    /\ pc' = "selecting"
    /\ UNCHANGED <<backend, watched, events, captured, verdict, late, signal, command>>

\* An OSError of select or read: the sandbox ends the process, git_cli reports
\* the failure and leaves the process as it is.
CaptureFails ==
    /\ pc \in {"selecting", "reading"}
    /\ events' = {}
    /\ \/ /\ backend = "sandbox"
          /\ pc' = "terminating" /\ verdict' = "cleanup_failed"
       \/ /\ backend = "git"
          /\ pc' = "done" /\ verdict' = "command_failed"
    /\ UNCHANGED <<backend, watched, captured, late, signal, command>>

\* process.wait() without a timeout.
Reap ==
    /\ pc = "reaping" /\ leader = "exited"
    /\ pc' = "finishing"
    /\ UNCHANGED <<backend, watched, events, captured, verdict, late, signal, command>>

\* _terminate_tree and _terminate: nothing to do if the leader has exited.
Terminate ==
    /\ pc = "terminating"
    /\ \/ /\ leader = "exited"
          /\ pc' = "finishing"
          /\ UNCHANGED signal
       \/ /\ leader = "running"
          /\ \/ backend = "sandbox" /\ signal' = "term" /\ pc' = "grace"
             \/ backend = "git" /\ signal' = "kill" /\ pc' = "reaping"
    /\ UNCHANGED <<backend, watched, events, captured, verdict, late, command>>

\* The leader ends within the grace period, or is killed after it.
Grace ==
    /\ pc = "grace"
    /\ \/ /\ leader = "exited"
          /\ pc' = "finishing"
          /\ UNCHANGED signal
       \/ /\ leader = "running"
          /\ signal' = "kill" /\ pc' = "killed"
    /\ UNCHANGED <<backend, watched, events, captured, verdict, late, command>>

AfterKill_NoWait ==
    /\ pc = "killed"
    /\ pc' = "finishing"
    /\ UNCHANGED <<backend, watched, events, captured, verdict, late, signal, command>>

\* The second wait is bounded too: a leader that still runs is a failure.
AfterKill ==
    /\ pc = "killed"
    /\ pc' = "finishing"
    /\ verdict' = IF leader = "running" THEN "cleanup_failed" ELSE verdict
    /\ UNCHANGED <<backend, watched, events, captured, late, signal, command>>

\* The sandbox verifies bubblewrap last; that failure replaces any other report.
Finish ==
    /\ pc = "finishing"
    /\ pc' = "done"
    /\ \/ UNCHANGED verdict
       \/ backend = "sandbox" /\ verdict' = "isolation_failure"
    /\ UNCHANGED <<backend, watched, events, captured, late, signal, command>>

-----------------------------------------------------------------------------
Command ==
    \/ Fork \/ InnerExits \/ LeaderExits \/ KillTakesEffect
    \/ \E s \in Streams : WriteTo(s) \/ InnerCloses(s)

Adapter ==
    \/ Spawn \/ EndOfStreams \/ TimeOut \/ Select \/ EndOfEvents
    \/ \E s \in Streams : ReadEnd(s) \/ ReadChunk(s)
    \/ Reap \/ Terminate \/ Grace \/ AfterKill \/ Finish

Next == Command \/ Adapter \/ CaptureFails \/ Deadline

Spec == Init /\ [][Next]_vars

-----------------------------------------------------------------------------
(* Properties. *)

\* A command that is reported as exited has all of its output captured, from
\* both streams, however the reads, the ends of the streams and the exit of
\* the process fell; and the output is within the ceilings.
ExitedIsComplete ==
    pc = "done" /\ verdict = "exited" =>
        /\ captured = written
        /\ IF backend = "sandbox" THEN \A s \in Streams : captured[s] <= Ceiling
           ELSE Captured <= Ceiling

\* A command is only stopped for its output when it has written more than it
\* may: a stream filled exactly to its ceiling is no violation.
LimitIsDeserved ==
    verdict = "output_limit" =>
        IF backend = "sandbox" THEN \E s \in Streams : written[s] > Ceiling
        ELSE written["stdout"] + written["stderr"] > Ceiling

\* When the adapter reports how a command ended, the process it started has
\* ended, and in the sandbox every descendant too, however they react to
\* SIGTERM: nothing writes to the workspace after the lease.
NothingRunsAfter ==
    pc = "done" /\ verdict \in Terminations =>
        /\ leader = "exited"
        /\ backend = "sandbox" => inner # "running"

\* Every execution ends with a report, although the command may run for ever.
EveryExecutionReturns == <>(pc = "done")
=============================================================================
