---------------------------- MODULE WorkspacePort ----------------------------
(***************************************************************************)
(* What WorkspacePort (ports/workspace.py) promises its callers: a run has *)
(* at most one workspace, a capability leads to the run it was prepared    *)
(* for until it is released, and an answer is true at the instant it is    *)
(* given.  Any operation may fail for reasons of storage or isolation.     *)
(* Directories, quarantines, locks and identifiers that were drawn in vain *)
(* do not appear here.                                                     *)
(***************************************************************************)
CONSTANTS Runs, Ids, Threads, None

VARIABLES
    owner,   \* the run each capability was prepared for, or None
    answer   \* the answer each caller was given last, until its next call

vars == <<owner, answer>>

NoAnswer == [op |-> "none"]
Faults == {"isolation_failure", "storage_failure"}

Handle == [id : Ids, run : Runs]
Answer ==
    [op : {"prepare", "load", "snapshot", "release", "lease"}, handle : Handle,
     result : Faults \cup {"ok", "none", "already_exists", "not_found", "conflict"}]

Prepared(r) == \E i \in Ids : owner[i] = r

Init ==
    /\ owner = [i \in Ids |-> None]
    /\ answer = [t \in Threads |-> NoAnswer]

Say(t, op, handle, result) ==
    answer' = [answer EXCEPT ![t] = [op |-> op, handle |-> handle, result |-> result]]

Ask(t) ==
    /\ answer' = [answer EXCEPT ![t] = NoAnswer]
    /\ UNCHANGED owner

Grant(t, handle) ==
    /\ owner[handle.id] = None /\ ~Prepared(handle.run)
    /\ owner' = [owner EXCEPT ![handle.id] = handle.run]
    /\ Say(t, "prepare", handle, "ok")

\* A release that finds something else in the place of the workspace says so.
Withdraw(t, handle) ==
    /\ owner[handle.id] = handle.run
    /\ owner' = [owner EXCEPT ![handle.id] = None]
    /\ \E result \in {"ok", "isolation_failure"} : Say(t, "release", handle, result)

\* The answers that may be given when nothing changes.
Truthful(a) ==
    LET held == owner[a.handle.id]
    IN  \/ a.op = "prepare" /\ a.result = "already_exists" /\ Prepared(a.handle.run)
        \/ a.op = "load" /\ a.result = "none" /\ held = None
        \/ a.op = "release" /\ a.result = "ok" /\ held = None
        \/ a.op \in {"load", "snapshot", "lease"} /\ a.result = "ok" /\ held = a.handle.run
        \/ a.op \in {"snapshot", "lease"} /\ a.result = "not_found" /\ held = None
        \/ /\ a.op \in {"snapshot", "lease", "release"} /\ a.result = "conflict"
           /\ held \notin {None, a.handle.run}
        \/ a.result \in Faults

\* The new answer of t is a truthful one.
Tell(t) ==
    /\ UNCHANGED owner
    /\ answer'[t] \in Answer /\ Truthful(answer'[t])
    /\ \A u \in Threads \ {t} : answer'[u] = answer[u]

\* Capabilities are of one process.
Restart ==
    /\ owner' = [i \in Ids |-> None]
    /\ answer' = [t \in Threads |-> NoAnswer]

Next ==
    \/ \E t \in Threads :
        \/ Ask(t) \/ Tell(t)
        \/ \E handle \in Handle : Grant(t, handle) \/ Withdraw(t, handle)
    \/ Restart

Spec == Init /\ [][Next]_vars
=============================================================================
