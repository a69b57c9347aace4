------------------------- MODULE CheckpointRegister -------------------------
(***************************************************************************)
(* What StateStorePort promises: one register per run, created once,       *)
(* replaced only through the lifecycle, each operation taking effect at a  *)
(* single instant between its call and its return, and refusals that are   *)
(* true at that instant.  Any call may fail for a storage reason, and then *)
(* has no effect.  SQLite, transactions and journals do not appear here.   *)
(***************************************************************************)
EXTENDS Lifecycle

CONSTANTS Clients

VARIABLES
    register,  \* register[r]: the checkpoint of run r, or None
    phase,     \* "idle", "pending" or "applied", for each client
    request,   \* the pending call of each client
    known,     \* the checkpoint each client last made or was handed
    outcome    \* how each client's last call ended

vars == <<register, phase, request, known, outcome>>

NoRequest == [op |-> "none", run |-> None, update |-> None]

Init ==
    /\ register = [r \in RunIds |-> None]
    /\ phase = [c \in Clients |-> "idle"]
    /\ request = [c \in Clients |-> NoRequest]
    /\ known = [c \in Clients |-> None]
    /\ outcome = [c \in Clients |-> "none"]

End(c, cause) ==
    /\ phase' = [phase EXCEPT ![c] = "idle"]
    /\ request' = [request EXCEPT ![c] = NoRequest]
    /\ outcome' = [outcome EXCEPT ![c] = cause]

\* A call is made.  Only initialize takes a checkpoint the caller has made.
Invoke(c, op, r, u, cp) ==
    /\ phase[c] = "idle"
    /\ phase' = [phase EXCEPT ![c] = "pending"]
    /\ request' = [request EXCEPT ![c] = [op |-> op, run |-> r, update |-> u]]
    /\ known' = [known EXCEPT ![c] = IF op = "initialize" THEN cp ELSE @]
    /\ op = "initialize" =>
          cp.identity \in Identities /\ cp = InitialCheckpoint(cp.identity)
    /\ op = "compare_and_append" => u \in PreparedUpdates(known[c])
    /\ UNCHANGED <<register, outcome>>

Pending(c, op) == phase[c] = "pending" /\ request[c].op = op

\* The instant at which an accepted write happens.
Apply(c) ==
    LET r == request[c].run
    IN  /\ \/ /\ Pending(c, "initialize")
              /\ register[r] = None
              /\ register' = [register EXCEPT ![r] = known[c]]
           \/ /\ Pending(c, "compare_and_append")
              /\ register[r] = request[c].update.expected
              /\ register' = [register EXCEPT ![r] =
                                 NextCheckpoint(request[c].update)]
        /\ phase' = [phase EXCEPT ![c] = "applied"]
        /\ UNCHANGED <<request, known, outcome>>

\* The return of an applied write.
Acknowledge(c) ==
    /\ phase[c] = "applied"
    /\ known' = [known EXCEPT ![c] =
          IF request[c].op = "initialize" THEN @
          ELSE NextCheckpoint(request[c].update)]
    /\ End(c, "ok")
    /\ UNCHANGED register

\* A read hands out the register as it is at that instant.
Read(c) ==
    /\ \E op \in {"load", "resume"} : Pending(c, op)
    /\ register[request[c].run] # None
    /\ known' = [known EXCEPT ![c] = register[request[c].run]]
    /\ End(c, "ok")
    /\ UNCHANGED register

\* A history read, which leaves what the client holds alone.
ReadHistory(c) ==
    /\ Pending(c, "history")
    /\ End(c, "ok")
    /\ UNCHANGED <<register, known>>

\* A refusal that is true when it is given.
Refuse(c, cause) ==
    LET r == request[c].run
    IN  /\ \/ /\ Pending(c, "initialize")
              /\ cause = "already_exists" /\ register[r] # None
           \/ /\ Pending(c, "compare_and_append")
              /\ cause = "not_found" /\ register[r] = None
           \/ /\ Pending(c, "compare_and_append")
              /\ cause = "conflict" /\ register[r] # None
              /\ register[r] # request[c].update.expected
           \/ /\ Pending(c, "resume")
              /\ register[r] # None
              /\ \/ cause \in {"contract_mismatch", "baseline_mismatch",
                               "policy_mismatch"}
                 \/ /\ cause = "terminal_run"
                    /\ register[r].lifecycle.state = "COMPLETED"
        /\ End(c, cause)
        /\ UNCHANGED <<register, known>>

\* A read of an absent run, and an initialize of a checkpoint that is not an
\* initial one, answer in the step of the call.
RefuseAtOnce(c, cause) ==
    /\ phase[c] = "idle"
    /\ \/ cause \in {"absent", "not_found"} /\ \E r \in RunIds : register[r] = None
       \/ cause = "conflict" /\ known[c] # None /\ known[c].lifecycle.revision > 0
    /\ End(c, cause)
    /\ UNCHANGED <<register, known>>

\* A call fails and has no effect.  A read may also fail closed as corrupt.
Fail(c) ==
    /\ phase[c] = "pending"
    /\ \E cause \in {"storage_failure"} \cup
           (IF request[c].op \in {"load", "resume", "history"}
            THEN {"corrupt"} ELSE {}) : End(c, cause)
    /\ UNCHANGED <<register, known>>

\* The client dies: whether an applied write survives is already decided.
Die(c) ==
    /\ End(c, "none")
    /\ known' = [known EXCEPT ![c] = None]
    /\ UNCHANGED register

Next ==
    \E c \in Clients :
        \/ \E op \in {"load", "resume", "history"}, r \in RunIds :
              Invoke(c, op, r, None, None)
        \/ \E id \in Identities :
              Invoke(c, "initialize", id.run_id, None, InitialCheckpoint(id))
        \/ known[c] # None /\ \E u \in PreparedUpdates(known[c]) :
              Invoke(c, "compare_and_append", known[c].identity.run_id, u, None)
        \/ Apply(c)
        \/ Acknowledge(c)
        \/ Read(c)
        \/ ReadHistory(c)
        \/ \E cause \in {"already_exists", "not_found", "conflict", "absent",
                         "contract_mismatch", "baseline_mismatch",
                         "policy_mismatch", "terminal_run"} :
              Refuse(c, cause) \/ RefuseAtOnce(c, cause)
        \/ Fail(c)
        \/ Die(c)

Spec == Init /\ [][Next]_vars

=============================================================================
