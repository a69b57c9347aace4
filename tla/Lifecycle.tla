------------------------------ MODULE Lifecycle ------------------------------
(***************************************************************************)
(* The pure run lifecycle of domain/lifecycle.py and the checkpoint and    *)
(* update values of domain/state.py.  Everything here is a value or a      *)
(* function of values: the modules that keep state EXTEND this one.        *)
(***************************************************************************)
EXTENDS Naturals, Sequences

CONSTANTS
    RunIds,        \* run identifiers
    Identities,    \* the RunIdentity values callers may bind
    Actors,        \* trusted component identities
    Instants,      \* UTC timestamps, as naturals
    FinalStates,   \* canonical final states
    None           \* Python's None: no final state, no row

LifecycleState ==
    {"CONTRACT_BOUND", "WORKSPACE_PREPARED", "BUILDING", "VERIFYING",
     "DECIDING", "REVIEW_PENDING", "COMPLETED"}

AllowedNext ==
    [CONTRACT_BOUND     |-> {"WORKSPACE_PREPARED", "COMPLETED"},
     WORKSPACE_PREPARED |-> {"BUILDING", "COMPLETED"},
     BUILDING           |-> {"VERIFYING", "COMPLETED"},
     VERIFYING          |-> {"DECIDING", "COMPLETED"},
     DECIDING           |-> {"REVIEW_PENDING", "COMPLETED"},
     REVIEW_PENDING     |-> {"COMPLETED"},
     COMPLETED          |-> {}]

(***************************************************************************)
(* RunLifecycle, LifecycleTransition, RunIdentity and RunCheckpoint.  The  *)
(* constructors' checks are WellFormed conjuncts.                          *)
(***************************************************************************)
RunLifecycle ==
    [run_id : RunIds, state : LifecycleState, revision : Nat,
     updated_at : Instants, final_state : FinalStates \cup {None}]

LifecycleTransition ==
    [run_id : RunIds, revision : Nat, from_state : LifecycleState,
     to_state : LifecycleState, occurred_at : Instants, actor : Actors,
     final_state : FinalStates \cup {None}]

RunCheckpoint == [identity : Identities, lifecycle : RunLifecycle]

\* A row of alicerce_runs: the identity column and the checkpoint column.
RunRow == [identity : Identities, checkpoint : RunCheckpoint]

\* A final state accompanies COMPLETED and nothing else.
FinalStateFits(state, final) == (state = "COMPLETED") <=> (final # None)

WellFormedCheckpoint(cp) ==
    /\ FinalStateFits(cp.lifecycle.state, cp.lifecycle.final_state)
    /\ cp.identity.run_id = cp.lifecycle.run_id
    /\ cp.lifecycle.updated_at >= cp.identity.created_at

ASSUME LifecycleAssumption ==
    /\ Instants \subseteq Nat
    /\ None \notin FinalStates
    /\ \A id \in Identities :
          id.run_id \in RunIds /\ id.created_at \in Instants
    /\ None \notin RunCheckpoint
    /\ None \notin RunRow

-----------------------------------------------------------------------------

StartLifecycle(identity) ==
    [run_id |-> identity.run_id, state |-> "CONTRACT_BOUND", revision |-> 0,
     updated_at |-> identity.created_at, final_state |-> None]

InitialCheckpoint(identity) ==
    [identity |-> identity, lifecycle |-> StartLifecycle(identity)]

\* The guards of advance_lifecycle in their order; "accepted" when none fires.
AdvanceVerdict(current, target, instant, final) ==
    IF current.state = "COMPLETED" THEN "terminal_state"
    ELSE IF target \notin AllowedNext[current.state] THEN "invalid_transition"
    ELSE IF instant < current.updated_at THEN "time_regression"
    ELSE IF target = "COMPLETED" /\ final = None THEN "final_state_required"
    ELSE IF target # "COMPLETED" /\ final # None THEN "final_state_forbidden"
    ELSE "accepted"

\* The event advance_lifecycle records.
EventOf(current, target, instant, actor, final) ==
    [run_id |-> current.run_id, revision |-> current.revision + 1,
     from_state |-> current.state, to_state |-> target,
     occurred_at |-> instant, actor |-> actor, final_state |-> final]

\* The snapshot an event leaves behind.
LifecycleAfter(event) ==
    [run_id |-> event.run_id, state |-> event.to_state,
     revision |-> event.revision, updated_at |-> event.occurred_at,
     final_state |-> event.final_state]

CheckpointAfter(identity, event) ==
    [identity |-> identity, lifecycle |-> LifecycleAfter(event)]

(***************************************************************************)
(* StateUpdate.  __post_init__ ties expected, event and result together    *)
(* but does not consult AllowedNext: that is prepare_state_update's part.  *)
(* The result is determined by the event, as in LifecycleAfter.            *)
(***************************************************************************)
StateUpdate == [expected : RunCheckpoint, event : LifecycleTransition]

UpdateConnects(u) ==
    /\ u.event.run_id = u.expected.lifecycle.run_id
    /\ u.event.revision = u.expected.lifecycle.revision + 1
    /\ u.event.from_state = u.expected.lifecycle.state
    /\ u.event.occurred_at >= u.expected.lifecycle.updated_at
    /\ FinalStateFits(u.event.to_state, u.event.final_state)

NextCheckpoint(u) == CheckpointAfter(u.expected.identity, u.event)

\* Every event that connects to cp, allowed by the policy or not.
Drafts(cp) ==
    {[expected |-> cp,
      event |-> EventOf(cp.lifecycle, target, instant, actor, final)] :
        target \in LifecycleState, instant \in Instants, actor \in Actors,
        final \in FinalStates \cup {None}}

\* advance_lifecycle would turn the snapshot before into event.
EventReplays(before, event) ==
    /\ AdvanceVerdict(before, event.to_state, event.occurred_at,
                      event.final_state) = "accepted"
    /\ event = EventOf(before, event.to_state, event.occurred_at,
                       event.actor, event.final_state)

\* The updates prepare_state_update can build on a checkpoint.
PreparedUpdates(cp) == {u \in Drafts(cp) : EventReplays(cp.lifecycle, u.event)}

\* The updates a caller can assemble by hand from the public value types.
AssembledUpdates(cp) == {u \in Drafts(cp) : UpdateConnects(u)}

-----------------------------------------------------------------------------
(***************************************************************************)
(* Replay of a journal.  _validated_run rebuilds the run event by event    *)
(* with advance_lifecycle and stops at the first event that is not the one *)
(* it generates.  The snapshot before event n is therefore the one event   *)
(* n - 1 left, and the loop is the conjunction over its iterations.        *)
(***************************************************************************)
LifecycleAt(identity, journal, n) ==
    IF n = 0 THEN StartLifecycle(identity) ELSE LifecycleAfter(journal[n])

ReplayedCheckpoint(identity, journal) ==
    [identity |-> identity,
     lifecycle |-> LifecycleAt(identity, journal, Len(journal))]

\* The revision column counts 1, 2, ... without a gap.
NoRevisionGap(journal) == \A n \in 1..Len(journal) : journal[n].revision = n

JournalReplays(identity, journal) ==
    \A n \in 1..Len(journal) :
        EventReplays(LifecycleAt(identity, journal, n - 1), journal[n])

\* Mutant: the stored checkpoint is not compared with the replayed one.
RunReplays_SkipsCheckpoint(runId, row, journal) ==
    /\ row.identity = row.checkpoint.identity
    /\ row.identity.run_id = runId
    /\ WellFormedCheckpoint(row.checkpoint)
    /\ NoRevisionGap(journal)
    /\ JournalReplays(row.identity, journal)

\* What _validated_run accepts for a row of alicerce_runs and the journal rows.
RunReplays(runId, row, journal) ==
    /\ row.identity = row.checkpoint.identity
    /\ row.identity.run_id = runId
    /\ WellFormedCheckpoint(row.checkpoint)
    /\ NoRevisionGap(journal)
    /\ JournalReplays(row.identity, journal)
    /\ row.checkpoint = ReplayedCheckpoint(row.identity, journal)

=============================================================================
