-------------------------- MODULE LifecycleProofs ---------------------------
(***************************************************************************)
(* Lemmas about the values of Lifecycle: what its constructors build, and  *)
(* how a journal replays.  The proofs about the modules that store runs    *)
(* rest on them.                                                           *)
(***************************************************************************)
EXTENDS Lifecycle, TLAPS

-----------------------------------------------------------------------------
(* Values. *)

\* The event of a well-typed snapshot is a LifecycleTransition, so that
\* advance_lifecycle never builds a value its own constructors would refuse.
LEMMA EventType ==
    ASSUME NEW l \in RunLifecycle, NEW target \in LifecycleState,
           NEW instant \in Instants, NEW actor \in Actors,
           NEW final \in FinalStates \cup {None}
    PROVE  EventOf(l, target, instant, actor, final) \in LifecycleTransition
BY DEF EventOf, RunLifecycle, LifecycleTransition

\* The snapshot an event leaves is a RunLifecycle.
LEMMA AfterType ==
    ASSUME NEW e \in LifecycleTransition
    PROVE  LifecycleAfter(e) \in RunLifecycle
BY DEF LifecycleAfter, RunLifecycle, LifecycleTransition

\* Revision zero of a bound identity is a RunCheckpoint.
LEMMA InitialType ==
    ASSUME NEW id \in Identities
    PROVE  InitialCheckpoint(id) \in RunCheckpoint
BY LifecycleAssumption
   DEF InitialCheckpoint, StartLifecycle, RunCheckpoint, RunLifecycle,
       LifecycleState

\* A draft of a stored checkpoint is a StateUpdate of it.
LEMMA DraftType ==
    ASSUME NEW cp \in RunCheckpoint, NEW u \in Drafts(cp)
    PROVE  u \in StateUpdate /\ u.expected = cp
<1>1. PICK target \in LifecycleState, instant \in Instants, actor \in Actors,
           final \in FinalStates \cup {None} :
           u = [expected |-> cp,
                event |-> EventOf(cp.lifecycle, target, instant, actor, final)]
  BY DEF Drafts
<1>2. EventOf(cp.lifecycle, target, instant, actor, final) \in LifecycleTransition
  BY EventType DEF RunCheckpoint
<1> QED
  BY <1>1, <1>2 DEF StateUpdate

\* The checkpoint an update produces is a RunCheckpoint.
LEMMA NextType ==
    ASSUME NEW u \in StateUpdate
    PROVE  NextCheckpoint(u) \in RunCheckpoint
<1>1. u.expected.identity \in Identities /\ u.event \in LifecycleTransition
  BY DEF StateUpdate, RunCheckpoint
<1> QED
  BY <1>1, AfterType DEF NextCheckpoint, CheckpointAfter, RunCheckpoint

-----------------------------------------------------------------------------
(* Journals. *)

\* An event is appended after what was there.
LEMMA AppendKeepsPrefix ==
    ASSUME NEW S, NEW j \in Seq(S), NEW e \in S
    PROVE  /\ Len(Append(j, e)) = Len(j) + 1
           /\ SubSeq(Append(j, e), 1, Len(j)) = j
OBVIOUS

\* A journal that grew at its end keeps every event where it was.
LEMMA PrefixKeeps ==
    ASSUME NEW S, NEW j \in Seq(S), NEW k \in Seq(S), NEW n \in DOMAIN j,
           k = j \/ (Len(k) = Len(j) + 1 /\ SubSeq(k, 1, Len(j)) = j)
    PROVE  n \in DOMAIN k /\ k[n] = j[n]
<1>1. CASE Len(k) = Len(j) + 1 /\ SubSeq(k, 1, Len(j)) = j
  <2>1. n \in 1..Len(j)
    OBVIOUS
  <2>2. n \in DOMAIN k /\ k[n] = SubSeq(k, 1, Len(j))[n]
    BY <1>1, <2>1
  <2> QED
    BY <1>1, <2>2
<1> QED
  BY <1>1

-----------------------------------------------------------------------------
(* Replay. *)

\* A fresh run replays from an empty journal.
LEMMA FreshReplays ==
    ASSUME NEW id \in Identities
    PROVE  RunReplays(id.run_id,
                      [identity |-> id, checkpoint |-> InitialCheckpoint(id)],
                      <<>>)
<1>1. id.created_at \in Nat
  BY LifecycleAssumption
<1> QED
  BY <1>1 DEF RunReplays, NoRevisionGap, JournalReplays, ReplayedCheckpoint,
         LifecycleAt, InitialCheckpoint, StartLifecycle, WellFormedCheckpoint,
         FinalStateFits

\* A run that replays is at the revision its journal is long.
LEMMA RevisionIsLength ==
    ASSUME NEW r, NEW current, NEW j \in Seq(LifecycleTransition),
           RunReplays(r, current, j)
    PROVE  current.checkpoint.lifecycle.revision = Len(j)
<1> DEFINE l == current.checkpoint.lifecycle
<1>1. l = LifecycleAt(current.identity, j, Len(j))
  BY DEF RunReplays, ReplayedCheckpoint
<1>2. Len(j) \in Nat
  OBVIOUS
<1>3. CASE Len(j) = 0
  BY <1>1, <1>3 DEF LifecycleAt, StartLifecycle
<1>4. CASE Len(j) # 0
  <2>1. j[Len(j)].revision = Len(j)
    BY <1>2, <1>4 DEF RunReplays, NoRevisionGap
  <2> QED
    BY <1>1, <1>4, <2>1 DEF LifecycleAt, LifecycleAfter
<1> QED
  BY <1>3, <1>4

\* An allowed event appended to a run that replays gives one that replays: this
\* is why one INSERT and one UPDATE in one transaction keep a run valid.
LEMMA AppendReplays ==
    ASSUME NEW r \in RunIds, NEW current \in RunRow,
           NEW j \in Seq(LifecycleTransition), NEW e \in LifecycleTransition,
           RunReplays(r, current, j),
           EventReplays(current.checkpoint.lifecycle, e)
    PROVE  RunReplays(r,
                      [current EXCEPT !.checkpoint =
                          CheckpointAfter(current.checkpoint.identity, e)],
                      Append(j, e))
<1> DEFINE id == current.identity
           k == Append(j, e)
           new == [current EXCEPT !.checkpoint = CheckpointAfter(id, e)]
<1>1. /\ id = current.checkpoint.identity
      /\ id.run_id = r
      /\ current.checkpoint = ReplayedCheckpoint(id, j)
  BY DEF RunReplays
<1>2. Len(j) \in Nat /\ Len(k) = Len(j) + 1 /\ k[Len(j) + 1] = e
  OBVIOUS
<1>3. \A n \in 1..Len(j) : k[n] = j[n]
  OBVIOUS
<1>4. \A n \in 0..Len(j) : LifecycleAt(id, k, n) = LifecycleAt(id, j, n)
  BY <1>3 DEF LifecycleAt
<1>5. LifecycleAt(id, j, Len(j)) = current.checkpoint.lifecycle
  BY <1>1 DEF ReplayedCheckpoint
<1>6. current.checkpoint.lifecycle.revision = Len(j)
  BY RevisionIsLength
<1>7. e.revision = Len(j) + 1
  <2>1. e = EventOf(current.checkpoint.lifecycle, e.to_state, e.occurred_at,
                    e.actor, e.final_state)
    BY DEF EventReplays
  <2> QED
    BY <1>6, <2>1 DEF EventOf
<1>8. NoRevisionGap(k)
  BY <1>2, <1>3, <1>7 DEF RunReplays, NoRevisionGap
<1>9. JournalReplays(id, k)
  <2> SUFFICES ASSUME NEW n \in 1..Len(k)
               PROVE  EventReplays(LifecycleAt(id, k, n - 1), k[n])
    BY DEF JournalReplays
  <2>1. CASE n \in 1..Len(j)
    <3>1. LifecycleAt(id, k, n - 1) = LifecycleAt(id, j, n - 1) /\ k[n] = j[n]
      BY <1>2, <1>3, <1>4, <2>1
    <3> QED
      BY <2>1, <3>1 DEF RunReplays, JournalReplays
  <2>2. CASE n = Len(j) + 1
    <3>1. LifecycleAt(id, k, n - 1) = current.checkpoint.lifecycle
      BY <1>2, <1>4, <1>5, <2>2
    <3> QED
      BY <1>2, <2>2, <3>1
  <2> QED
    BY <1>2, <2>1, <2>2
<1>10. ReplayedCheckpoint(id, k) = CheckpointAfter(id, e)
  BY <1>2 DEF ReplayedCheckpoint, CheckpointAfter, LifecycleAt
<1>11. new.identity = id /\ new.checkpoint = CheckpointAfter(id, e)
  BY DEF RunRow
<1>12. CheckpointAfter(id, e).identity = id
  BY DEF CheckpointAfter
<1>13. WellFormedCheckpoint(CheckpointAfter(id, e))
  <2> DEFINE l == current.checkpoint.lifecycle
  <2>1. /\ e = EventOf(l, e.to_state, e.occurred_at, e.actor, e.final_state)
        /\ AdvanceVerdict(l, e.to_state, e.occurred_at, e.final_state) = "accepted"
    BY DEF EventReplays
  <2>2. l.run_id = id.run_id /\ l.updated_at >= id.created_at
    BY <1>1 DEF RunReplays, WellFormedCheckpoint
  <2>3. e.run_id = id.run_id
    BY <2>1, <2>2 DEF EventOf
  <2>4. e.occurred_at >= id.created_at
    <3>1. l.updated_at \in Nat /\ e.occurred_at \in Nat /\ id.created_at \in Nat
      BY LifecycleAssumption
         DEF RunRow, RunCheckpoint, RunLifecycle, LifecycleTransition
    <3>2. ~(e.occurred_at < l.updated_at)
      BY <2>1 DEF AdvanceVerdict
    <3> QED
      BY <2>2, <3>1, <3>2
  <2>5. FinalStateFits(e.to_state, e.final_state)
    BY <2>1 DEF AdvanceVerdict, FinalStateFits
  <2> QED
    BY <2>3, <2>4, <2>5
       DEF WellFormedCheckpoint, CheckpointAfter, LifecycleAfter
<1> QED
  BY <1>1, <1>8, <1>9, <1>10, <1>11, <1>12, <1>13 DEF RunReplays

=============================================================================
