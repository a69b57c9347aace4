------------------------- MODULE CommandRecordProofs -------------------------
(***************************************************************************)
(* Proofs about ProcessCapture, Evidence and CommandRecord, for every      *)
(* ceiling, read size and pipe size, any amount of output, any commands    *)
(* and any facts of a run.  First the capture loops: what a report says of *)
(* the output and of the process is true; the inductive invariant keeps    *)
(* the books of the bytes of each stream.  Then what the bytes of evidence *)
(* say: a command line and an evidence value can be told from any other by *)
(* what they are written as.  Last the way from one to the other.          *)
(***************************************************************************)
EXTENDS CommandRecord, SequenceTheorems, WellFoundedInduction, TLAPS

-----------------------------------------------------------------------------
(* The inductive invariant. *)

\* As long as nothing was cut off or given up, every byte that was written is
\* either captured or still in the pipe.
Accounted ==
    verdict = "exited" => \A s \in Streams : captured[s] + pipe[s] = written[s]

\* ... and what is captured is within the ceilings.
WithinCeilings ==
    verdict = "exited" =>
        IF backend = "sandbox" THEN \A s \in Streams : captured[s] <= Ceiling
        ELSE Captured <= Ceiling

\* The leader has both pipes open until it exits.
LeaderHolds == leader = "running" => \A s \in Streams : "leader" \in holders[s]

\* The end of a stream is final: a stream that is no longer watched is empty and
\* nobody can write to it again.
EndsAreFinal ==
    verdict = "exited" /\ pc # "starting" =>
        \A s \in Streams : s \notin watched => AtEnd(s)

\* The descendants of a sandbox do not outlive its leader.
Contained == backend = "sandbox" /\ inner = "running" => leader = "running"

\* What the adapter knows where it is.
Position ==
    /\ pc = "starting" => leader = "none"
    /\ pc \notin {"starting", "done"} => leader # "none"
    /\ pc \in {"starting", "selecting", "reading"} => verdict = "exited"
    /\ pc \in {"terminating", "grace", "killed"} => verdict # "exited"
    /\ pc \in {"reaping", "finishing", "done"} /\ verdict = "exited" => watched = {}
    /\ pc = "reaping" /\ verdict # "exited" => backend = "git" /\ signal = "kill"
    /\ pc \in {"finishing", "done"} /\ verdict \in Terminations => leader = "exited"

CaptureInv ==
    /\ TypeOK
    /\ Accounted /\ WithinCeilings
    /\ LeaderHolds /\ EndsAreFinal /\ Contained /\ Position
    /\ LimitIsDeserved

-----------------------------------------------------------------------------
\* Nothing is written, captured or started at first.
LEMMA CaptureInit == Init => CaptureInv
<1> SUFFICES ASSUME Init PROVE CaptureInv
  OBVIOUS
<1>1. TypeOK
  <2>1. 0 \in 0 .. IF backend = "sandbox" THEN Ceiling ELSE Ceiling + Chunk
    BY CaptureAssumption
  <2>2. captured \in [Streams -> 0 .. IF backend = "sandbox" THEN Ceiling ELSE Ceiling + Chunk]
    BY <2>1 DEF Init
  <2>3. /\ pipe \in [Streams -> 0 .. PipeSize] /\ written \in [Streams -> 0 .. MaxBytes]
        /\ holders \in [Streams -> SUBSET {"leader", "inner"}]
    BY CaptureAssumption DEF Init
  <2> QED
    BY <2>2, <2>3 DEF Init, TypeOK, Terminations
<1>2. Accounted /\ WithinCeilings
  BY CaptureAssumption DEF Init, Accounted, WithinCeilings, Captured, Streams
<1>3. LeaderHolds /\ EndsAreFinal /\ Contained /\ Position /\ LimitIsDeserved
  BY DEF Init, LeaderHolds, EndsAreFinal, Contained, Position, LimitIsDeserved, Terminations
<1> QED
  BY <1>1, <1>2, <1>3 DEF CaptureInv

\* The command and the kernel never touch what the adapter has, and change the
\* pipes only through their holders.
LEMMA CommandStep == CaptureInv /\ Command => CaptureInv'
<1> SUFFICES ASSUME CaptureInv, Command PROVE CaptureInv'
  OBVIOUS
<1> USE DEF CaptureInv, TypeOK, adapter
<1>1. CASE Fork
  <2>1. \A s \in Streams : holders[s] # {}
    BY <1>1 DEF Fork, LeaderHolds
  <2> QED
    BY <1>1, <2>1 DEF Fork, Accounted, WithinCeilings, LeaderHolds, EndsAreFinal, Contained,
              Position, LimitIsDeserved, Captured, AtEnd
<1>2. CASE InnerExits
  BY <1>2 DEF InnerExits, Accounted, WithinCeilings, LeaderHolds, EndsAreFinal, Contained,
              Position, LimitIsDeserved, Captured, AtEnd
<1>3. CASE LeaderExits
  BY <1>3 DEF LeaderExits, LeaderDies, Accounted, WithinCeilings, LeaderHolds, EndsAreFinal,
              Contained, Position, LimitIsDeserved, Captured, AtEnd
<1>4. CASE KillTakesEffect
  BY <1>4 DEF KillTakesEffect, Accounted, WithinCeilings, LeaderHolds, EndsAreFinal,
              Contained, Position, LimitIsDeserved, Captured, AtEnd
<1>5. ASSUME NEW s \in Streams, WriteTo(s) PROVE CaptureInv'
  BY <1>5, CaptureAssumption
     DEF WriteTo, Accounted, WithinCeilings, LeaderHolds, EndsAreFinal,
         Contained, Position, LimitIsDeserved, Captured, AtEnd, Streams
<1>6. ASSUME NEW s \in Streams, InnerCloses(s) PROVE CaptureInv'
  BY <1>6 DEF InnerCloses, Accounted, WithinCeilings, LeaderHolds, EndsAreFinal,
              Contained, Position, LimitIsDeserved, Captured, AtEnd
<1> QED
  BY <1>1, <1>2, <1>3, <1>4, <1>5, <1>6 DEF Command

\* The adapter: a read moves bytes from the pipe to what is captured, a stream
\* leaves the selector at its end only, and every way to the end of the execution
\* waits for the leader or reports a failure.
LEMMA AdapterStep == CaptureInv /\ Adapter => CaptureInv'
<1> SUFFICES ASSUME CaptureInv, Adapter PROVE CaptureInv'
  OBVIOUS
<1> USE DEF CaptureInv, TypeOK, command, Accounted, WithinCeilings, LeaderHolds, EndsAreFinal,
            Contained, Position, LimitIsDeserved, Captured, AtEnd, Terminations, Failures
<1>1. CASE Spawn
  BY <1>1 DEF Spawn
<1>2. CASE EndOfStreams
  BY <1>2 DEF EndOfStreams
<1>3. CASE TimeOut
  BY <1>3 DEF TimeOut
<1>4. CASE Select
  BY <1>4 DEF Select, Ready
<1>5. CASE EndOfEvents
  BY <1>5 DEF EndOfEvents
<1>6. ASSUME NEW s \in Streams, ReadEnd(s) PROVE CaptureInv'
  BY <1>6 DEF ReadEnd
<1>7. ASSUME NEW s \in Streams, ReadChunk(s) PROVE CaptureInv'
  <2> DEFINE n == Lesser(pipe[s], Chunk)
  <2>1. n \in Nat /\ 0 < n /\ n <= pipe[s] /\ n <= Chunk
    BY <1>7, CaptureAssumption DEF ReadChunk, Lesser
  <2>2. captured[s] \in Nat /\ pipe[s] \in Nat /\ written[s] \in Nat
    BY CaptureAssumption
  <2>3. /\ Kept(s, n) \in Nat /\ Kept(s, n) <= n
        /\ backend = "sandbox" => captured[s] + Kept(s, n) <= Ceiling
        /\ ~Exceeds(s, n) => Kept(s, n) = n
    BY <2>1, <2>2, <1>7, CaptureAssumption DEF ReadChunk, Kept, Exceeds, Lesser
  <2>4. /\ pipe' = [pipe EXCEPT ![s] = @ - n]
        /\ captured' = [captured EXCEPT ![s] = @ + Kept(s, n)]
        /\ \/ Exceeds(s, n) /\ pc' = "terminating" /\ verdict' = "output_limit" /\ events' = {}
           \/ ~Exceeds(s, n) /\ events' = events \ {s} /\ UNCHANGED <<pc, verdict>>
        /\ UNCHANGED <<backend, watched, late, signal, leader, inner, holders, written>>
        /\ verdict = "exited" /\ pc = "reading" /\ s \in watched
    BY <1>7 DEF ReadChunk
  <2> HIDE DEF n
  <2>5. backend = "git" => captured[s] <= Ceiling
    BY <2>4, CaptureAssumption DEF Streams
  <2>6. captured[s] + Kept(s, n) \in
          0 .. IF backend = "sandbox" THEN Ceiling ELSE Ceiling + Chunk
    BY <2>1, <2>2, <2>3, <2>5, CaptureAssumption
  <2>7. TypeOK'
    BY <2>1, <2>2, <2>4, <2>6, CaptureAssumption
  <2>8. Accounted'
    BY <2>1, <2>2, <2>3, <2>4, CaptureAssumption
  <2>9. WithinCeilings'
    BY <2>1, <2>2, <2>3, <2>4, CaptureAssumption DEF Exceeds, Streams
  <2>10. LimitIsDeserved'
    BY <2>1, <2>2, <2>3, <2>4, CaptureAssumption DEF Exceeds, Streams
  <2>11. EndsAreFinal'
    BY <2>4
  <2>12. LeaderHolds' /\ Contained' /\ Position'
    BY <2>4
  <2> QED
    BY <2>7, <2>8, <2>9, <2>10, <2>11, <2>12
<1>8. CASE Reap
  BY <1>8 DEF Reap
<1>9. CASE Terminate
  BY <1>9 DEF Terminate
<1>10. CASE Grace
  BY <1>10 DEF Grace
<1>11. CASE AfterKill
  BY <1>11 DEF AfterKill
<1>12. CASE Finish
  BY <1>12 DEF Finish
<1> QED
  BY <1>1, <1>2, <1>3, <1>4, <1>5, <1>6, <1>7, <1>8, <1>9, <1>10, <1>11, <1>12 DEF Adapter

\* Every step of the specification preserves the invariant.
LEMMA CaptureStep == CaptureInv /\ [Next]_vars => CaptureInv'
<1> SUFFICES ASSUME CaptureInv, [Next]_vars PROVE CaptureInv'
  OBVIOUS
<1> USE DEF CaptureInv, TypeOK, command, adapter, Accounted, WithinCeilings, LeaderHolds,
            EndsAreFinal, Contained, Position, LimitIsDeserved, Captured, AtEnd, Terminations,
            Failures
<1>1. CASE CaptureFails
  BY <1>1 DEF CaptureFails
<1>2. CASE Deadline
  BY <1>2 DEF Deadline
<1>3. CASE UNCHANGED vars
  BY <1>3 DEF vars
<1> QED
  BY <1>1, <1>2, <1>3, CommandStep, AdapterStep DEF Next

\* The invariant holds in every reachable state.
LEMMA CaptureInvariant == Spec => []CaptureInv
BY CaptureInit, CaptureStep, PTL DEF Spec

-----------------------------------------------------------------------------
(* What it gives. *)

\* A stream at its end is empty: what was written is captured.
LEMMA ExitedFromInv == CaptureInv => ExitedIsComplete
<1> SUFFICES ASSUME CaptureInv, pc = "done", verdict = "exited" PROVE ExitedIsComplete
  BY DEF ExitedIsComplete
<1>1. \A s \in Streams : captured[s] = written[s]
  BY CaptureAssumption
     DEF CaptureInv, TypeOK, Accounted, EndsAreFinal, Position, AtEnd
<1>2. captured = written
  BY <1>1 DEF CaptureInv, TypeOK
<1> QED
  BY <1>2 DEF CaptureInv, ExitedIsComplete, WithinCeilings

\* The variables keep their types, and what is kept of a stream is bounded by the
\* ceiling (sandbox) or by the ceiling and one read (git).
THEOREM CaptureTyped == Spec => []TypeOK
BY CaptureInvariant, PTL DEF CaptureInv

\* A command that is reported as exited has all of its output captured, within
\* the ceilings, for every ceiling, read size, pipe size and amount of output.
THEOREM ExitedOutputIsComplete == Spec => []ExitedIsComplete
BY ExitedFromInv, CaptureInvariant, PTL

\* A command is stopped for its output only when it wrote more than the ceiling.
THEOREM OutputLimitIsDeserved == Spec => []LimitIsDeserved
BY CaptureInvariant, PTL DEF CaptureInv

\* When the adapter reports how a command ended, the leader is gone, and in the
\* sandbox its descendants too.
THEOREM NothingOutlivesTheReport == Spec => []NothingRunsAfter
<1>1. CaptureInv => NothingRunsAfter
  BY DEF CaptureInv, NothingRunsAfter, Position, Contained
<1> QED
  BY <1>1, CaptureInvariant, PTL

\* The one wait without a deadline is for a process that has ended, or that was
\* sent a SIGKILL: the ends of both streams imply the exit of a leader that holds
\* them, and the other way to this wait is through killpg in git_cli.
WaitEnds == pc = "reaping" /\ leader = "running" => backend = "git" /\ signal = "kill"

THEOREM WaitsEnd == Spec => []WaitEnds
<1>1. CaptureInv => WaitEnds
  <2> SUFFICES ASSUME CaptureInv, pc = "reaping", leader = "running", verdict = "exited"
               PROVE  FALSE
    BY DEF CaptureInv, Position, WaitEnds
  <2>1. "stdout" \notin watched /\ "stdout" \in Streams
    BY DEF CaptureInv, Position, Streams
  <2>2. holders["stdout"] = {}
    BY <2>1 DEF CaptureInv, EndsAreFinal, AtEnd
  <2> QED
    BY <2>1, <2>2 DEF CaptureInv, LeaderHolds
<1> QED
  BY <1>1, CaptureInvariant, PTL

-----------------------------------------------------------------------------
(* Sequences of parts, joined. *)

\* Induction, for a set of numbers: there is no least number outside of it.
LEMMA Induction ==
    ASSUME NEW T \in SUBSET Nat, 0 \in T, \A n \in T : n + 1 \in T
    PROVE  T = Nat
<1> SUFFICES ASSUME Nat \ T # {} PROVE FALSE
  OBVIOUS
<1>1. PICK m \in Nat \ T : \A n \in Nat \ T : <<n, m>> \notin OpToRel(<, Nat)
  <2> DEFINE U == Nat \ T
  <2>1. U \subseteq Nat /\ U # {}
    OBVIOUS
  <2> HIDE DEF U
  <2>2. \E m \in U : \A n \in U : <<n, m>> \notin OpToRel(<, Nat)
    BY <2>1, WFMin, NatLessThanWellFounded, Zenon
  <2> QED
    BY <2>2 DEF U
<1>2. m # 0
  OBVIOUS
<1>3. m - 1 \in Nat /\ m - 1 < m
  BY <1>2
<1>4. <<m - 1, m>> \in OpToRel(<, Nat)
  BY <1>3 DEF OpToRel
<1>5. m - 1 \in T
  BY <1>1, <1>3, <1>4
<1>6. (m - 1) + 1 \in T
  BY <1>5
<1> QED
  BY <1>3, <1>6

\* f holds what the first n parts are when they are joined, for each n.
Joins(f, parts, n) ==
    f[0] = <<>> /\ \A i \in 1 .. n : f[i] = f[i - 1] \o parts[i]

\* Parts can be joined one after the other.
LEMMA Joining ==
    ASSUME NEW S, NEW parts \in Seq(Seq(S))
    PROVE  \E f \in [0 .. Len(parts) -> Seq(S)] : Joins(f, parts, Len(parts))
<1> DEFINE Joinable(n) == \E f \in [0 .. n -> Seq(S)] : Joins(f, parts, n)
           T == {n \in Nat : n <= Len(parts) => Joinable(n)}
<1>1. Len(parts) \in Nat /\ \A i \in 1 .. Len(parts) : parts[i] \in Seq(S)
  OBVIOUS
<1>2. Joinable(0)
  <2> DEFINE f == [i \in 0 .. 0 |-> <<>>]
  <2>1. f \in [0 .. 0 -> Seq(S)] /\ Joins(f, parts, 0)
    BY DEF Joins
  <2> HIDE DEF f
  <2> QED
    BY <2>1
<1>3. ASSUME NEW n \in Nat, n + 1 <= Len(parts), Joinable(n) PROVE Joinable(n + 1)
  <2>1. PICK f \in [0 .. n -> Seq(S)] : Joins(f, parts, n)
    BY <1>3
  <2> DEFINE g == [i \in 0 .. n + 1 |-> IF i = n + 1 THEN f[n] \o parts[n + 1] ELSE f[i]]
  <2>2. f[n] \o parts[n + 1] \in Seq(S)
    BY <1>1, <1>3, <2>1, ConcatProperties
  <2>3. g \in [0 .. n + 1 -> Seq(S)]
    BY <2>2
  <2>4. ASSUME NEW i \in 1 .. n + 1 PROVE g[i] = g[i - 1] \o parts[i]
    <3>1. CASE i = n + 1
      <4>1. g[n + 1] = f[n] \o parts[n + 1] /\ g[n] = f[n] /\ i - 1 = n
        BY <3>1
      <4> HIDE DEF g
      <4> QED
        BY <3>1, <4>1
    <3>2. CASE i # n + 1
      <4>1. i \in 1 .. n /\ i - 1 \in 0 .. n /\ g[i] = f[i] /\ g[i - 1] = f[i - 1]
        BY <3>2
      <4> QED
        BY <2>1, <4>1 DEF Joins
    <3> QED
      BY <3>1, <3>2
  <2>5. g[0] = <<>>
    BY <2>1 DEF Joins
  <2> HIDE DEF g
  <2> QED
    BY <2>3, <2>4, <2>5 DEF Joins
<1> HIDE DEF Joinable
<1>4. T \in SUBSET Nat /\ 0 \in T
  BY <1>2
<1>5. \A n \in T : n + 1 \in T
  BY <1>1, <1>3
<1>6. T = Nat
  <2> HIDE DEF T
  <2> QED
    BY <1>4, <1>5, Induction
<1>7. Joinable(Len(parts))
  BY <1>1, <1>6
<1> QED
  BY <1>7 DEF Joinable

\* FlattenSeq does so.
LEMMA Flattening ==
    ASSUME NEW S, NEW parts \in Seq(Seq(S)),
           NEW f \in [0 .. Len(parts) -> Seq(S)], Joins(f, parts, Len(parts))
    PROVE  FlattenSeq(parts) = f[Len(parts)]
<1> DEFINE N == Len(parts)
           Body(g) == [i \in 1 .. N |-> IF i = 1 THEN parts[i] ELSE g[i - 1] \o parts[i]]
           h == [i \in 1 .. N |-> f[i]]
           k == CHOOSE g : g = Body(g)
           T == {n \in Nat : n \in 1 .. N => k[n] = f[n]}
<1>1. N \in Nat /\ \A i \in 1 .. N : parts[i] \in Seq(S)
  OBVIOUS
<1>2. CASE N = 0
  BY <1>2 DEF FlattenSeq, Joins
<1>3. CASE N # 0
  <2>1. f[1] = parts[1]
    <3>1. f[1] = f[1 - 1] \o parts[1]
      <4>1. 1 \in 1 .. N
        BY <1>1, <1>3
      <4> QED
        BY <4>1 DEF Joins
    <3>2. f[1 - 1] = <<>> /\ parts[1] \in Seq(S)
      BY <1>1, <1>3 DEF Joins
    <3> HIDE DEF N
    <3> QED
      BY <3>1, <3>2, ConcatEmptySeq
  <2>2. h = Body(h)
    <3>1. ASSUME NEW i \in 1 .. N
          PROVE  h[i] = IF i = 1 THEN parts[i] ELSE h[i - 1] \o parts[i]
      <4>1. CASE i = 1
        BY <2>1, <4>1
      <4>2. CASE i # 1
        <5>1. i - 1 \in 1 .. N
          BY <1>1, <4>2
        <5>2. h[i] = f[i] /\ h[i - 1] = f[i - 1]
          BY <5>1
        <5>3. f[i] = f[i - 1] \o parts[i]
          BY DEF Joins
        <5> HIDE DEF h
        <5> QED
          BY <4>2, <5>2, <5>3
      <4> QED
        BY <4>1, <4>2
    <3>2. Body(h) = [i \in 1 .. N |-> h[i]]
      <4> HIDE DEF h
      <4> QED
        BY <3>1
    <3> QED
      BY <3>2
  <2>3. k = Body(k)
    <3> HIDE DEF h
    <3> QED
      BY <2>2
  <2>4. FlattenSeq(parts) = k[N]
    BY <1>3 DEF FlattenSeq
  <2> HIDE DEF k
  <2>5. T \in SUBSET Nat /\ 0 \in T
    OBVIOUS
  <2>6. ASSUME NEW n \in T PROVE n + 1 \in T
    <3> SUFFICES ASSUME n + 1 \in 1 .. N PROVE k[n + 1] = f[n + 1]
      OBVIOUS
    <3>1. n \in Nat /\ k[n + 1] = IF n + 1 = 1 THEN parts[n + 1] ELSE k[n] \o parts[n + 1]
      <4>1. \A i \in 1 .. N : k[i] = IF i = 1 THEN parts[i] ELSE k[i - 1] \o parts[i]
        BY <2>3
      <4>2. (n + 1) - 1 = n /\ n \in Nat
        OBVIOUS
      <4> QED
        BY <4>1, <4>2
    <3>2. CASE n = 0
      BY <2>1, <3>1, <3>2
    <3>3. CASE n # 0
      <4>1. n \in 1 .. N
        BY <1>1, <3>1, <3>3
      <4>2. k[n] = f[n]
        BY <4>1
      <4>3. f[n + 1] = f[(n + 1) - 1] \o parts[n + 1]
        BY DEF Joins
      <4>4. (n + 1) - 1 = n /\ n + 1 # 1
        BY <3>1, <3>3
      <4> QED
        BY <3>1, <4>2, <4>3, <4>4
    <3> QED
      BY <3>2, <3>3
  <2>7. T = Nat
    <3> HIDE DEF T
    <3> QED
      BY <2>5, <2>6, Induction
  <2> QED
    BY <1>1, <1>3, <2>4, <2>7
<1> QED
  BY <1>2, <1>3

\* What was joined first is at the beginning of the whole.
LEMMA Continues ==
    ASSUME NEW S, NEW parts \in Seq(Seq(S)),
           NEW f \in [0 .. Len(parts) -> Seq(S)], Joins(f, parts, Len(parts)),
           NEW n \in 0 .. Len(parts)
    PROVE  \E rest \in Seq(S) : f[Len(parts)] = f[n] \o rest
<1> DEFINE Goes(m) == \E rest \in Seq(S) : f[n + m] = f[n] \o rest
           T == {m \in Nat : n + m <= Len(parts) => Goes(m)}
<1>1. Len(parts) \in Nat /\ n \in Nat /\ \A i \in 1 .. Len(parts) : parts[i] \in Seq(S)
  OBVIOUS
<1>2. Goes(0)
  <2>1. f[n + 0] = f[n] \o <<>> /\ <<>> \in Seq(S)
    BY ConcatEmptySeq
  <2> QED
    BY <2>1
<1>3. ASSUME NEW m \in Nat, n + (m + 1) <= Len(parts), Goes(m) PROVE Goes(m + 1)
  <2>1. PICK rest \in Seq(S) : f[n + m] = f[n] \o rest
    BY <1>3
  <2>2. PICK i \in 1 .. Len(parts) : i = n + (m + 1) /\ i - 1 = n + m
    BY <1>1, <1>3
  <2>3. PICK a \in Seq(S) : a = f[n]
    BY <1>1
  <2>4. PICK b \in Seq(S) : b = parts[i]
    BY <1>1
  <2>5. f[i] = (a \o rest) \o b
    BY <2>1, <2>2, <2>3, <2>4 DEF Joins
  <2>6. (a \o rest) \o b = a \o (rest \o b) /\ rest \o b \in Seq(S)
    OBVIOUS
  <2> QED
    BY <2>2, <2>3, <2>5, <2>6
<1> HIDE DEF Goes
<1>4. T \in SUBSET Nat /\ 0 \in T
  BY <1>2
<1>5. \A m \in T : m + 1 \in T
  BY <1>1, <1>3
<1>6. T = Nat
  <2> HIDE DEF T
  <2> QED
    BY <1>4, <1>5, Induction
<1>7. PICK m \in Nat : n + m = Len(parts)
  <2>1. Len(parts) - n \in Nat /\ n + (Len(parts) - n) = Len(parts)
    BY <1>1
  <2> QED
    BY <2>1
<1>8. Goes(m)
  <2>1. m \in T /\ n + m <= Len(parts)
    BY <1>1, <1>6, <1>7
  <2> QED
    BY <2>1
<1> QED
  BY <1>7, <1>8 DEF Goes

\* f joins the parts, and then comes x.
Joined(S, f, parts, x) ==
    /\ parts \in Seq(Seq(S)) /\ x \in Seq(S)
    /\ f \in [0 .. Len(parts) -> Seq(S)] /\ Joins(f, parts, Len(parts))

\* Four sequences in a row, from the left and from the right.
LEMMA Regroup ==
    ASSUME NEW S, NEW s \in Seq(S), NEW t \in Seq(S), NEW u \in Seq(S), NEW v \in Seq(S)
    PROVE  ((s \o t) \o u) \o v = s \o (t \o (u \o v)) /\ u \o v \in Seq(S)
<1>1. PICK a \in Seq(S) : a = s \o t
  BY ConcatProperties
<1>2. PICK w \in Seq(S) : w = u \o v
  BY ConcatProperties
<1>3. (a \o u) \o v = a \o (u \o v)
  BY ONLY ConcatAssociative
<1>4. (s \o t) \o w = s \o (t \o w)
  BY ONLY ConcatAssociative
<1> QED
  BY <1>1, <1>2, <1>3, <1>4

\* After n parts there come the next one, and the rest.
GoesOn(S, f, parts, x, n) ==
    \E a, b, u \in Seq(S) :
        /\ a = f[n] /\ b = parts[n + 1]
        /\ f[n + 1] = a \o b
        /\ f[Len(parts)] \o x = a \o (b \o u)

\* The whole goes on with the next part after any number of them.
LEMMA NextPart ==
    ASSUME NEW S, NEW parts, NEW x, NEW f, Joined(S, f, parts, x),
           NEW n \in Nat, n + 1 <= Len(parts)
    PROVE  GoesOn(S, f, parts, x, n)
<1> USE DEF Joined
<1>1. /\ n + 1 \in 1 .. Len(parts) /\ n + 1 \in 0 .. Len(parts) /\ n \in 0 .. Len(parts)
      /\ (n + 1) - 1 = n
  OBVIOUS
<1>2. PICK rest \in Seq(S) : f[Len(parts)] = f[n + 1] \o rest
  BY <1>1, Continues
<1>3. PICK a \in Seq(S) : a = f[n]
  BY <1>1
<1>4. PICK b \in Seq(S) : b = parts[n + 1]
  BY <1>1
<1>5. f[n + 1] = a \o b
  BY <1>1, <1>3, <1>4 DEF Joins
<1>6. f[Len(parts)] \o x = ((a \o b) \o rest) \o x
  BY <1>2, <1>5
<1>7. PICK y \in Seq(S) : y = x
  OBVIOUS
<1>8. ((a \o b) \o rest) \o y = a \o (b \o (rest \o y)) /\ rest \o y \in Seq(S)
  <2> HIDE DEF Joined
  <2> QED
    BY Regroup, SMTT(30)
<1> QED
  BY <1>3, <1>4, <1>5, <1>6, <1>7, <1>8 DEF GoesOn

\* What follows the same beginning is the same.
LEMMA Cancel ==
    ASSUME NEW S, NEW s \in Seq(S), NEW t \in Seq(S), NEW v \in Seq(S), s \o t = s \o v
    PROVE  t = v
BY ConcatSimplifications

\* In every place, the part of one sequence is not the beginning of another part of
\* the other one; and what follows is not taken for a part.
ApartInPlace(S, p, q) ==
    \A i \in (1 .. Len(p)) \cap (1 .. Len(q)) : \A u, v \in Seq(S) :
        p[i] \o u = q[i] \o v => p[i] = q[i]
NeverBegins(S, p, x) == \A i \in 1 .. Len(p) : \A u \in Seq(S) : p[i] \o u # x

\* The longer one goes on with what cannot be what follows the other.
LEMMA NoLonger ==
    ASSUME NEW S, NEW p, NEW q, NEW x, NEW y, NEW f, NEW g,
           Joined(S, f, p, x), Joined(S, g, q, y),
           f[Len(p)] \o x = g[Len(q)] \o y, NeverBegins(S, q, x),
           Len(p) < Len(q), f[Len(p)] = g[Len(p)]
    PROVE  FALSE
<1>1. PICK n \in Nat : n = Len(p) /\ n + 1 <= Len(q) /\ n + 1 \in 1 .. Len(q)
  <2>1. Len(p) \in Nat /\ Len(q) \in Nat
    BY DEF Joined
  <2> QED
    BY <2>1
<1>2. PICK a, b, v \in Seq(S) : a = g[n] /\ b = q[n + 1] /\ g[Len(q)] \o y = a \o (b \o v)
  <2>1. GoesOn(S, g, q, y, n)
    BY <1>1, NextPart
  <2> QED
    BY <2>1 DEF GoesOn
<1>3. PICK z \in Seq(S) : z = x
  BY DEF Joined
<1>4. a \o z = a \o (b \o v)
  BY <1>1, <1>2, <1>3
<1>5. b \o v \in Seq(S)
  OBVIOUS
<1>6. z = b \o v
  BY <1>4, <1>5, Cancel
<1> QED
  BY <1>1, <1>2, <1>3, <1>6 DEF NeverBegins

\* Then two sequences of parts can be told apart by what they are joined to,
\* whatever follows.
LEMMA Decoding ==
    ASSUME NEW S, NEW p \in Seq(Seq(S)), NEW q \in Seq(Seq(S)),
           NEW x \in Seq(S), NEW y \in Seq(S),
           FlattenSeq(p) \o x = FlattenSeq(q) \o y,
           ApartInPlace(S, p, q), NeverBegins(S, p, y), NeverBegins(S, q, x)
    PROVE  p = q /\ x = y
<1>1. PICK f : Joined(S, f, p, x) /\ FlattenSeq(p) = f[Len(p)]
  BY Joining, Flattening DEF Joined
<1>2. PICK g : Joined(S, g, q, y) /\ FlattenSeq(q) = g[Len(q)]
  BY Joining, Flattening DEF Joined
<1>3. f[Len(p)] \o x = g[Len(q)] \o y
  BY <1>1, <1>2
<1>4. Len(p) \in Nat /\ Len(q) \in Nat
  OBVIOUS
<1> DEFINE Same(n) == f[n] = g[n] /\ \A i \in 1 .. n : p[i] = q[i]
           T == {n \in Nat : n <= Len(p) /\ n <= Len(q) => Same(n)}
<1>5. Same(0)
  BY <1>1, <1>2 DEF Joined, Joins
<1>6. ASSUME NEW n \in Nat, n + 1 <= Len(p), n + 1 <= Len(q), Same(n) PROVE Same(n + 1)
  <2>1. PICK a, b, u \in Seq(S) :
           a = f[n] /\ b = p[n + 1] /\ f[n + 1] = a \o b /\ f[Len(p)] \o x = a \o (b \o u)
    <3>1. GoesOn(S, f, p, x, n)
      BY <1>1, <1>6, NextPart
    <3> QED
      BY <3>1 DEF GoesOn
  <2>2. PICK c, d, v \in Seq(S) :
           c = g[n] /\ d = q[n + 1] /\ g[n + 1] = c \o d /\ g[Len(q)] \o y = c \o (d \o v)
    <3>1. GoesOn(S, g, q, y, n)
      BY <1>2, <1>6, NextPart
    <3> QED
      BY <3>1 DEF GoesOn
  <2>3. a = c
    BY <1>6, <2>1, <2>2
  <2>4. a \o (b \o u) = a \o (d \o v)
    BY <1>3, <2>1, <2>2, <2>3
  <2>5. b \o u \in Seq(S) /\ d \o v \in Seq(S)
    OBVIOUS
  <2>6. b \o u = d \o v
    BY <2>4, <2>5, Cancel
  <2>7. n + 1 \in (1 .. Len(p)) \cap (1 .. Len(q))
    BY <1>4, <1>6
  <2>8. p[n + 1] = q[n + 1]
    BY <2>1, <2>2, <2>6, <2>7 DEF ApartInPlace
  <2>9. f[n + 1] = g[n + 1]
    BY <2>1, <2>2, <2>3, <2>8
  <2>10. ASSUME NEW i \in 1 .. n + 1 PROVE p[i] = q[i]
    <3>1. i \in 1 .. n \/ i = n + 1
      OBVIOUS
    <3> QED
      BY <1>6, <2>8, <3>1
  <2> QED
    BY <2>9, <2>10
<1>7. ASSUME NEW n \in Nat, n <= Len(p), n <= Len(q) PROVE Same(n)
  <2> HIDE DEF Same
  <2>1. T \in SUBSET Nat /\ 0 \in T
    BY <1>5
  <2>2. \A m \in T : m + 1 \in T
    BY <1>4, <1>6
  <2>3. T = Nat
    <3> HIDE DEF T
    <3> QED
      BY <2>1, <2>2, Induction
  <2> QED
    BY <1>7, <2>3
<1>8. ~(Len(p) < Len(q))
  <2> SUFFICES ASSUME Len(p) < Len(q) PROVE FALSE
    OBVIOUS
  <2>1. Len(p) <= Len(p) /\ Len(p) <= Len(q)
    BY <1>4
  <2>2. Same(Len(p))
    BY <1>4, <1>7, <2>1
  <2> QED
    BY <1>1, <1>2, <1>3, <2>2, NoLonger
<1>9. ~(Len(q) < Len(p))
  <2> SUFFICES ASSUME Len(q) < Len(p) PROVE FALSE
    OBVIOUS
  <2>1. Len(q) <= Len(p) /\ Len(q) <= Len(q)
    BY <1>4
  <2>2. Same(Len(q))
    BY <1>4, <1>7, <2>1
  <2> QED
    BY <1>1, <1>2, <1>3, <2>2, NoLonger
<1>10. Len(p) = Len(q) /\ Len(p) <= Len(p)
  BY <1>4, <1>8, <1>9
<1>11. Same(Len(p))
  BY <1>4, <1>7, <1>10
<1>12. p = q
  <2>1. \A i \in 1 .. Len(p) : p[i] = q[i]
    BY <1>11
  <2> HIDE DEF Same
  <2> QED
    BY <1>10, <2>1, SeqEqual
<1>13. PICK a \in Seq(S) : a = f[Len(p)]
  <2>1. f \in [0 .. Len(p) -> Seq(S)] /\ Len(p) \in 0 .. Len(p)
    BY <1>1, <1>4 DEF Joined
  <2>2. f[Len(p)] \in Seq(S)
    BY <2>1
  <2> QED
    BY <2>2
<1>14. a \o x = a \o y
  BY <1>3, <1>10, <1>11, <1>13
<1> QED
  BY <1>12, <1>14, Cancel

\* Joined parts are a sequence over the same set.
LEMMA FlattenedIsSeq ==
    ASSUME NEW S, NEW parts \in Seq(Seq(S)) PROVE FlattenSeq(parts) \in Seq(S)
<1>1. PICK f \in [0 .. Len(parts) -> Seq(S)] : Joins(f, parts, Len(parts))
  BY Joining
<1>2. FlattenSeq(parts) = f[Len(parts)]
  BY <1>1, Flattening
<1>3. Len(parts) \in 0 .. Len(parts)
  OBVIOUS
<1> QED
  BY <1>2, <1>3

-----------------------------------------------------------------------------
(* Texts and command lines in JSON. *)

Marks == {"quote", "backslash", "comma", "open", "close"}

\* The escape of a character tells which one it is, and begins with no quote.
LEMMA Escapes ==
    ASSUME NEW S, Marks \subseteq S, NEW c \in S, NEW d \in S, NEW u \in Seq(S), NEW v \in Seq(S)
    PROVE  /\ Escaped(c) \in Seq(S)
           /\ Escaped(c) \o u = Escaped(d) \o v => c = d
           /\ Escaped(c) \o u # <<"quote">> \o v
<1>1. /\ <<"quote">> \in Seq(S) /\ <<c>> \in Seq(S) /\ <<d>> \in Seq(S)
      /\ <<"backslash", c>> \in Seq(S) /\ <<"backslash", d>> \in Seq(S)
  BY DEF Marks
<1>2. \A e \in S, w \in Seq(S) :
         /\ (<<e>> \o w)[1] = e
         /\ (<<"backslash", e>> \o w)[1] = "backslash"
         /\ (<<"backslash", e>> \o w)[2] = e
  <2> SUFFICES ASSUME NEW e \in S, NEW w \in Seq(S)
               PROVE  /\ (<<e>> \o w)[1] = e
                      /\ (<<"backslash", e>> \o w)[1] = "backslash"
                      /\ (<<"backslash", e>> \o w)[2] = e
    OBVIOUS
  <2>1. <<e>> \in Seq(S) /\ <<"backslash", e>> \in Seq(S)
    BY DEF Marks
  <2>2. Len(w) \in Nat
    OBVIOUS
  <2>3. (<<e>> \o w)[1] = e
    BY <2>1, <2>2
  <2>4. (<<"backslash", e>> \o w)[1] = "backslash"
    BY <2>1, <2>2
  <2>5. (<<"backslash", e>> \o w)[2] = e
    BY <2>1, <2>2
  <2> QED
    BY <2>3, <2>4, <2>5
<1>3. "quote" \in S
  BY DEF Marks
<1>4. Escaped(c) \in Seq(S)
  BY <1>1 DEF Escaped
<1>5. Escaped(c) \o u # <<"quote">> \o v
  <2>1. (<<"quote">> \o v)[1] = "quote"
    BY <1>2, <1>3
  <2>2. CASE c \in {"quote", "backslash"}
    <3>1. (Escaped(c) \o u)[1] = "backslash"
      BY <1>2, <2>2 DEF Escaped
    <3> QED
      BY <2>1, <3>1
  <2>3. CASE c \notin {"quote", "backslash"}
    <3>1. (Escaped(c) \o u)[1] = c
      BY <1>2, <2>3 DEF Escaped
    <3> QED
      BY <2>1, <2>3, <3>1
  <2> QED
    BY <2>2, <2>3
<1>6. ASSUME Escaped(c) \o u = Escaped(d) \o v PROVE c = d
  <2>1. CASE c \in {"quote", "backslash"} /\ d \in {"quote", "backslash"}
    <3>1. (Escaped(c) \o u)[2] = c /\ (Escaped(d) \o v)[2] = d
      BY <1>2, <2>1 DEF Escaped
    <3> QED
      BY <1>6, <3>1
  <2>2. CASE c \in {"quote", "backslash"} /\ d \notin {"quote", "backslash"}
    <3>1. (Escaped(c) \o u)[1] = "backslash" /\ (Escaped(d) \o v)[1] = d
      BY <1>2, <2>2 DEF Escaped
    <3> QED
      BY <1>6, <2>2, <3>1
  <2>3. CASE c \notin {"quote", "backslash"} /\ d \in {"quote", "backslash"}
    <3>1. (Escaped(c) \o u)[1] = c /\ (Escaped(d) \o v)[1] = "backslash"
      BY <1>2, <2>3 DEF Escaped
    <3> QED
      BY <1>6, <2>3, <3>1
  <2>4. CASE c \notin {"quote", "backslash"} /\ d \notin {"quote", "backslash"}
    <3>1. (Escaped(c) \o u)[1] = c /\ (Escaped(d) \o v)[1] = d
      BY <1>2, <2>4 DEF Escaped
    <3> QED
      BY <1>6, <3>1
  <2> QED
    BY <2>1, <2>2, <2>3, <2>4
<1> QED
  BY <1>4, <1>5, <1>6

EscapedParts(text) == [i \in DOMAIN text |-> Escaped(text[i])]

\* A text has as many escapes as characters, one for each.
LEMMA EscapedPartsType ==
    ASSUME NEW S, Marks \subseteq S, NEW text \in Seq(S)
    PROVE  /\ EscapedParts(text) \in Seq(Seq(S))
           /\ Len(EscapedParts(text)) = Len(text)
           /\ \A i \in 1 .. Len(text) : EscapedParts(text)[i] = Escaped(text[i])
<1>1. \A i \in 1 .. Len(text) : Escaped(text[i]) \in Seq(S)
  <2> TAKE i \in 1 .. Len(text)
  <2>1. text[i] \in S
    OBVIOUS
  <2>2. <<>> \in Seq(S)
    OBVIOUS
  <2> QED
    BY <2>1, <2>2, Escapes
<1>2. DOMAIN text = 1 .. Len(text) /\ Len(text) \in Nat
  OBVIOUS
<1>3. EscapedParts(text) \in [1 .. Len(text) -> Seq(S)]
  BY <1>1, <1>2 DEF EscapedParts
<1>4. EscapedParts(text) \in Seq(Seq(S)) /\ Len(EscapedParts(text)) = Len(text)
  BY <1>2, <1>3
<1> QED
  BY <1>2, <1>4 DEF EscapedParts

\* What begins with the same escape says the same character.
LEMMA SameEscape ==
    ASSUME NEW S, Marks \subseteq S, NEW c \in S, NEW d \in S, NEW u \in Seq(S), NEW v \in Seq(S),
           Escaped(c) \o u = Escaped(d) \o v
    PROVE  c = d
BY Escapes, Zenon

\* The escape in one place is that of the character there.
LEMMA EscapedPart ==
    ASSUME NEW S, Marks \subseteq S, NEW text \in Seq(S), NEW i \in 1 .. Len(EscapedParts(text))
    PROVE  EscapedParts(text)[i] = Escaped(text[i]) /\ text[i] \in S
<1>1. Len(EscapedParts(text)) = Len(text)
  BY EscapedPartsType, Zenon
<1>2. i \in 1 .. Len(text)
  BY <1>1
<1>3. text[i] \in S
  BY <1>2
<1>4. EscapedParts(text)[i] = Escaped(text[i])
  BY <1>2, EscapedPartsType, Zenon
<1> QED
  BY <1>3, <1>4

\* In every place the escapes of two texts are apart, and no quote begins one.
LEMMA EscapesApart ==
    ASSUME NEW S, Marks \subseteq S, NEW s \in Seq(S), NEW t \in Seq(S)
    PROVE  ApartInPlace(S, EscapedParts(s), EscapedParts(t))
<1> SUFFICES ASSUME NEW i \in (1 .. Len(EscapedParts(s))) \cap (1 .. Len(EscapedParts(t))),
                    NEW u \in Seq(S), NEW v \in Seq(S),
                    EscapedParts(s)[i] \o u = EscapedParts(t)[i] \o v
             PROVE  EscapedParts(s)[i] = EscapedParts(t)[i]
  BY DEF ApartInPlace
<1>1. EscapedParts(s)[i] = Escaped(s[i]) /\ s[i] \in S
  BY EscapedPart, Zenon
<1>2. EscapedParts(t)[i] = Escaped(t[i]) /\ t[i] \in S
  BY EscapedPart, Zenon
<1>3. Escaped(s[i]) \o u = Escaped(t[i]) \o v
  BY <1>1, <1>2
<1>4. s[i] = t[i]
  BY <1>1, <1>2, <1>3, SameEscape
<1> QED
  BY <1>1, <1>2, <1>4

\* No escape begins like the closing quote of a text.
LEMMA EscapesAreNoQuote ==
    ASSUME NEW S, Marks \subseteq S, NEW s \in Seq(S), NEW x \in Seq(S)
    PROVE  NeverBegins(S, EscapedParts(s), <<"quote">> \o x)
<1> SUFFICES ASSUME NEW i \in 1 .. Len(EscapedParts(s)), NEW u \in Seq(S)
             PROVE  EscapedParts(s)[i] \o u # <<"quote">> \o x
  BY DEF NeverBegins
<1>1. EscapedParts(s)[i] = Escaped(s[i]) /\ s[i] \in S
  BY EscapedPart, Zenon
<1> QED
  BY <1>1, Escapes, Zenon

\* A text in quotes is a text: a quote, the escapes, a quote.
InQuotes(S, text, x) ==
    \E q, body \in Seq(S) :
        /\ q = <<"quote">> /\ body = FlattenSeq(EscapedParts(text))
        /\ Quoted(text) \in Seq(S)
        /\ Quoted(text) \o x = q \o (body \o (q \o x))

\* A text in quotes has this form, whatever follows.
LEMMA QuotedIsText ==
    ASSUME NEW S, Marks \subseteq S, NEW text \in Seq(S), NEW x \in Seq(S)
    PROVE  InQuotes(S, text, x)
<1>1. PICK body \in Seq(S) : body = FlattenSeq(EscapedParts(text))
  BY EscapedPartsType, FlattenedIsSeq
<1>2. PICK q \in Seq(S) : q = <<"quote">>
  <2>1. "quote" \in S
    BY DEF Marks
  <2>2. <<"quote">> \in Seq(S)
    BY <2>1
  <2> QED
    BY <2>2, Zenon
<1>3. Quoted(text) = (q \o body) \o q
  BY <1>1, <1>2 DEF Quoted, EscapedParts
<1>4. q \o body \in Seq(S)
  BY ConcatProperties
<1>5. (q \o body) \o q \in Seq(S)
  BY <1>4, ConcatProperties
<1>6. PICK y \in Seq(S) : y = x
  OBVIOUS
<1>7. ((q \o body) \o q) \o y = q \o (body \o (q \o y))
  OBVIOUS
<1> QED
  BY <1>1, <1>2, <1>3, <1>5, <1>6, <1>7 DEF InQuotes

\* It is clear where it ends and what it says, whatever follows.
LEMMA QuotedApart ==
    ASSUME NEW S, Marks \subseteq S, NEW s \in Seq(S), NEW t \in Seq(S),
           NEW x \in Seq(S), NEW y \in Seq(S), Quoted(s) \o x = Quoted(t) \o y
    PROVE  s = t
<1>1. PICK q, b \in Seq(S) : /\ q = <<"quote">> /\ b = FlattenSeq(EscapedParts(s))
                             /\ Quoted(s) \o x = q \o (b \o (q \o x))
  <2>1. InQuotes(S, s, x)
    BY QuotedIsText
  <2> QED
    BY <2>1 DEF InQuotes
<1>2. PICK c \in Seq(S) : /\ c = FlattenSeq(EscapedParts(t))
                          /\ Quoted(t) \o y = q \o (c \o (q \o y))
  <2>1. InQuotes(S, t, y)
    BY QuotedIsText
  <2> QED
    BY <1>1, <2>1 DEF InQuotes
<1>3. PICK v \in Seq(S) : v = q \o x
  BY ConcatProperties
<1>4. PICK w \in Seq(S) : w = q \o y
  BY ConcatProperties
<1>5. q \o (b \o v) = q \o (c \o w)
  BY <1>1, <1>2, <1>3, <1>4
<1>6. b \o v \in Seq(S) /\ c \o w \in Seq(S)
  BY ConcatProperties
<1>7. b \o v = c \o w
  BY <1>5, <1>6, Cancel
<1>8. EscapedParts(s) \in Seq(Seq(S)) /\ EscapedParts(t) \in Seq(Seq(S))
  BY EscapedPartsType
<1>9. NeverBegins(S, EscapedParts(s), w) /\ NeverBegins(S, EscapedParts(t), v)
  BY <1>1, <1>3, <1>4, EscapesAreNoQuote
<1>10. EscapedParts(s) = EscapedParts(t)
  <2>1. FlattenSeq(EscapedParts(s)) \o v = FlattenSeq(EscapedParts(t)) \o w
    BY <1>1, <1>2, <1>7
  <2> QED
    BY <1>8, <1>9, <2>1, EscapesApart, Decoding
<1>11. Len(s) = Len(t)
  <2>1. Len(EscapedParts(s)) = Len(s) /\ Len(EscapedParts(t)) = Len(t)
    BY EscapedPartsType
  <2> QED
    BY <1>10, <2>1
<1>12. \A i \in 1 .. Len(s) : s[i] = t[i]
  <2> TAKE i \in 1 .. Len(s)
  <2>1. i \in 1 .. Len(EscapedParts(s)) /\ i \in 1 .. Len(EscapedParts(t))
    BY <1>10, EscapedPartsType
  <2>2. EscapedParts(s)[i] = Escaped(s[i]) /\ s[i] \in S
    BY <2>1, EscapedPart, Zenon
  <2>3. EscapedParts(t)[i] = Escaped(t[i]) /\ t[i] \in S
    BY <2>1, EscapedPart, Zenon
  <2>4. Escaped(s[i]) \o x = Escaped(t[i]) \o x
    BY <1>10, <2>2, <2>3
  <2> QED
    BY <2>2, <2>3, <2>4, SameEscape
<1> QED
  BY <1>11, <1>12, SeqEqual

\* A sequence of one mark.
LEMMA Mark ==
    ASSUME NEW S, Marks \subseteq S, NEW m \in Marks PROVE \E q \in Seq(S) : q = <<m>>
<1>1. m \in S
  OBVIOUS
<1>2. <<m>> \in Seq(S)
  BY <1>1
<1> QED
  BY <1>2, Zenon

\* What follows a mark begins with it.
LEMMA MarkFirst ==
    ASSUME NEW S, NEW m, NEW q \in Seq(S), q = <<m>>, NEW x \in Seq(S) PROVE (q \o x)[1] = m
<1>1. Len(x) \in Nat
  OBVIOUS
<1> QED
  BY <1>1

\* A text in quotes begins with a quote.
LEMMA QuotedBegins ==
    ASSUME NEW S, Marks \subseteq S, NEW text \in Seq(S), NEW x \in Seq(S)
    PROVE  Quoted(text) \in Seq(S) /\ (Quoted(text) \o x)[1] = "quote"
<1>1. PICK q, body \in Seq(S) : /\ q = <<"quote">> /\ Quoted(text) \in Seq(S)
                                /\ Quoted(text) \o x = q \o (body \o (q \o x))
  <2>1. InQuotes(S, text, x)
    BY QuotedIsText
  <2> QED
    BY <2>1 DEF InQuotes
<1>2. PICK y \in Seq(S) : y = q \o x
  BY ConcatProperties
<1>3. PICK z \in Seq(S) : z = body \o y
  BY ConcatProperties
<1>4. (q \o z)[1] = "quote"
  BY <1>1, MarkFirst
<1> QED
  BY <1>1, <1>2, <1>3, <1>4

\* An argument in the list: the first one in quotes, the others after a comma.
LEMMA ListedBegins ==
    ASSUME NEW S, Marks \subseteq S, NEW i, NEW text \in Seq(S), NEW x \in Seq(S)
    PROVE  Listed(i, text) \in Seq(S) /\ (Listed(i, text) \o x)[1] \in {"quote", "comma"}
<1>1. PICK a \in Seq(S) : a = Quoted(text)
  BY QuotedBegins
<1>2. CASE i = 1
  BY <1>2, QuotedBegins DEF Listed
<1>3. CASE i # 1
  <2>1. PICK c \in Seq(S) : c = <<"comma">>
    BY Mark DEF Marks
  <2>2. a \o x \in Seq(S) /\ c \o a \in Seq(S)
    OBVIOUS
  <2>3. (c \o a) \o x = c \o (a \o x)
    OBVIOUS
  <2>4. (c \o (a \o x))[1] = "comma"
    BY <2>1, <2>2, MarkFirst
  <2>5. Listed(i, text) = c \o a
    BY <1>1, <1>3, <2>1 DEF Listed
  <2> QED
    BY <2>2, <2>3, <2>4, <2>5
<1> QED
  BY <1>2, <1>3

WithComma(S, i, text, x) ==
    \E c, v \in Seq(S) : /\ c = <<"comma">> /\ v = Quoted(text) \o x
                         /\ Listed(i, text) \o x = c \o v

\* An argument but the first is a text in quotes after a comma.
LEMMA AfterComma ==
    ASSUME NEW S, Marks \subseteq S, NEW i, i # 1, NEW text \in Seq(S), NEW x \in Seq(S)
    PROVE  WithComma(S, i, text, x)
<1>1. PICK c \in Seq(S) : c = <<"comma">>
  BY Mark DEF Marks
<1>2. PICK a \in Seq(S) : a = Quoted(text)
  BY QuotedBegins
<1>3. PICK v \in Seq(S) : v = a \o x
  BY ConcatProperties
<1>4. Listed(i, text) = c \o a
  BY <1>1, <1>2 DEF Listed
<1>5. (c \o a) \o x = c \o (a \o x)
  BY ONLY ConcatAssociative
<1> QED
  BY <1>1, <1>2, <1>3, <1>4, <1>5 DEF WithComma

\* In one place of a list, it is clear what the argument says, whatever follows.
LEMMA ListedApart ==
    ASSUME NEW S, Marks \subseteq S, NEW i, NEW s \in Seq(S), NEW t \in Seq(S),
           NEW x \in Seq(S), NEW y \in Seq(S), Listed(i, s) \o x = Listed(i, t) \o y
    PROVE  s = t
<1>1. CASE i = 1
  BY <1>1, QuotedApart DEF Listed
<1>2. CASE i # 1
  <2>1. PICK c, v \in Seq(S) : /\ c = <<"comma">> /\ v = Quoted(s) \o x
                               /\ Listed(i, s) \o x = c \o v
    <3>1. WithComma(S, i, s, x)
      BY <1>2, AfterComma
    <3> QED
      BY <3>1, Zenon DEF WithComma
  <2>2. PICK w \in Seq(S) : w = Quoted(t) \o y /\ Listed(i, t) \o y = c \o w
    <3>1. WithComma(S, i, t, y)
      BY <1>2, AfterComma
    <3> QED
      BY <2>1, <3>1, Zenon DEF WithComma
  <2>3. v = w
    BY <2>1, <2>2, Cancel
  <2>4. Quoted(s) \o x = Quoted(t) \o y
    BY <2>1, <2>2, <2>3
  <2> QED
    BY <2>4, QuotedApart
<1> QED
  BY <1>1, <1>2

ListedParts(args) == [i \in DOMAIN args |-> Listed(i, args[i])]

\* A list has one part for each argument.
LEMMA ListedPartsType ==
    ASSUME NEW S, Marks \subseteq S, NEW args \in Seq(Seq(S))
    PROVE  /\ ListedParts(args) \in Seq(Seq(S)) /\ Len(ListedParts(args)) = Len(args)
           /\ \A i \in 1 .. Len(args) : ListedParts(args)[i] = Listed(i, args[i])
<1>1. DOMAIN args = 1 .. Len(args) /\ Len(args) \in Nat
  OBVIOUS
<1>2. \A i \in 1 .. Len(args) : Listed(i, args[i]) \in Seq(S)
  <2> TAKE i \in 1 .. Len(args)
  <2>1. PICK a \in Seq(S) : a = args[i]
    OBVIOUS
  <2> QED
    BY <2>1, ListedBegins
<1>3. ListedParts(args) \in [1 .. Len(args) -> Seq(S)]
  BY <1>1, <1>2 DEF ListedParts
<1>4. ListedParts(args) \in Seq(Seq(S)) /\ Len(ListedParts(args)) = Len(args)
  BY <1>1, <1>3
<1> QED
  BY <1>1, <1>4 DEF ListedParts

\* The part in one place is that of the argument there.
LEMMA ListedPart ==
    ASSUME NEW S, Marks \subseteq S, NEW args \in Seq(Seq(S)),
           NEW i \in 1 .. Len(ListedParts(args))
    PROVE  \E a \in Seq(S) : a = args[i] /\ ListedParts(args)[i] = Listed(i, a)
<1>1. Len(ListedParts(args)) = Len(args)
  BY ListedPartsType, Zenon
<1>2. i \in 1 .. Len(args)
  BY <1>1
<1>3. args[i] \in Seq(S)
  BY <1>2
<1>4. ListedParts(args)[i] = Listed(i, args[i])
  BY <1>2, ListedPartsType, Zenon
<1> QED
  BY <1>3, <1>4

\* The identity of a command is a text: the arguments in brackets.
InBrackets(S, args) ==
    \E o, body, c \in Seq(S) :
        /\ o = <<"open">> /\ c = <<"close">> /\ body = FlattenSeq(ListedParts(args))
        /\ CommandIdentity(args) = (o \o body) \o c

\* The identity of a command has this form.
LEMMA IdentityIsText ==
    ASSUME NEW S, Marks \subseteq S, NEW args \in Seq(Seq(S)) PROVE InBrackets(S, args)
<1>1. PICK o \in Seq(S) : o = <<"open">>
  BY Mark DEF Marks
<1>2. PICK c \in Seq(S) : c = <<"close">>
  BY Mark DEF Marks
<1>3. PICK body \in Seq(S) : body = FlattenSeq(ListedParts(args))
  BY ListedPartsType, FlattenedIsSeq
<1>4. CommandIdentity(args) = (o \o body) \o c
  BY <1>1, <1>2, <1>3 DEF CommandIdentity, ListedParts
<1> QED
  BY <1>1, <1>2, <1>3, <1>4 DEF InBrackets

\* It is a text over the same characters, and not empty.
LEMMA IdentityIsFull ==
    ASSUME NEW S, Marks \subseteq S, NEW args \in Seq(Seq(S))
    PROVE  CommandIdentity(args) \in Seq(S) /\ CommandIdentity(args) # <<>>
<1>1. PICK o, body, c \in Seq(S) : o = <<"open">> /\ CommandIdentity(args) = (o \o body) \o c
  <2>1. InBrackets(S, args)
    BY IdentityIsText
  <2> QED
    BY <2>1, Zenon DEF InBrackets
<1>2. (o \o body) \o c \in Seq(S) /\ Len((o \o body) \o c) = Len(o) + Len(body) + Len(c)
  OBVIOUS
<1>3. Len(o) = 1 /\ Len(body) \in Nat /\ Len(c) \in Nat
  BY <1>1
<1>4. Len((o \o body) \o c) # 0
  BY <1>2, <1>3
<1> QED
  BY <1>1, <1>2, <1>4

\* Commands with the same identity are the same: the arguments can be told apart
\* and counted from the text, whatever they are.
LEMMA IdentityIdentifies ==
    ASSUME NEW S, Marks \subseteq S, NEW args \in Seq(Seq(S)), NEW other \in Seq(Seq(S)),
           CommandIdentity(args) = CommandIdentity(other)
    PROVE  args = other
<1> DEFINE p == ListedParts(args)
           r == ListedParts(other)
<1>1. PICK o, b, c \in Seq(S) : /\ o = <<"open">> /\ c = <<"close">> /\ b = FlattenSeq(p)
                                /\ CommandIdentity(args) = (o \o b) \o c
  <2>1. InBrackets(S, args)
    BY IdentityIsText
  <2> QED
    BY <2>1, Zenon DEF InBrackets
<1>2. PICK d \in Seq(S) : /\ d = FlattenSeq(r)
                          /\ CommandIdentity(other) = (o \o d) \o c
  <2>1. InBrackets(S, other)
    BY IdentityIsText
  <2> QED
    BY <1>1, <2>1, Zenon DEF InBrackets
<1>3. /\ p \in Seq(Seq(S)) /\ Len(p) = Len(args)
      /\ r \in Seq(Seq(S)) /\ Len(r) = Len(other)
  BY ListedPartsType, Zenon
<1> HIDE DEF p, r
<1>4. b \o c = d \o c
  <2>1. (o \o b) \o c = o \o (b \o c)
    BY ONLY ConcatAssociative
  <2>2. (o \o d) \o c = o \o (d \o c)
    BY ONLY ConcatAssociative
  <2>3. b \o c \in Seq(S) /\ d \o c \in Seq(S)
    BY ConcatProperties
  <2>4. o \o (b \o c) = o \o (d \o c)
    BY <1>1, <1>2, <2>1, <2>2
  <2> QED
    BY <2>3, <2>4, Cancel
<1>5. \A i \in (1 .. Len(p)) \cap (1 .. Len(r)) : \A u, v \in Seq(S) :
         p[i] \o u = r[i] \o v => p[i] = r[i] /\ args[i] = other[i]
  <2> TAKE i \in (1 .. Len(p)) \cap (1 .. Len(r))
  <2> TAKE u, v \in Seq(S)
  <2>1. PICK a \in Seq(S) : a = args[i] /\ p[i] = Listed(i, a)
    BY ListedPart DEF p
  <2>2. PICK e \in Seq(S) : e = other[i] /\ r[i] = Listed(i, e)
    BY ListedPart DEF r
  <2> QED
    BY <2>1, <2>2, ListedApart
<1>6. ASSUME NEW args2 \in Seq(Seq(S)) PROVE NeverBegins(S, ListedParts(args2), c)
  <2> SUFFICES ASSUME NEW i \in 1 .. Len(ListedParts(args2)), NEW u \in Seq(S)
               PROVE  ListedParts(args2)[i] \o u # c
    BY DEF NeverBegins
  <2>1. PICK a \in Seq(S) : ListedParts(args2)[i] = Listed(i, a)
    BY ListedPart
  <2>2. (Listed(i, a) \o u)[1] \in {"quote", "comma"}
    BY ListedBegins
  <2>3. c[1] = "close"
    BY <1>1
  <2> QED
    BY <2>1, <2>2, <2>3
<1>7. p = r
  <2>1. ApartInPlace(S, p, r)
    BY <1>5 DEF ApartInPlace
  <2>2. NeverBegins(S, p, c) /\ NeverBegins(S, r, c)
    BY <1>6 DEF p, r
  <2>3. FlattenSeq(p) \o c = FlattenSeq(r) \o c
    BY <1>1, <1>2, <1>4
  <2> QED
    BY <1>3, <2>1, <2>2, <2>3, Decoding
<1>8. Len(args) = Len(other)
  BY <1>3, <1>7
<1>9. \A i \in 1 .. Len(args) : args[i] = other[i]
  <2> TAKE i \in 1 .. Len(args)
  <2>1. p[i] \o c = r[i] \o c /\ i \in (1 .. Len(p)) \cap (1 .. Len(r))
    BY <1>3, <1>7
  <2> QED
    BY <1>5, <2>1
<1> QED
  BY <1>8, <1>9, SeqEqual

-----------------------------------------------------------------------------
(* What payloads tell. *)

\* A payload tells the parts it was made of.
LEMMA TextsEqual == ASSUME NEW s, NEW t, Text(s) = Text(t) PROVE s = t
BY DEF Text

\* Objects are equal only with equal fields.
LEMMA ObjectsEqual == ASSUME NEW f, NEW g, Object(f) = Object(g) PROVE f = g
BY DEF Object

\* The texts of a function tell the function.
LEMMA TextFunctionsEqual ==
    ASSUME NEW f, NEW g, IsFunction(f), IsFunction(g),
           [k \in DOMAIN f |-> Text(f[k])] = [k \in DOMAIN g |-> Text(g[k])]
    PROVE  f = g
<1>1. DOMAIN f = DOMAIN g
  OBVIOUS
<1>2. \A k \in DOMAIN f : Text(f[k]) = Text(g[k])
  BY <1>1
<1>3. \A k \in DOMAIN f : f[k] = g[k]
  BY <1>2, TextsEqual
<1>4. [k \in DOMAIN f |-> f[k]] = [k \in DOMAIN g |-> g[k]]
  BY <1>1, <1>3
<1> QED
  BY <1>4, Zenon DEF IsFunction

\* An array of texts tells the texts, in their order.
LEMMA ArraysOfTextsEqual ==
    ASSUME NEW f, NEW g, IsFunction(f), IsFunction(g),
           Array([k \in DOMAIN f |-> Text(f[k])]) = Array([k \in DOMAIN g |-> Text(g[k])])
    PROVE  f = g
<1>1. [k \in DOMAIN f |-> Text(f[k])] = [k \in DOMAIN g |-> Text(g[k])]
  BY DEF Array
<1> QED
  BY <1>1, TextFunctionsEqual

\* The environment of a run, and the use of the model, in the form of WellFormed.
IsEnvironment(v) ==
    /\ v = [python |-> v.python, uv_lock_sha256 |-> v.uv_lock_sha256,
            tool_versions |-> v.tool_versions]
    /\ IsFunction(v.tool_versions)

\* The payload of an environment tells the environment, its tools included.
LEMMA EnvironmentsEqual ==
    ASSUME NEW v, NEW w, IsEnvironment(v), IsEnvironment(w),
           EnvironmentPayload(v) = EnvironmentPayload(w)
    PROVE  v = w
<1> DEFINE f == [k \in DOMAIN v.tool_versions |-> Text(v.tool_versions[k])]
           g == [k \in DOMAIN w.tool_versions |-> Text(w.tool_versions[k])]
           a == [python |-> Text(v.python), uv_lock_sha256 |-> Text(v.uv_lock_sha256),
                 tool_versions |-> Object(f)]
           b == [python |-> Text(w.python), uv_lock_sha256 |-> Text(w.uv_lock_sha256),
                 tool_versions |-> Object(g)]
<1>1. a = b
  <2> HIDE DEF f, g
  <2>1. Object(a) = Object(b)
    BY DEF EnvironmentPayload, f, g
  <2> HIDE DEF a, b
  <2> QED
    BY <2>1, ObjectsEqual
<1>2. Text(v.python) = Text(w.python) /\ Text(v.uv_lock_sha256) = Text(w.uv_lock_sha256)
      /\ Object(f) = Object(g)
  <2> HIDE DEF f, g
  <2>1. a.python = b.python /\ a.uv_lock_sha256 = b.uv_lock_sha256
        /\ a.tool_versions = b.tool_versions
    BY <1>1
  <2> QED
    BY <2>1
<1>3. v.python = w.python /\ v.uv_lock_sha256 = w.uv_lock_sha256
  BY <1>2, TextsEqual
<1>4. v.tool_versions = w.tool_versions
  <2>1. f = g
    <3> HIDE DEF f, g
    <3> QED
      BY <1>2, ObjectsEqual
  <2> QED
    BY <2>1, TextFunctionsEqual DEF IsEnvironment
<1> QED
  BY <1>3, <1>4, Zenon DEF IsEnvironment

IsUsage(u) ==
    u = [model |-> u.model, provider |-> u.provider, input |-> u.input,
         output |-> u.output, cost |-> u.cost]

\* The payload of the counted tokens tells both numbers.
LEMMA TokensEqual ==
    ASSUME NEW i, NEW j, NEW m, NEW n,
           Object([input |-> Number(i), output |-> Number(j)])
             = Object([input |-> Number(m), output |-> Number(n)])
    PROVE  i = m /\ j = n
<1>1. [input |-> Number(i), output |-> Number(j)] = [input |-> Number(m), output |-> Number(n)]
  BY ObjectsEqual
<1>2. Number(i) = Number(m) /\ Number(j) = Number(n)
  BY <1>1
<1> QED
  BY <1>2 DEF Number

\* The fields of the object are those of one record or of another one; a record
\* without the cost is no record with it.
LEMMA UsagesEqual ==
    ASSUME NEW u, NEW w, IsUsage(u), IsUsage(w), UsagePayload(u) = UsagePayload(w)
    PROVE  u = w
<1> DEFINE Tokens(v) == Object([input |-> Number(v.input), output |-> Number(v.output)])
           Less(v) == [model |-> Text(v.model), provider |-> Text(v.provider),
                       tokens |-> Tokens(v)]
           More(v) == [model |-> Text(v.model), provider |-> Text(v.provider),
                       tokens |-> Tokens(v), estimated_cost_usd |-> v.cost]
           Payload(v) == IF v.cost = None THEN Less(v) ELSE More(v)
<1>1. Object(Payload(u)) = Object(Payload(w))
  BY DEF UsagePayload
<1> HIDE DEF Tokens
<1>2. Payload(u) = Payload(w)
  <2> HIDE DEF Payload
  <2> QED
    BY <1>1, ObjectsEqual
<1>3. \A v : /\ "estimated_cost_usd" \notin DOMAIN Less(v)
             /\ "estimated_cost_usd" \in DOMAIN More(v)
  OBVIOUS
<1>4. (u.cost = None) = (w.cost = None)
  <2> HIDE DEF Less, More
  <2> QED
    BY <1>2, <1>3
<1>5. u.cost = w.cost
  <2>1. CASE u.cost = None
    BY <1>4, <2>1
  <2>2. CASE u.cost # None
    <3>1. More(u) = More(w)
      BY <1>2, <1>4, <2>2
    <3>2. More(u).estimated_cost_usd = More(w).estimated_cost_usd
      BY <3>1
    <3> QED
      BY <3>2
  <2> QED
    BY <2>1, <2>2
<1>6. Text(u.model) = Text(w.model) /\ Text(u.provider) = Text(w.provider) /\ Tokens(u) = Tokens(w)
  <2>1. Payload(u).model = Payload(w).model /\ Payload(u).provider = Payload(w).provider
        /\ Payload(u).tokens = Payload(w).tokens
    BY <1>2
  <2>2. \A v : Payload(v).model = Text(v.model) /\ Payload(v).provider = Text(v.provider)
               /\ Payload(v).tokens = Tokens(v)
    OBVIOUS
  <2> HIDE DEF Payload
  <2> QED
    BY <2>1, <2>2
<1>7. u.model = w.model /\ u.provider = w.provider
  BY <1>6, TextsEqual
<1>8. u.input = w.input /\ u.output = w.output
  BY <1>6, TokensEqual DEF Tokens
<1> QED
  BY <1>5, <1>7, <1>8, Zenon DEF IsUsage

\* What evidence is made of.
IsContext(c) ==
    /\ c = [f \in EvidenceFields \ {"commands"} |-> c[f]]
    /\ IsFunction(c.changed_files)
    /\ IsEnvironment(c.environment) /\ IsUsage(c.usage)

\* The facts of a run have this form.
LEMMA WellFormedIsContext == ASSUME NEW c, WellFormed(c) PROVE IsContext(c)
BY Zenon DEF WellFormed, IsContext, IsEnvironment, IsUsage

\* The fields of evidence are those facts, and the commands.
LEMMA EvidenceFieldsOf ==
    ASSUME NEW c, NEW commands
    PROVE  LET e == EvidenceOf(c, commands)
           IN  /\ e.commands = commands
               /\ e.baseline_sha = c.baseline_sha /\ e.candidate_sha = c.candidate_sha
               /\ e.changed_files = c.changed_files
               /\ e.contract_id = c.contract_id /\ e.run_id = c.run_id
               /\ e.environment = c.environment /\ e.usage = c.usage
               /\ e.started_at = c.started_at /\ e.finished_at = c.finished_at
               /\ e.version = c.version
BY DEF EvidenceOf, EvidenceFields

IsCommandResult(r) ==
    r = [command |-> r.command, termination |-> r.termination, exit_code |-> r.exit_code,
         stdout_sha256 |-> r.stdout_sha256, stderr_sha256 |-> r.stderr_sha256,
         specification_sha256 |-> r.specification_sha256, duration_s |-> r.duration_s]

\* The payload of a command result tells it: no exit code is not the code zero.
LEMMA CommandPayloadsEqual ==
    ASSUME NEW r, NEW q, IsCommandResult(r), IsCommandResult(q),
           CommandPayload(r) = CommandPayload(q)
    PROVE  r = q
<1> DEFINE Code(x) == IF x.exit_code = None THEN Null ELSE Number(x.exit_code)
           Payload(x) ==
             [command |-> Text(x.command), duration_s |-> x.duration_s, exit_code |-> Code(x),
              specification_sha256 |-> Text(x.specification_sha256),
              stderr_sha256 |-> Text(x.stderr_sha256), stdout_sha256 |-> Text(x.stdout_sha256),
              termination |-> Name(x.termination)]
<1>1. Payload(r) = Payload(q)
  <2> HIDE DEF Payload
  <2>1. Object(Payload(r)) = Object(Payload(q))
    BY DEF CommandPayload, Payload
  <2> QED
    BY <2>1, ObjectsEqual
<1> HIDE DEF Code
<1>2. /\ Text(r.command) = Text(q.command) /\ r.duration_s = q.duration_s
      /\ Code(r) = Code(q)
      /\ Text(r.specification_sha256) = Text(q.specification_sha256)
      /\ Text(r.stderr_sha256) = Text(q.stderr_sha256)
      /\ Text(r.stdout_sha256) = Text(q.stdout_sha256)
      /\ Name(r.termination) = Name(q.termination)
  BY <1>1
<1>3. r.exit_code = q.exit_code
  BY <1>2 DEF Code, Null, Number
<1>4. r.termination = q.termination
  BY <1>2 DEF Name, Text
<1>5. /\ r.command = q.command /\ r.specification_sha256 = q.specification_sha256
      /\ r.stderr_sha256 = q.stderr_sha256 /\ r.stdout_sha256 = q.stdout_sha256
  BY <1>2, TextsEqual
<1> QED
  BY <1>2, <1>3, <1>4, <1>5, Zenon DEF IsCommandResult

AreCommandResults(p) == IsFunction(p) /\ \A i \in DOMAIN p : IsCommandResult(p[i])

\* An array of command payloads tells the command results, in their order.
LEMMA CommandListsEqual ==
    ASSUME NEW p, NEW q, AreCommandResults(p), AreCommandResults(q),
           Array([i \in DOMAIN p |-> CommandPayload(p[i])])
             = Array([i \in DOMAIN q |-> CommandPayload(q[i])])
    PROVE  p = q
<1>1. [i \in DOMAIN p |-> CommandPayload(p[i])] = [i \in DOMAIN q |-> CommandPayload(q[i])]
  BY DEF Array
<1>2. DOMAIN p = DOMAIN q
  BY <1>1
<1>3. \A i \in DOMAIN p : CommandPayload(p[i]) = CommandPayload(q[i])
  BY <1>1, <1>2
<1>4. \A i \in DOMAIN p : p[i] = q[i]
  BY <1>2, <1>3, CommandPayloadsEqual DEF AreCommandResults
<1>5. [i \in DOMAIN p |-> p[i]] = [i \in DOMAIN q |-> q[i]]
  BY <1>2, <1>4
<1> QED
  BY <1>5, Zenon DEF AreCommandResults, IsFunction

\* The bytes of serialize_evidence tell the evidence, with any number of commands:
\* every field of it, an unknown cost, an exit code that is not there, and how many
\* files were changed.
THEOREM SerializationIsInjective ==
    ASSUME NEW c, NEW d, IsContext(c), IsContext(d),
           NEW commands, NEW others, AreCommandResults(commands), AreCommandResults(others),
           SerializeEvidence(EvidenceOf(c, commands)) = SerializeEvidence(EvidenceOf(d, others))
    PROVE  c = d /\ commands = others
<1> DEFINE Files(e) == Array([i \in DOMAIN e.changed_files |-> Text(e.changed_files[i])])
           List(e) == Array([i \in DOMAIN e.commands |-> CommandPayload(e.commands[i])])
           Payload(e) ==
             [baseline_sha |-> Text(e.baseline_sha), candidate_sha |-> Text(e.candidate_sha),
              changed_files |-> Files(e), commands |-> List(e),
              contract_id |-> Text(e.contract_id),
              environment |-> EnvironmentPayload(e.environment),
              finished_at |-> Text(e.finished_at), run_id |-> Text(e.run_id),
              started_at |-> Text(e.started_at), usage |-> UsagePayload(e.usage),
              version |-> Text(e.version)]
           x == EvidenceOf(c, commands)
           y == EvidenceOf(d, others)
<1>1. Dump(Object(Payload(x))) = Dump(Object(Payload(y)))
  BY DEF SerializeEvidence
<1>2. Payload(x) = Payload(y)
  <2> HIDE DEF Payload
  <2>1. Object(Payload(x)) = Object(Payload(y))
    BY <1>1 DEF Dump, Bytes
  <2> QED
    BY <2>1, ObjectsEqual
<1> HIDE DEF Files, List
<1>3. \A e : LET p == Payload(e) IN
         /\ p.baseline_sha = Text(e.baseline_sha) /\ p.candidate_sha = Text(e.candidate_sha)
         /\ p.changed_files = Files(e) /\ p.commands = List(e) /\ p.contract_id = Text(e.contract_id)
         /\ p.environment = EnvironmentPayload(e.environment)
         /\ p.finished_at = Text(e.finished_at) /\ p.run_id = Text(e.run_id)
         /\ p.started_at = Text(e.started_at) /\ p.usage = UsagePayload(e.usage)
         /\ p.version = Text(e.version)
  OBVIOUS
<1> HIDE DEF Payload
<1>4. /\ Text(c.baseline_sha) = Text(d.baseline_sha)
      /\ Text(c.candidate_sha) = Text(d.candidate_sha)
      /\ Text(c.contract_id) = Text(d.contract_id) /\ Text(c.run_id) = Text(d.run_id)
      /\ Text(c.started_at) = Text(d.started_at) /\ Text(c.finished_at) = Text(d.finished_at)
      /\ Text(c.version) = Text(d.version)
  <2> HIDE DEF x, y
  <2>1. /\ Text(x.baseline_sha) = Text(y.baseline_sha)
        /\ Text(x.candidate_sha) = Text(y.candidate_sha)
        /\ Text(x.contract_id) = Text(y.contract_id) /\ Text(x.run_id) = Text(y.run_id)
        /\ Text(x.started_at) = Text(y.started_at) /\ Text(x.finished_at) = Text(y.finished_at)
        /\ Text(x.version) = Text(y.version)
    BY <1>2, <1>3
  <2> QED
    BY <2>1, EvidenceFieldsOf DEF x, y
<1>5. /\ c.baseline_sha = d.baseline_sha /\ c.candidate_sha = d.candidate_sha
      /\ c.contract_id = d.contract_id /\ c.run_id = d.run_id
      /\ c.started_at = d.started_at /\ c.finished_at = d.finished_at
      /\ c.version = d.version
  BY <1>4, TextsEqual
<1>6. c.changed_files = d.changed_files
  <2>1. Files(x) = Files(y)
    BY <1>2, <1>3
  <2>2. x.changed_files = c.changed_files /\ y.changed_files = d.changed_files
    BY EvidenceFieldsOf
  <2> QED
    BY <2>1, <2>2, ArraysOfTextsEqual DEF Files, IsContext
<1>7. c.environment = d.environment
  <2>1. EnvironmentPayload(x.environment) = EnvironmentPayload(y.environment)
    BY <1>2, <1>3
  <2>2. x.environment = c.environment /\ y.environment = d.environment
    BY EvidenceFieldsOf
  <2> QED
    BY <2>1, <2>2, EnvironmentsEqual DEF IsContext
<1>8. c.usage = d.usage
  <2>1. UsagePayload(x.usage) = UsagePayload(y.usage)
    BY <1>2, <1>3
  <2>2. x.usage = c.usage /\ y.usage = d.usage
    BY EvidenceFieldsOf
  <2> QED
    BY <2>1, <2>2, UsagesEqual DEF IsContext
<1>9. \A f \in EvidenceFields \ {"commands"} : c[f] = d[f]
  BY <1>5, <1>6, <1>7, <1>8 DEF EvidenceFields
<1>10. [f \in EvidenceFields \ {"commands"} |-> c[f]]
         = [f \in EvidenceFields \ {"commands"} |-> d[f]]
  BY <1>9
<1>11. c = d
  BY <1>10, Zenon DEF IsContext
<1>12. commands = others
  <2>1. List(x) = List(y)
    BY <1>2, <1>3
  <2>2. x.commands = commands /\ y.commands = others
    BY EvidenceFieldsOf
  <2> QED
    BY <2>1, <2>2, CommandListsEqual DEF List
<1> QED
  BY <1>11, <1>12

-----------------------------------------------------------------------------
(* From a process to its evidence: the inductive invariant. *)

\* A result is what the sandbox reported, coherent; it does not change any more.
ResultHolds ==
    result # None =>
        /\ pc = "done" /\ verdict \in Terminations
        /\ Returned =>
             \E code \in ExitCodes, from, to \in Readings :
                result = SandboxResult(code, from, to) /\ Coherent(result)

\* A command result is made of a result, and only refused for what is in it.
RecordHolds ==
    record # None =>
        /\ Returned
        /\ \E specification \in Specifications :
             record = IF BuildAccepts(result, specification)
                      THEN CommandResult(result, specification)
                      ELSE [refused |-> specification]

\* ... and evidence of a command result.
EvidenceHolds ==
    evidence # None =>
        /\ Recorded
        /\ \E context \in Contexts, commands \in {<<>>, <<record>>} :
             evidence = IF EvidenceAccepted(EvidenceOf(context, commands))
                        THEN [value |-> EvidenceOf(context, commands),
                              bytes |-> SerializeEvidence(EvidenceOf(context, commands))]
                        ELSE [refused |-> EvidenceOf(context, commands)]

RecordInv ==
    /\ CaptureInv
    /\ argv \in Commands
    /\ ResultHolds /\ RecordHolds /\ EvidenceHolds

-----------------------------------------------------------------------------
\* At first there is no result, no record and no evidence.
LEMMA RecordInitial == RecordInit => RecordInv
BY CaptureInit DEF RecordInit, RecordInv, ResultHolds, RecordHolds, EvidenceHolds

\* Once it has reported, the adapter does nothing any more.
LEMMA DoneIsDone == pc = "done" /\ Next => UNCHANGED <<pc, captured, verdict>>
<1> SUFFICES ASSUME pc = "done", Next PROVE UNCHANGED <<pc, captured, verdict>>
  OBVIOUS
<1>1. CASE Command
  BY <1>1 DEF Command, Fork, InnerExits, LeaderExits, KillTakesEffect, WriteTo, InnerCloses,
              adapter
<1>2. CASE Adapter
  BY <1>2 DEF Adapter, Spawn, EndOfStreams, TimeOut, Select, EndOfEvents, ReadEnd, ReadChunk,
              Reap, Terminate, Grace, AfterKill, Finish
<1>3. CASE CaptureFails
  BY <1>3 DEF CaptureFails
<1>4. CASE Deadline
  BY <1>4 DEF Deadline, adapter
<1> QED
  BY <1>1, <1>2, <1>3, <1>4 DEF Next

\* Every step preserves the invariant: the adapter is done when the executor makes a
\* result, each of result, record and evidence is made once, from the one before.
LEMMA RecordStep == RecordInv /\ [RecordNext]_everything => RecordInv'
<1> SUFFICES ASSUME RecordInv, [RecordNext]_everything PROVE RecordInv'
  OBVIOUS
<1>1. CASE Next /\ UNCHANGED recordVars
  <2>1. CaptureInv'
    BY <1>1, CaptureStep DEF RecordInv
  <2>2. UNCHANGED <<argv, result, record, evidence>>
    BY <1>1 DEF recordVars
  <2>3. ResultHolds'
    <3>1. CASE result = None
      BY <2>2, <3>1 DEF ResultHolds
    <3>2. CASE result # None
      <4>1. pc = "done" /\ verdict \in Terminations
        BY <3>2 DEF RecordInv, ResultHolds
      <4>2. UNCHANGED <<pc, captured, verdict>>
        BY <1>1, <4>1, DoneIsDone
      <4> QED
        BY <2>2, <4>1, <4>2
           DEF RecordInv, ResultHolds, Returned, Accepted, SandboxResult, Coherent
    <3> QED
      BY <3>1, <3>2
  <2>4. RecordHolds' /\ EvidenceHolds'
    BY <2>2 DEF RecordInv, RecordHolds, EvidenceHolds, Returned, Recorded, Accepted
  <2> QED
    BY <2>1, <2>2, <2>3, <2>4 DEF RecordInv
<1>2. CASE ReturnResult
  <2>1. /\ UNCHANGED <<vars, argv, record, evidence>> /\ result = None
        /\ pc = "done" /\ verdict \in Terminations
    BY <1>2 DEF ReturnResult
  <2>2. CaptureInv'
    BY <2>1, CaptureStep DEF RecordInv
  <2>3. record = None /\ evidence = None
    BY <2>1 DEF RecordInv, RecordHolds, EvidenceHolds, Returned, Recorded, Accepted
  <2>4. UNCHANGED <<pc, verdict, captured>>
    BY <2>1 DEF vars, adapter
  <2>5. PICK code \in ExitCodes, from \in Readings, to \in Readings :
           result' = IF Coherent(SandboxResult(code, from, to)) THEN SandboxResult(code, from, to)
                     ELSE [refused |-> "isolation_failure"]
    BY <1>2, Zenon DEF ReturnResult
  <2>6. ResultHolds'
    <3>1. CASE Coherent(SandboxResult(code, from, to))
      <4>1. result' = SandboxResult(code, from, to)
        BY <2>5, <3>1
      <4>2. Coherent(result')
        BY <3>1, <4>1
      <4> QED
        BY <2>1, <2>4, <4>1, <4>2 DEF ResultHolds, SandboxResult, Coherent
    <3>2. CASE ~Coherent(SandboxResult(code, from, to))
      <4>1. result' = [refused |-> "isolation_failure"]
        BY <2>5, <3>2
      <4>2. ~Returned'
        BY <4>1 DEF Returned, Accepted
      <4> QED
        BY <2>1, <2>4, <4>2 DEF ResultHolds
    <3> QED
      BY <3>1, <3>2
  <2> QED
    BY <2>1, <2>2, <2>3, <2>6 DEF RecordInv, RecordHolds, EvidenceHolds
<1>3. CASE BuildCommandResult
  <2>1. /\ UNCHANGED <<vars, argv, result, evidence>> /\ record = None /\ Returned
    BY <1>3 DEF BuildCommandResult
  <2>2. CaptureInv'
    BY <2>1, CaptureStep DEF RecordInv
  <2>3. evidence = None
    BY <2>1 DEF RecordInv, EvidenceHolds, Recorded, Accepted
  <2>4. UNCHANGED <<pc, verdict, captured>>
    BY <2>1 DEF vars, adapter
  <2>5. ResultHolds'
    BY <2>1, <2>4 DEF RecordInv, ResultHolds, Returned, Accepted, SandboxResult, Coherent
  <2>6. RecordHolds'
    BY <1>3, <2>1 DEF BuildCommandResult, RecordHolds, Returned, Accepted
  <2> QED
    BY <2>1, <2>2, <2>3, <2>5, <2>6 DEF RecordInv, EvidenceHolds
<1>4. CASE AssembleEvidence
  <2>1. /\ UNCHANGED <<vars, argv, result, record>> /\ Recorded
    BY <1>4 DEF AssembleEvidence
  <2>2. CaptureInv'
    BY <2>1, CaptureStep DEF RecordInv
  <2>3. UNCHANGED <<pc, verdict, captured>>
    BY <2>1 DEF vars, adapter
  <2>4. ResultHolds' /\ RecordHolds'
    BY <2>1, <2>3 DEF RecordInv, ResultHolds, RecordHolds, Returned, Accepted, SandboxResult,
                      Coherent
  <2>5. EvidenceHolds'
    BY <1>4, <2>1, Zenon DEF AssembleEvidence, EvidenceHolds, Recorded, Accepted
  <2> QED
    BY <2>1, <2>2, <2>4, <2>5 DEF RecordInv
<1>5. CASE UNCHANGED everything
  <2>1. UNCHANGED vars /\ UNCHANGED recordVars
    BY <1>5 DEF everything
  <2>2. CaptureInv'
    BY <2>1, CaptureStep DEF RecordInv
  <2> QED
    BY <2>1, <2>2 DEF vars, adapter, recordVars, RecordInv, ResultHolds, RecordHolds,
                      EvidenceHolds, Returned, Recorded, Accepted, SandboxResult, Coherent
<1> QED
  BY <1>1, <1>2, <1>3, <1>4, <1>5 DEF RecordNext

\* The invariant holds in every reachable state: what a result, a command result and
\* evidence are made of does not change any more.
THEOREM RecordInvariance == RecordSpec => []RecordInv
BY RecordInitial, RecordStep, PTL DEF RecordSpec

-----------------------------------------------------------------------------
(* What it gives. *)

\* A record is of a result, and a result of what happened.
RecordOf(specification) ==
    /\ record = CommandResult(result, specification) /\ BuildAccepts(result, specification)
ResultOf(code, from, to) ==
    /\ result = SandboxResult(code, from, to) /\ Coherent(result)

\* What a result is, unfolded.
LEMMA ReturnedHolds ==
    ASSUME RecordInv, Returned
    PROVE  /\ pc = "done" /\ verdict \in Terminations
           /\ \E code \in ExitCodes, from, to \in Readings : ResultOf(code, from, to)
BY Zenon DEF RecordInv, ResultHolds, Returned, Accepted, ResultOf

\* What a command result is, unfolded.
LEMMA RecordedHolds ==
    ASSUME RecordInv, Recorded
    PROVE  Returned /\ \E specification \in Specifications : RecordOf(specification)
<1>1. record # None /\ "refused" \notin DOMAIN record
  BY DEF Recorded, Accepted
<1>2. Returned
  BY <1>1 DEF RecordInv, RecordHolds
<1>3. PICK specification \in Specifications :
         record = IF BuildAccepts(result, specification)
                  THEN CommandResult(result, specification)
                  ELSE [refused |-> specification]
  BY <1>1, Zenon DEF RecordInv, RecordHolds
<1>4. BuildAccepts(result, specification)
  <2> SUFFICES ASSUME ~BuildAccepts(result, specification) PROVE FALSE
    OBVIOUS
  <2>1. record = [refused |-> specification]
    BY <1>3
  <2> QED
    BY <1>1, <2>1
<1> QED
  BY <1>2, <1>3, <1>4 DEF RecordOf

\* The fields of a result and of a command result.
LEMMA FieldsOfRecord ==
    ASSUME NEW code, NEW from, NEW to, NEW specification,
           ResultOf(code, from, to), RecordOf(specification)
    PROVE  /\ record.command = CommandIdentity(argv)
           /\ record.termination = CanonicalTermination[verdict]
           /\ record.exit_code = IF verdict = "exited" THEN code ELSE None
           /\ record.stdout_sha256 = Digest(captured["stdout"])
           /\ record.stderr_sha256 = Digest(captured["stderr"])
BY DEF ResultOf, RecordOf, SandboxResult, CommandResult

\* Every termination has a canonical name, and only an exit is called EXITED.
LEMMA CanonicalTerminations ==
    ASSUME NEW v \in Terminations
    PROVE  /\ CanonicalTermination[v] \in Range(CanonicalTermination)
           /\ CanonicalTermination[v] = "EXITED" <=> v = "exited"
<1>1. v \in DOMAIN CanonicalTermination
  BY DEF Terminations, CanonicalTermination
<1>2. CanonicalTermination[v] \in Range(CanonicalTermination)
  BY <1>1 DEF Range
<1>3. CanonicalTermination[v] = "EXITED" <=> v = "exited"
  BY DEF Terminations, CanonicalTermination
<1> QED
  BY <1>2, <1>3

\* The characters of texts and of JSON; no prover knows that a literal is a string.
Alphabet == STRING \cup Marks

\* A sequence is one over any set its elements are in.
LEMMA ElementsIn ==
    ASSUME NEW S, NEW T, NEW s \in Seq(T), \A i \in 1 .. Len(s) : s[i] \in S
    PROVE  s \in Seq(S)
<1>1. PICK n \in Nat : n = Len(s)
  BY LenProperties
<1>2. s \in [1 .. n -> T]
  BY <1>1, LenProperties
<1>3. s \in [1 .. n -> S]
  BY <1>1, <1>2
<1> QED
  BY <1>3, SeqDef

\* The arguments of a command are texts over the alphabet.
LEMMA InAlphabet ==
    ASSUME NEW args \in Seq(Seq(STRING)) PROVE args \in Seq(Seq(Alphabet))
<1>1. \A i \in 1 .. Len(args) : args[i] \in Seq(Alphabet)
  <2> TAKE i \in 1 .. Len(args)
  <2>1. PICK a \in Seq(STRING) : a = args[i]
    OBVIOUS
  <2>2. a \in Seq(Alphabet)
    BY SeqMonotonic DEF Alphabet
  <2> QED
    BY <2>1, <2>2
<1> QED
  BY <1>1, ElementsIn

\* No two commands have the same identity.
LEMMA IdentitiesOfCommands ==
    ASSUME NEW a \in Commands, NEW b \in Commands, CommandIdentity(a) = CommandIdentity(b)
    PROVE  a = b
<1>1. a \in Seq(Seq(STRING)) /\ b \in Seq(Seq(STRING))
  BY RecordAssumption
<1>2. Marks \subseteq Alphabet
  BY DEF Alphabet
<1>3. a \in Seq(Seq(Alphabet)) /\ b \in Seq(Seq(Alphabet))
  BY <1>1, InAlphabet
<1> QED
  BY <1>2, <1>3, IdentityIdentifies, Zenon

\* build_command_result records what happened: the digests are of what was captured,
\* an exit of all that was written, with its code, and the command is no other one,
\* for any set of commands, whatever characters their arguments have.
THEOREM RecordsTellWhatHappened == RecordSpec => []RecordTellsWhatHappened
<1>1. ASSUME RecordInv PROVE RecordTellsWhatHappened
  <2> SUFFICES ASSUME Recorded
               PROVE  /\ record.stdout_sha256 = Digest(captured["stdout"])
                      /\ record.stderr_sha256 = Digest(captured["stderr"])
                      /\ record.termination = "EXITED" => captured = written
                      /\ record.exit_code \in IF verdict = "exited" THEN ExitCodes ELSE {None}
                      /\ \A other \in Commands :
                            CommandIdentity(other) = record.command => other = argv
    BY Zenon DEF RecordTellsWhatHappened
  <2>1. PICK specification \in Specifications : Returned /\ RecordOf(specification)
    BY <1>1, RecordedHolds
  <2>2. PICK code \in ExitCodes, from \in Readings, to \in Readings : ResultOf(code, from, to)
    BY <1>1, <2>1, ReturnedHolds, Zenon
  <2>3. pc = "done" /\ verdict \in Terminations
    BY <1>1, <2>1, ReturnedHolds
  <2>4. /\ record.command = CommandIdentity(argv)
        /\ record.termination = CanonicalTermination[verdict]
        /\ record.exit_code = IF verdict = "exited" THEN code ELSE None
        /\ record.stdout_sha256 = Digest(captured["stdout"])
        /\ record.stderr_sha256 = Digest(captured["stderr"])
    BY <2>1, <2>2, FieldsOfRecord
  <2>5. record.termination = "EXITED" => captured = written
    <3> SUFFICES ASSUME record.termination = "EXITED" PROVE captured = written
      OBVIOUS
    <3>1. verdict = "exited"
      BY <2>3, <2>4, CanonicalTerminations
    <3> QED
      BY <1>1, <2>3, <3>1, ExitedFromInv DEF RecordInv, ExitedIsComplete
  <2>6. \A other \in Commands : CommandIdentity(other) = record.command => other = argv
    BY <1>1, <2>4, IdentitiesOfCommands DEF RecordInv
  <2> QED
    BY <2>4, <2>5, <2>6
<1> QED
  BY <1>1, RecordInvariance, PTL

-----------------------------------------------------------------------------
\* A command of arguments that UTF-8 can represent has such an identity.
LEMMA Utf8Identity ==
    ASSUME NEW args \in Seq(Seq(STRING)), \A i \in DOMAIN args : Utf8(args[i])
    PROVE  FullText(CommandIdentity(args))
<1> DEFINE S == Alphabet \ {"surrogate"}
<1>1. \A i \in DOMAIN args : args[i] \in Seq(S)
  <2> TAKE i \in DOMAIN args
  <2>1. PICK a \in Seq(STRING) : a = args[i]
    OBVIOUS
  <2>2. \A k \in DOMAIN a : a[k] # "surrogate"
    BY <2>1 DEF Utf8, Range
  <2>3. \A k \in 1 .. Len(a) : a[k] \in S
    BY <2>2 DEF Alphabet
  <2>4. a \in Seq(S)
    BY <2>3, ElementsIn
  <2> QED
    BY <2>1, <2>4
<1>2. args \in Seq(Seq(S))
  <2> HIDE DEF S
  <2>1. DOMAIN args = 1 .. Len(args)
    OBVIOUS
  <2> QED
    BY <1>1, <2>1, ElementsIn
<1>3. Marks \subseteq S
  BY DEF Marks, Alphabet
<1> HIDE DEF S
<1>4. PICK t \in Seq(S) : t = CommandIdentity(args) /\ t # <<>>
  BY <1>2, <1>3, IdentityIsFull
<1>5. "surrogate" \notin Range(t)
  <2>1. \A k \in DOMAIN t : t[k] \in S
    OBVIOUS
  <2> QED
    BY <2>1 DEF Range, S
<1> QED
  BY <1>4, <1>5 DEF FullText, Utf8

\* build_command_result only refuses a specification that is not there, and
\* arguments that are not UTF-8.
LEMMA BuildRefuses ==
    ASSUME RecordInv, Returned, NEW specification, specification # <<>>,
           \A i \in DOMAIN argv : Utf8(argv[i])
    PROVE  BuildAccepts(result, specification)
<1>1. PICK code \in ExitCodes, from \in Readings, to \in Readings : ResultOf(code, from, to)
  BY ReturnedHolds, Zenon
<1>2. verdict \in Terminations
  BY ReturnedHolds
<1>3. /\ result.argv = argv /\ result.termination = verdict
      /\ result.exit_code = IF verdict = "exited" THEN code ELSE None
      /\ result.started_at = from /\ result.finished_at = to
      /\ from <= to
  BY <1>1 DEF ResultOf, SandboxResult, Coherent
<1> DEFINE c == CommandResult(result, specification)
<1>4. /\ c.command = CommandIdentity(argv) /\ c.termination = CanonicalTermination[verdict]
      /\ c.exit_code = result.exit_code /\ c.duration_s = Float(to - from)
      /\ c.stdout_sha256 = Digest(result.stdout) /\ c.stderr_sha256 = Digest(result.stderr)
      /\ c.specification_sha256 = Digest(specification)
  BY <1>3 DEF CommandResult
<1> HIDE DEF c
<1>5. c.termination \in Range(CanonicalTermination)
  BY <1>2, <1>4, CanonicalTerminations
<1>6. (c.exit_code # None) = (c.termination = "EXITED")
  <2>1. code # None
    BY <1>1, RecordAssumption
  <2> QED
    BY <1>2, <1>3, <1>4, <2>1, CanonicalTerminations
<1>7. FullText(c.command)
  <2>1. argv \in Seq(Seq(STRING))
    BY RecordAssumption DEF RecordInv
  <2> QED
    BY <1>4, <2>1, Utf8Identity
<1>8. IsNumber(c.duration_s)
  <2>1. to - from >= 0
    BY <1>1, <1>3, RecordAssumption
  <2> QED
    BY <1>4, <2>1 DEF IsNumber, Kind, Float
<1>9. IsDigest(c.stdout_sha256) /\ IsDigest(c.stderr_sha256) /\ IsDigest(c.specification_sha256)
  BY <1>4 DEF IsDigest, Digest
<1> QED
  BY <1>5, <1>6, <1>7, <1>8, <1>9 DEF BuildAccepts, CommandAccepted, c

\* serialize_evidence only refuses what WhatHappenedCanBeRecorded names.
LEMMA SerializeRefuses ==
    ASSUME NEW c \in Contexts, NEW commands,
           commands # <<>>, \A i \in DOMAIN commands : CommandAccepted(commands[i]),
           c.candidate_sha[1] <= 40, c.baseline_sha[1] <= 40,
           \A i \in DOMAIN c.changed_files : Utf8(c.changed_files[i]),
           \A tool \in DOMAIN c.environment.tool_versions :
              FullText(c.environment.tool_versions[tool])
    PROVE  EvidenceAccepted(EvidenceOf(c, commands))
<1>1. WellFormed(c)
  BY RecordAssumption
<1>2. IsObjectId(c.baseline_sha) /\ IsObjectId(c.candidate_sha)
  <2>1. \A sha \in {c.baseline_sha, c.candidate_sha} : sha[1] \in Int /\ sha[1] >= 7
    BY <1>1, Zenon DEF WellFormed
  <2>2. \A n \in Int : 7 <= n /\ n <= 40 => n \in 7 .. 40
    OBVIOUS
  <2>3. c.baseline_sha[1] \in 7 .. 40
    BY <2>1, <2>2
  <2>4. c.candidate_sha[1] \in 7 .. 40
    BY <2>1, <2>2
  <2> QED
    BY <2>3, <2>4, Zenon DEF IsObjectId
<1>3. EnvironmentAccepted(c.environment) /\ UsageAccepted(c.usage)
  BY <1>1, Zenon DEF WellFormed, EnvironmentAccepted
<1>4. /\ FullText(c.contract_id) /\ FullText(c.run_id)
      /\ IsTimestamp(c.started_at) /\ IsTimestamp(c.finished_at) /\ Len(c.version) = 3
  BY <1>1, Zenon DEF WellFormed
<1> DEFINE e == EvidenceOf(c, commands)
<1>5. /\ e.commands = commands
      /\ e.baseline_sha = c.baseline_sha /\ e.candidate_sha = c.candidate_sha
      /\ e.changed_files = c.changed_files
      /\ e.contract_id = c.contract_id /\ e.run_id = c.run_id
      /\ e.environment = c.environment /\ e.usage = c.usage
      /\ e.started_at = c.started_at /\ e.finished_at = c.finished_at
      /\ e.version = c.version
  BY EvidenceFieldsOf
<1> HIDE DEF e
<1> QED
  BY <1>2, <1>3, <1>4, <1>5 DEF EvidenceAccepted, e

\* What evidence is, unfolded.
LEMMA EvidenceOfRecord ==
    ASSUME RecordInv, evidence # None
    PROVE  /\ Recorded
           /\ \E context \in Contexts, commands \in {<<>>, <<record>>} :
                IF EvidenceAccepted(EvidenceOf(context, commands))
                THEN /\ Accepted(evidence)
                     /\ evidence.value = EvidenceOf(context, commands)
                     /\ evidence.bytes = SerializeEvidence(EvidenceOf(context, commands))
                ELSE /\ ~Accepted(evidence)
                     /\ evidence.refused = EvidenceOf(context, commands)
<1>1. Recorded
  BY DEF RecordInv, EvidenceHolds
<1>2. PICK context \in Contexts, commands \in {<<>>, <<record>>} :
         evidence = IF EvidenceAccepted(EvidenceOf(context, commands))
                    THEN [value |-> EvidenceOf(context, commands),
                          bytes |-> SerializeEvidence(EvidenceOf(context, commands))]
                    ELSE [refused |-> EvidenceOf(context, commands)]
  BY Zenon DEF RecordInv, EvidenceHolds
<1>3. PICK e : e = EvidenceOf(context, commands)
  OBVIOUS
<1>4. CASE EvidenceAccepted(e)
  <2>1. evidence = [value |-> e, bytes |-> SerializeEvidence(e)]
    BY <1>2, <1>3, <1>4
  <2>2. Accepted(evidence) /\ evidence.value = e /\ evidence.bytes = SerializeEvidence(e)
    BY <2>1 DEF Accepted
  <2> QED
    BY <1>1, <1>3, <1>4, <2>2
<1>5. CASE ~EvidenceAccepted(e)
  <2>1. evidence = [refused |-> e]
    BY <1>2, <1>3, <1>5
  <2>2. ~Accepted(evidence) /\ evidence.refused = e
    BY <2>1 DEF Accepted
  <2> QED
    BY <1>1, <1>3, <1>5, <2>2
<1> QED
  BY <1>4, <1>5

\* The commands of an evidence value are command results.
LEMMA RecordIsResult ==
    ASSUME RecordInv, evidence # None PROVE AreCommandResults(<<record>>)
<1>1. PICK specification \in Specifications : RecordOf(specification)
  BY EvidenceOfRecord, RecordedHolds
<1>2. IsCommandResult(record)
  BY <1>1 DEF RecordOf, CommandResult, IsCommandResult
<1>3. IsFunction(<<record>>) /\ DOMAIN <<record>> = {1} /\ <<record>>[1] = record
  BY DEF IsFunction
<1> QED
  BY <1>2, <1>3 DEF AreCommandResults

\* The command of an evidence value passes the checks a second time.
LEMMA RecordAccepted ==
    ASSUME RecordInv, Recorded PROVE \A i \in DOMAIN <<record>> : CommandAccepted(<<record>>[i])
<1>1. CommandAccepted(record)
  BY RecordedHolds DEF RecordOf, BuildAccepts
<1> QED
  BY <1>1

\* What was executed can be recorded: build_command_result and serialize_evidence
\* refuse it for the named reasons only, whatever the clocks and the facts were.
THEOREM WhatHappenedIsRecorded == RecordSpec => []WhatHappenedCanBeRecorded
<1>1. ASSUME RecordInv, record # None, ~Recorded
      PROVE  record.refused = <<>> \/ \E i \in DOMAIN argv : ~Utf8(argv[i])
  <2>1. PICK specification \in Specifications :
           record = IF BuildAccepts(result, specification)
                    THEN CommandResult(result, specification)
                    ELSE [refused |-> specification]
    BY <1>1, Zenon DEF RecordInv, RecordHolds
  <2>2. CASE BuildAccepts(result, specification)
    <3>1. record = CommandResult(result, specification)
      BY <2>1, <2>2
    <3>2. "refused" \notin DOMAIN record
      BY <3>1 DEF CommandResult
    <3> QED
      BY <1>1, <3>2 DEF Recorded, Accepted
  <2>3. CASE ~BuildAccepts(result, specification)
    <3>1. record.refused = specification
      BY <2>1, <2>3
    <3>2. Returned
      BY <1>1 DEF RecordInv, RecordHolds
    <3> QED
      BY <1>1, <2>3, <3>1, <3>2, BuildRefuses
  <2> QED
    BY <2>2, <2>3
<1>2. ASSUME RecordInv, evidence # None, ~Accepted(evidence)
      PROVE  LET e == evidence.refused
             IN  \/ e.commands = <<>>
                 \/ e.candidate_sha[1] > 40 \/ e.baseline_sha[1] > 40
                 \/ \E i \in DOMAIN e.changed_files : ~Utf8(e.changed_files[i])
                 \/ \E tool \in DOMAIN e.environment.tool_versions :
                       ~FullText(e.environment.tool_versions[tool])
  <2>1. PICK context \in Contexts, commands \in {<<>>, <<record>>} :
           /\ ~EvidenceAccepted(EvidenceOf(context, commands))
           /\ evidence.refused = EvidenceOf(context, commands)
    BY <1>2, EvidenceOfRecord
  <2>2. commands # <<>> => \A i \in DOMAIN commands : CommandAccepted(commands[i])
    BY <1>2, EvidenceOfRecord, RecordAccepted
  <2>3. \/ commands = <<>>
        \/ ~(context.candidate_sha[1] <= 40) \/ ~(context.baseline_sha[1] <= 40)
        \/ \E i \in DOMAIN context.changed_files : ~Utf8(context.changed_files[i])
        \/ \E tool \in DOMAIN context.environment.tool_versions :
              ~FullText(context.environment.tool_versions[tool])
    BY <2>1, <2>2, SerializeRefuses
  <2>4. context.candidate_sha[1] \in Int /\ context.baseline_sha[1] \in Int
    BY RecordAssumption DEF WellFormed
  <2> DEFINE e == EvidenceOf(context, commands)
  <2>5. /\ e.commands = commands
        /\ e.candidate_sha = context.candidate_sha /\ e.baseline_sha = context.baseline_sha
        /\ e.changed_files = context.changed_files /\ e.environment = context.environment
    BY EvidenceFieldsOf
  <2> HIDE DEF e
  <2>6. evidence.refused = e
    BY <2>1 DEF e
  <2>7. ~(context.candidate_sha[1] <= 40) => e.candidate_sha[1] > 40
    BY <2>4, <2>5
  <2>8. ~(context.baseline_sha[1] <= 40) => e.baseline_sha[1] > 40
    BY <2>4, <2>5
  <2> QED
    BY <2>3, <2>5, <2>6, <2>7, <2>8
<1>3. RecordInv => WhatHappenedCanBeRecorded
  BY <1>1, <1>2 DEF WhatHappenedCanBeRecorded
<1> QED
  BY <1>3, RecordInvariance, PTL

\* The bytes of serialize_evidence are those of no other facts with the command.
THEOREM EvidenceIsIdentified == RecordSpec => []BytesIdentifyEvidence
<1>1. ASSUME RecordInv, Accepted(evidence), NEW other \in Contexts,
             SerializeEvidence(EvidenceOf(other, <<record>>)) = evidence.bytes
      PROVE  EvidenceOf(other, <<record>>) = evidence.value
  <2>1. PICK context \in Contexts, commands \in {<<>>, <<record>>} :
           /\ EvidenceAccepted(EvidenceOf(context, commands))
           /\ evidence.value = EvidenceOf(context, commands)
           /\ evidence.bytes = SerializeEvidence(EvidenceOf(context, commands))
    BY <1>1, EvidenceOfRecord DEF Accepted
  <2>2. commands = <<record>>
    <3>1. EvidenceOf(context, commands).commands # <<>>
      BY <2>1 DEF EvidenceAccepted
    <3> QED
      BY <2>1, <3>1, EvidenceFieldsOf
  <2>3. IsContext(context) /\ IsContext(other)
    BY RecordAssumption, WellFormedIsContext
  <2>4. AreCommandResults(<<record>>)
    BY <1>1, RecordIsResult DEF Accepted
  <2>5. other = context
    BY <1>1, <2>1, <2>2, <2>3, <2>4, SerializationIsInjective
  <2> QED
    BY <2>1, <2>2, <2>5
<1>2. RecordInv => BytesIdentifyEvidence
  BY <1>1, Zenon DEF BytesIdentifyEvidence
<1> QED
  BY <1>2, RecordInvariance, PTL

\* The capture loops are not disturbed.
THEOREM RecordKeepsCapture == RecordSpec => Spec
<1>1. RecordInit => Init
  BY DEF RecordInit
<1>2. [RecordNext]_everything => [Next]_vars
  BY DEF RecordNext, ReturnResult, BuildCommandResult, AssembleEvidence, everything
<1> QED
  BY <1>1, <1>2, PTL DEF RecordSpec, Spec
=============================================================================
