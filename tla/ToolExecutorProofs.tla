------------------------- MODULE ToolExecutorProofs -------------------------
(* Theorems about ToolExecutor, for every value of its constants.          *)
EXTENDS ToolExecutor, SequenceTheorems, FiniteSetTheorems, TLAPS

-----------------------------------------------------------------------------
(* Lemmas about the operators the actions are built from.                  *)

\* The calls are finitely many, and so is every set of them.
LEMMA CallsFinite == ASSUME NEW S \in SUBSET Calls
                     PROVE  IsFiniteSet(S) /\ Cardinality(S) \in Nat
<1>1. IsFiniteSet(Calls)
  BY ExecutorAssumption, FS_Interval DEF Calls
<1>2. QED
  BY <1>1, FS_Subset, FS_CardinalityType

\* Setting the current idle event keeps the list of events well formed.
LEMMA SetIdleType ==
  ASSUME idleEvents \in Seq(BOOLEAN), idleEvents # <<>>
  PROVE  LET e == [idleEvents EXCEPT ![Len(idleEvents)] = TRUE]
         IN  e \in Seq(BOOLEAN) /\ e # <<>> /\ Len(e) = Len(idleEvents)
<1>1. Len(idleEvents) \in 1 .. Len(idleEvents)
  BY EmptySeq, LenProperties
<1>2. QED
  BY <1>1, ExceptSeq, EmptySeq

\* A new idle event is appended, or the current one is kept.
LEMMA BusyType ==
  ASSUME idleEvents \in Seq(BOOLEAN), idleEvents # <<>>
  PROVE  /\ BusyIdleEvents \in Seq(BOOLEAN) /\ BusyIdleEvents # <<>>
         /\ Len(BusyIdleEvents) >= Len(idleEvents)
<1>1. Len(idleEvents) \in Nat
  BY LenProperties
<1>2. Append(idleEvents, FALSE) \in Seq(BOOLEAN)
  BY AppendProperties
<1>3. Len(Append(idleEvents, FALSE)) = Len(idleEvents) + 1
  OBVIOUS
<1>4. CASE idleEvents[Len(idleEvents)]
  <2>1. BusyIdleEvents = Append(idleEvents, FALSE)
    BY <1>4 DEF BusyIdleEvents
  <2>2. Append(idleEvents, FALSE) # <<>>
    <3>1. FALSE \in BOOLEAN
      OBVIOUS
    <3>2. QED
      BY <3>1, AppendProperties, Zenon
  <2>3. Len(Append(idleEvents, FALSE)) >= Len(idleEvents)
    BY <1>1, <1>3
  <2>4. QED
    BY <1>2, <2>1, <2>2, <2>3
<1>5. CASE ~idleEvents[Len(idleEvents)]
  BY <1>1, <1>5 DEF BusyIdleEvents
<1>6. QED
  BY <1>4, <1>5

\* Filling the holes appends calls to the completions.
LEMMA BackfillType ==
  ASSUME TypeOK, BackfillResults
  PROVE  /\ results' \in [Calls -> Results \cup {NoResult}]
         /\ completions' \in Seq(Calls)
<1>1. Missing \subseteq Calls
  BY ExecutorAssumption, LenProperties DEF Missing, Calls, TypeOK
<1>2. Cardinality(Missing) \in Nat
  BY <1>1, CallsFinite
<1>3. ASSUME NEW s \in Ascending(Missing)
      PROVE  s \in Seq(Calls)
  <2>1. s \in [1 .. Cardinality(Missing) -> Calls]
    BY <1>1 DEF Ascending
  <2>2. QED
    BY <2>1, <1>2, SeqDef
<1>4. completions' \in Seq(Calls)
  <2>1. CASE channelClosed
    BY <2>1 DEF BackfillResults, TypeOK
  <2>2. CASE ~channelClosed
    <3>1. PICK s \in Ascending(Missing) : completions' = completions \o s
      BY <2>2 DEF BackfillResults
    <3>2. s \in Seq(Calls) /\ completions \in Seq(Calls)
      BY <1>3 DEF TypeOK
    <3>3. QED
      BY <3>1, <3>2, ConcatProperties
  <2>3. QED
    BY <2>1, <2>2
<1>5. results' \in [Calls -> Results \cup {NoResult}]
  <2>1. FallbackReason \in Results
    BY DEF FallbackReason, Results
  <2>2. QED
    BY <2>1 DEF BackfillResults, TypeOK
<1>6. QED
  BY <1>4, <1>5

\* Recording one result.
LEMMA RecordType ==
  ASSUME TypeOK, NEW i \in Calls, NEW r \in Results, RecordResult(i, r)
  PROVE  /\ results' \in [Calls -> Results \cup {NoResult}]
         /\ completions' \in Seq(Calls)
<1>1. results' \in [Calls -> Results \cup {NoResult}]
  BY DEF RecordResult, TypeOK
<1>2. Append(completions, i) \in Seq(Calls)
  BY AppendProperties DEF TypeOK
<1>3. completions' \in Seq(Calls)
  BY <1>2 DEF RecordResult, TypeOK
<1>4. QED
  BY <1>1, <1>3

\* The end of a task.
LEMMA TaskEndsType ==
  ASSUME TypeOK, TaskEnds
  PROVE  /\ pending' \in Nat
         /\ idleEvents' \in Seq(BOOLEAN) /\ idleEvents' # <<>>
         /\ Len(idleEvents') = Len(idleEvents)
<1>1. pending' \in Nat
  BY DEF TaskEnds, TypeOK
<1>2. CASE pending <= 1
  <2>1. idleEvents' = [idleEvents EXCEPT ![Len(idleEvents)] = TRUE]
    BY <1>2 DEF TaskEnds, SetIdle
  <2>2. QED
    BY <1>1, <2>1, SetIdleType DEF TypeOK
<1>3. CASE ~(pending <= 1)
  BY <1>1, <1>3 DEF TaskEnds, TypeOK
<1>4. QED
  BY <1>2, <1>3

\* Taking a slot or joining a line.
LEMMA AcquireType ==
  ASSUME TypeOK, NEW i \in Calls, Acquire(i)
  PROVE  /\ phase' \in [Calls -> Phases]
         /\ free' \in [Lines -> Nat]
         /\ arrivals' \in Seq(Calls)
<1>1. LineOf(i) \in Lines
  BY DEF LineOf, Lines
<1>2. phase' \in [Calls -> Phases]
  BY DEF Acquire, TypeOK, Phases, Live
<1>3. free' \in [Lines -> Nat]
  BY <1>1 DEF Acquire, TypeOK, lineVars
<1>4. Append(arrivals, i) \in Seq(Calls)
  BY AppendProperties DEF TypeOK
<1>5. arrivals' \in Seq(Calls)
  BY <1>4 DEF Acquire, TypeOK, lineVars
<1>6. QED
  BY <1>2, <1>3, <1>5

\* Handing a slot over, or giving it back.
LEMMA ReleaseType ==
  ASSUME TypeOK, NEW i \in Calls, NEW ph \in [Calls -> Phases], ReleaseAndEnd(i, ph)
  PROVE  /\ phase' \in [Calls -> Phases]
         /\ free' \in [Lines -> Nat]
         /\ arrivals' \in Seq(Calls)
<1>1. LineOf(i) \in Lines
  BY DEF LineOf, Lines
<1>2. phase' \in [Calls -> Phases]
  BY DEF ReleaseAndEnd, Queued, Phases, Live
<1>3. free' \in [Lines -> Nat]
  <2>1. free \in [Lines -> Nat]
    BY DEF TypeOK
  <2>2. UNCHANGED free \/ free' = [free EXCEPT ![LineOf(i)] = @ + 1]
    BY DEF ReleaseAndEnd
  <2>3. QED
    BY <1>1, <2>1, <2>2
<1>4. arrivals' \in Seq(Calls)
  BY DEF ReleaseAndEnd, TypeOK
<1>5. QED
  BY <1>2, <1>3, <1>4

\* Cancelled tasks leave their lines, but stay tasks.
LEMMA EvictedType == TypeOK => Evicted \in [Calls -> Phases]
BY DEF TypeOK, Evicted, Phases, Live

\* The reason of a cancelled call is one of the results.
LEMMA ReasonType == CancelReason \in Results
BY DEF CancelReason, Results

-----------------------------------------------------------------------------
(* Type correctness.                                                       *)

\* What the initial values satisfy.
LEMMA InitTypeOK == Init => TypeOK
<1> SUFFICES ASSUME Init PROVE TypeOK
  OBVIOUS
<1>1. calls \in Seq(Kinds) /\ Len(calls) = 0
  BY EmptySeq DEF Init
<1>2. idleEvents \in Seq(BOOLEAN) /\ Len(idleEvents) = 1 /\ idleEvents # <<>>
  BY DEF Init
<1>3. arrivals \in Seq(Calls) /\ completions \in Seq(Calls)
  BY EmptySeq DEF Init
<1>4. free \in [Lines -> Nat]
  BY ExecutorAssumption DEF Init, Limit
<1>5. N \in Nat
  BY ExecutorAssumption
<1>6. phase \in [Calls -> Phases] /\ results \in [Calls -> Results \cup {NoResult}]
  BY DEF Init, Phases
<1>7. Len(calls) <= N /\ waiter \in 0 .. Len(idleEvents)
  BY <1>1, <1>2, <1>5 DEF Init
<1>8. scopeCancelled \in [Calls -> BOOLEAN] /\ pending \in Nat /\ received \in Nat
  BY DEF Init
<1>9. /\ mode \in {"open", "joining", "exited"} /\ signal \in {"absent", "clear", "set"}
      /\ watcher \in {"none", "armed", "done"} /\ consumer \in {"reading", "ended"}
      /\ bodyRaised \in BOOLEAN /\ channelClosed \in BOOLEAN
      /\ signalCancelled \in BOOLEAN /\ aborted \in BOOLEAN
  BY DEF Init
<1>10. QED
  BY <1>1, <1>2, <1>3, <1>4, <1>6, <1>7, <1>8, <1>9 DEF TypeOK

\* Every step keeps the types.
LEMMA StepTypeOK == TypeOK /\ [Next]_vars => TypeOK'
<1> SUFFICES ASSUME TypeOK, [Next]_vars PROVE TypeOK'
  OBVIOUS
<1> USE DEF lineVars, channelVars, flagVars
<1>0. N \in Nat
  BY ExecutorAssumption
<1>1. CASE FireSignal
  BY <1>1 DEF FireSignal, TypeOK
<1>2. CASE WatcherFires
  <2>1. phase' \in [Calls -> Phases]
    BY <1>2, EvictedType DEF WatcherFires
  <2>2. scopeCancelled' \in [Calls -> BOOLEAN]
    BY <1>2 DEF WatcherFires, CancelScopes
  <2>3. QED
    BY <1>2, <2>1, <2>2 DEF WatcherFires, TypeOK
<1>3. CASE WatcherStops
  BY <1>3 DEF WatcherStops, TypeOK
<1>4. ASSUME NEW k \in Kinds, AddToolCall(k) PROVE TypeOK'
  <2> DEFINE i == Len(calls) + 1
  <2>1. calls' \in Seq(Kinds) /\ Len(calls') = i
    BY <1>4, AppendProperties DEF AddToolCall, TypeOK
  <2>2. i \in Calls
    BY <1>0, <1>4, LenProperties DEF AddToolCall, Calls, TypeOK
  <2>3. Len(calls') <= N
    BY <2>1, <2>2, <1>0 DEF Calls
  <2>4. CASE FastFails
    <3>1. RecordResult(i, CancelReason)
      BY <1>4, <2>4 DEF AddToolCall
    <3>2. results' \in [Calls -> Results \cup {NoResult}] /\ completions' \in Seq(Calls)
      BY <3>1, <2>2, RecordType, ReasonType
    <3>3. phase' \in [Calls -> Phases] /\ UNCHANGED <<pending, idleEvents>>
      BY <1>4, <2>4 DEF AddToolCall, TypeOK, Phases
    <3>4. QED
      BY <1>4, <2>1, <2>3, <3>2, <3>3 DEF AddToolCall, TypeOK
  <2>5. CASE ~FastFails
    <3>1. phase' \in [Calls -> Phases] /\ pending' \in Nat
      BY <1>4, <2>5 DEF AddToolCall, TypeOK, Phases, Live
    <3>2. /\ idleEvents' \in Seq(BOOLEAN) /\ idleEvents' # <<>>
          /\ Len(idleEvents') >= Len(idleEvents)
      BY <1>4, <2>5, BusyType DEF AddToolCall, TypeOK
    <3>3. waiter' \in 0 .. Len(idleEvents')
      <4>1. Len(idleEvents) \in Nat /\ Len(idleEvents') \in Nat
        BY <3>2, LenProperties DEF TypeOK
      <4>2. QED
        BY <1>4, <3>2, <4>1 DEF AddToolCall, TypeOK
    <3>4. QED
      BY <1>4, <2>1, <2>3, <2>5, <3>1, <3>2, <3>3 DEF AddToolCall, TypeOK
  <2>6. QED
    BY <2>4, <2>5
<1>5. ASSUME WaitAllPasses \/ WaitAllParks
      PROVE  /\ waiter' \in 0 .. Len(idleEvents)
             /\ results' \in [Calls -> Results \cup {NoResult}]
             /\ completions' \in Seq(Calls)
  <2>1. Len(idleEvents) \in Nat
    BY LenProperties DEF TypeOK
  <2>2. CASE WaitAllPasses
    BY <2>1, <2>2, BackfillType DEF WaitAllPasses
  <2>3. CASE WaitAllParks
    BY <2>1, <2>3 DEF WaitAllParks, TypeOK
  <2>4. QED
    BY <1>5, <2>2, <2>3
<1>6. CASE WaitAll \/ WaitAllWakes
  <2>1. /\ WaitAllPasses \/ WaitAllParks
        /\ UNCHANGED <<flagVars, signalCancelled, aborted, calls, phase, scopeCancelled,
                       pending, idleEvents, lineVars, channelVars>>
    BY <1>6 DEF WaitAll, WaitAllWakes
  <2>2. QED
    BY <2>1, <1>5 DEF TypeOK
<1>7. ASSUME NEW raised \in BOOLEAN, Leave(raised) PROVE TypeOK'
  <2>1. phase' \in [Calls -> Phases]
    BY <1>7, EvictedType DEF Leave, TypeOK
  <2>2. QED
    BY <1>7, <2>1 DEF Leave, TypeOK
<1>8. CASE Join
  <2>1. results' \in [Calls -> Results \cup {NoResult}] /\ completions' \in Seq(Calls)
    BY <1>8, BackfillType DEF Join
  <2>2. /\ idleEvents' \in Seq(BOOLEAN) /\ idleEvents' # <<>>
        /\ Len(idleEvents') = Len(idleEvents)
    BY <1>8, SetIdleType DEF Join, SetIdle, TypeOK
  <2>3. QED
    BY <1>8, <2>1, <2>2 DEF Join, TypeOK
<1>9. CASE WaitOne
  BY <1>9 DEF WaitOne, TypeOK
<1>10. ASSUME NEW i \in Calls, StartTask(i) PROVE TypeOK'
  <2>1. CASE ~calls[i].known
    <3>1. RecordResult(i, "notFound") /\ EndTask(i) /\ UNCHANGED lineVars
      BY <1>10, <2>1 DEF StartTask
    <3>2. results' \in [Calls -> Results \cup {NoResult}] /\ completions' \in Seq(Calls)
      BY <3>1, RecordType DEF Results
    <3>3. /\ pending' \in Nat /\ idleEvents' \in Seq(BOOLEAN) /\ idleEvents' # <<>>
          /\ Len(idleEvents') = Len(idleEvents)
      BY <3>1, TaskEndsType DEF EndTask
    <3>4. phase' \in [Calls -> Phases]
      BY <3>1 DEF EndTask, TypeOK, Phases
    <3>5. QED
      BY <1>10, <3>1, <3>2, <3>3, <3>4 DEF StartTask, TypeOK
  <2>2. CASE calls[i].known /\ HasGate
    <3>1. phase' \in [Calls -> Phases]
      BY <1>10, <2>2 DEF StartTask, TypeOK, Phases, Live
    <3>2. QED
      BY <1>10, <2>2, <3>1 DEF StartTask, TypeOK
  <2>3. CASE calls[i].known /\ ~HasGate
    <3>1. Acquire(i) /\ UNCHANGED <<results, completions, pending, idleEvents>>
      BY <1>10, <2>3 DEF StartTask
    <3>2. QED
      BY <1>10, <3>1, AcquireType DEF StartTask, TypeOK
  <2>4. QED
    BY <2>1, <2>2, <2>3, ExecutorAssumption, <1>10
<1>11. ASSUME NEW i \in Calls, NEW v \in {"allowed", "denied", "gateError"}, GateReturns(i, v)
       PROVE  TypeOK'
  <2>1. CASE v = "allowed"
    <3>1. Acquire(i) /\ UNCHANGED <<results, completions, pending, idleEvents>>
      BY <1>11, <2>1 DEF GateReturns
    <3>2. QED
      BY <1>11, <3>1, AcquireType DEF GateReturns, TypeOK
  <2>2. CASE v # "allowed"
    <3>1. RecordResult(i, v) /\ EndTask(i) /\ UNCHANGED lineVars
      BY <1>11, <2>2 DEF GateReturns
    <3>2. results' \in [Calls -> Results \cup {NoResult}] /\ completions' \in Seq(Calls)
      BY <3>1, <2>2, RecordType DEF Results
    <3>3. /\ pending' \in Nat /\ idleEvents' \in Seq(BOOLEAN) /\ idleEvents' # <<>>
          /\ Len(idleEvents') = Len(idleEvents)
      BY <3>1, TaskEndsType DEF EndTask
    <3>4. phase' \in [Calls -> Phases]
      BY <3>1 DEF EndTask, TypeOK, Phases
    <3>5. QED
      BY <1>11, <3>1, <3>2, <3>3, <3>4 DEF GateReturns, TypeOK
  <2>3. QED
    BY <2>1, <2>2
<1>12. ASSUME NEW i \in Calls, EnterBody(i) PROVE TypeOK'
  <2>1. CASE aborted
    <3>1. RecordResult(i, CancelReason) /\ ReleaseAndEnd(i, phase) /\ TaskEnds
      BY <1>12, <2>1 DEF EnterBody
    <3>2. results' \in [Calls -> Results \cup {NoResult}] /\ completions' \in Seq(Calls)
      BY <3>1, RecordType, ReasonType
    <3>3. phase' \in [Calls -> Phases] /\ free' \in [Lines -> Nat] /\ arrivals' \in Seq(Calls)
      BY <3>1, ReleaseType DEF TypeOK
    <3>4. QED
      BY <1>12, <3>1, <3>2, <3>3, TaskEndsType DEF EnterBody, TypeOK
  <2>2. CASE ~aborted
    <3>1. phase' \in [Calls -> Phases]
      BY <1>12, <2>2 DEF EnterBody, TypeOK, Phases, Live
    <3>2. QED
      BY <1>12, <2>2, <3>1 DEF EnterBody, TypeOK
  <2>3. QED
    BY <2>1, <2>2 DEF TypeOK
<1>13. ASSUME NEW i \in Calls, NEW o \in BodyOutcomes, BodyReturns(i, o) PROVE TypeOK'
  <2>1. results' \in [Calls -> Results \cup {NoResult}] /\ completions' \in Seq(Calls)
    BY <1>13, RecordType DEF BodyReturns, Results
  <2>2. /\ phase' \in [Calls -> Phases] /\ free' \in [Lines -> Nat] /\ arrivals' \in Seq(Calls)
        /\ scopeCancelled' \in [Calls -> BOOLEAN] /\ aborted' \in BOOLEAN
    <3>1. CASE TriggersAbort(i, o)
      <4>1. aborted' = TRUE /\ CancelScopes /\ ReleaseAndEnd(i, Evicted)
        BY <1>13, <3>1 DEF BodyReturns
      <4>2. phase' \in [Calls -> Phases] /\ free' \in [Lines -> Nat] /\ arrivals' \in Seq(Calls)
        BY <4>1, ReleaseType, EvictedType
      <4>3. QED
        BY <4>1, <4>2 DEF CancelScopes
    <3>2. CASE ~TriggersAbort(i, o)
      <4>1. ReleaseAndEnd(i, phase) /\ UNCHANGED <<aborted, scopeCancelled>>
        BY <1>13, <3>2 DEF BodyReturns
      <4>2. phase' \in [Calls -> Phases] /\ free' \in [Lines -> Nat] /\ arrivals' \in Seq(Calls)
        BY <4>1, ReleaseType DEF TypeOK
      <4>3. QED
        BY <4>1, <4>2 DEF TypeOK
    <3>3. QED
      BY <3>1, <3>2
  <2>3. TaskEnds
    BY <1>13 DEF BodyReturns
  <2>4. QED
    BY <1>13, <2>1, <2>2, <2>3, TaskEndsType DEF BodyReturns, TypeOK
<1>14. ASSUME NEW i \in Calls, DeliverCancel(i) PROVE TypeOK'
  <2>1. results' \in [Calls -> Results \cup {NoResult}] /\ completions' \in Seq(Calls)
    <3>1. CASE RecordResult(i, CancelReason)
      BY <3>1, RecordType, ReasonType
    <3>2. CASE UNCHANGED <<results, completions>>
      BY <3>2 DEF TypeOK
    <3>3. QED
      BY <1>14, <3>1, <3>2 DEF DeliverCancel
  <2>2. phase' \in [Calls -> Phases] /\ free' \in [Lines -> Nat] /\ arrivals' \in Seq(Calls)
    <3>1. CASE phase[i] = "running"
      BY <1>14, <3>1, ReleaseType DEF DeliverCancel, TypeOK
    <3>2. CASE phase[i] # "running"
      BY <1>14, <3>2 DEF DeliverCancel, TypeOK, Phases
    <3>3. QED
      BY <3>1, <3>2
  <2>3. TaskEnds
    BY <1>14 DEF DeliverCancel
  <2>4. QED
    BY <1>14, <2>1, <2>2, <2>3, TaskEndsType DEF DeliverCancel, TypeOK
<1>15. CASE UNCHANGED vars
  BY <1>15 DEF vars, TypeOK
<1>16. QED
  BY <1>1, <1>2, <1>3, <1>4, <1>6, <1>7, <1>8, <1>9, <1>10, <1>11, <1>12, <1>13, <1>14,
     <1>15 DEF Next

\* Every variable keeps to its type: in particular the current idle event always
\* exists, a parked waiter waits on one of the events, and no count of slots or
\* tasks goes below zero.
THEOREM TypeCorrect == Spec => []TypeOK
BY InitTypeOK, StepTypeOK, PTL DEF Spec

-----------------------------------------------------------------------------
(* Numbers and slots.                                                      *)

\* Exactly the calls that were added have a task or an answer.
Numbering == \A i \in Calls : phase[i] # "none" <=> i <= Len(calls)

Holding == {"acquired", "running"}

\* The inductive invariant behind the limits on concurrency.
SlotInv == TypeOK /\ Numbering /\ SlotsConserved

\* A step that moves no call into or out of a holding phase, or into a line, keeps
\* the count of slots.
LEMMA SameSlots ==
  ASSUME SlotsConserved, UNCHANGED free,
         \A i \in Calls : phase'[i] \in Holding <=> phase[i] \in Holding,
         \A i \in Calls : phase'[i] = "queued" => phase[i] = "queued",
         \A i \in Calls : phase'[i] \in Holding \cup {"queued"} => LineOf(i)' = LineOf(i)
  PROVE  SlotsConserved'
<1> SUFFICES ASSUME NEW l \in Lines
             PROVE  /\ free'[l] + Cardinality(Holders(l)') = Limit[l]
                    /\ free'[l] > 0 => Queued(l, phase)' = {}
  BY DEF SlotsConserved, Limit, Lines
<1>1. Holders(l)' = Holders(l)
  BY DEF Holders, Holding
<1>2. Queued(l, phase)' \subseteq Queued(l, phase)
  BY DEF Queued, Holding
<1>3. QED
  BY <1>1, <1>2 DEF SlotsConserved

\* Acquiring takes one slot, or joins a line that has none.
LEMMA AcquireSlots ==
  ASSUME TypeOK, SlotsConserved, UNCHANGED calls,
         NEW i \in Calls, phase[i] \in {"spawned", "gate"}, Acquire(i)
  PROVE  SlotsConserved'
<1> USE DEF lineVars
<1>0. LineOf(i) \in Lines /\ \A j \in Calls : LineOf(j)' = LineOf(j)
  BY DEF LineOf, Lines
<1>1. CASE /\ phase' = [phase EXCEPT ![i] = "doomed"]
           /\ UNCHANGED free
  BY <1>0, <1>1, SameSlots DEF TypeOK, Holding
<1>2. CASE /\ free[LineOf(i)] = 0
           /\ phase' = [phase EXCEPT ![i] = "queued"]
           /\ UNCHANGED free
  <2> SUFFICES ASSUME NEW l \in Lines
               PROVE  /\ free'[l] + Cardinality(Holders(l)') = Limit[l]
                      /\ free'[l] > 0 => Queued(l, phase)' = {}
    BY DEF SlotsConserved, Limit, Lines
  <2>1. Holders(l)' = Holders(l)
    BY <1>0, <1>2 DEF Holders, TypeOK
  <2>2. l # LineOf(i) => Queued(l, phase)' = Queued(l, phase)
    BY <1>0, <1>2 DEF Queued, TypeOK
  <2>3. QED
    BY <2>1, <2>2, <1>2 DEF SlotsConserved
<1>3. CASE /\ free[LineOf(i)] > 0
           /\ phase' = [phase EXCEPT ![i] = "acquired"]
           /\ free' = [free EXCEPT ![LineOf(i)] = @ - 1]
  <2> SUFFICES ASSUME NEW l \in Lines
               PROVE  /\ free'[l] + Cardinality(Holders(l)') = Limit[l]
                      /\ free'[l] > 0 => Queued(l, phase)' = {}
    BY DEF SlotsConserved, Limit, Lines
  <2>1. Queued(l, phase)' = Queued(l, phase)
    BY <1>0, <1>3 DEF Queued, TypeOK
  <2>2. IsFiniteSet(Holders(l)) /\ Cardinality(Holders(l)) \in Nat
    BY CallsFinite DEF Holders
  <2>3. free[l] + Cardinality(Holders(l)) = Limit[l] /\ free[l] \in Nat
    BY DEF SlotsConserved, TypeOK
  <2>4. CASE l = LineOf(i)
    <3>1. Holders(l)' = Holders(l) \cup {i} /\ i \notin Holders(l)
      BY <1>0, <1>3, <2>4 DEF Holders, TypeOK
    <3>2. Cardinality(Holders(l)') = Cardinality(Holders(l)) + 1
      BY <2>2, <3>1, FS_AddElement
    <3>3. free'[l] = free[l] - 1
      BY <1>0, <1>3, <2>4 DEF TypeOK
    <3>4. free[l] > 0 => Queued(l, phase) = {}
      BY DEF SlotsConserved
    <3>5. QED
      BY <1>3, <2>1, <2>2, <2>3, <2>4, <3>2, <3>3, <3>4
  <2>5. CASE l # LineOf(i)
    <3>1. Holders(l)' = Holders(l)
      BY <1>0, <1>3, <2>5 DEF Holders, TypeOK
    <3>2. free'[l] = free[l]
      BY <1>0, <1>3, <2>5 DEF TypeOK
    <3>3. QED
      BY <2>1, <3>1, <3>2 DEF SlotsConserved
  <2>6. QED
    BY <2>4, <2>5
<1>4. QED
  BY <1>1, <1>2, <1>3 DEF Acquire

\* Releasing frees one slot, or hands it to a call of the same line.
LEMMA ReleaseSlots ==
  ASSUME TypeOK, SlotsConserved, UNCHANGED calls,
         NEW i \in Calls, phase[i] \in Holding,
         NEW ph \in {phase, Evicted}, ReleaseAndEnd(i, ph)
  PROVE  SlotsConserved'
<1>0. LineOf(i) \in Lines /\ \A j \in Calls : LineOf(j)' = LineOf(j)
  BY DEF LineOf, Lines
<1>1. /\ ph \in [Calls -> Phases]
      /\ \A j \in Calls : ph[j] \in Holding <=> phase[j] \in Holding
      /\ \A j \in Calls : ph[j] = "queued" => phase[j] = "queued"
  BY EvictedType DEF TypeOK, Evicted, Holding
<1> HIDE DEF Evicted
<1> SUFFICES ASSUME NEW l \in Lines
             PROVE  /\ free'[l] + Cardinality(Holders(l)') = Limit[l]
                    /\ free'[l] > 0 => Queued(l, phase)' = {}
  BY DEF SlotsConserved, Limit, Lines
<1>2. IsFiniteSet(Holders(l)) /\ Cardinality(Holders(l)) \in Nat
  BY CallsFinite DEF Holders
<1>3. /\ free[l] + Cardinality(Holders(l)) = Limit[l] /\ free[l] \in Nat
      /\ free[l] > 0 => Queued(l, phase) = {}
  BY DEF SlotsConserved, TypeOK
<1>4. CASE \E j \in Queued(LineOf(i), ph) :
             /\ phase' = [ph EXCEPT ![i] = "done", ![j] = "acquired"]
             /\ UNCHANGED free
  <2>1. PICK j \in Queued(LineOf(i), ph) :
             /\ phase' = [ph EXCEPT ![i] = "done", ![j] = "acquired"]
             /\ UNCHANGED free
    BY <1>4
  <2>2. j \in Calls /\ ph[j] = "queued" /\ LineOf(j) = LineOf(i) /\ j # i
    BY <1>1 DEF Queued, Holding
  <2>3. Queued(l, phase)' \subseteq Queued(l, phase)
    BY <1>0, <1>1, <2>1, <2>2 DEF Queued
  <2>4. CASE l = LineOf(i)
    <3>1. /\ Holders(l)' = (Holders(l) \ {i}) \cup {j}
          /\ i \in Holders(l) /\ j \notin Holders(l)
      BY <1>0, <1>1, <2>1, <2>2, <2>4 DEF Holders, Holding
    <3>2. /\ IsFiniteSet(Holders(l) \ {i})
          /\ Cardinality(Holders(l) \ {i}) = Cardinality(Holders(l)) - 1
      BY <1>2, <3>1, FS_RemoveElement
    <3>3. Cardinality((Holders(l) \ {i}) \cup {j}) = Cardinality(Holders(l) \ {i}) + 1
      <4>1. j \notin Holders(l) \ {i}
        BY <3>1
      <4>2. QED
        BY <3>2, <4>1, FS_AddElement
    <3>4. Cardinality(Holders(l)') = Cardinality(Holders(l))
      BY <1>2, <3>1, <3>2, <3>3
    <3>5. QED
      BY <1>3, <2>1, <2>3, <3>4
  <2>5. CASE l # LineOf(i)
    <3>1. Holders(l)' = Holders(l)
      BY <1>0, <1>1, <2>1, <2>2, <2>5 DEF Holders, Holding
    <3>2. QED
      BY <1>3, <2>1, <2>3, <3>1
  <2>6. QED
    BY <2>4, <2>5
<1>5. CASE /\ Queued(LineOf(i), ph) = {}
           /\ phase' = [ph EXCEPT ![i] = "done"]
           /\ free' = [free EXCEPT ![LineOf(i)] = @ + 1]
  <2>1. Queued(l, phase)' \subseteq Queued(l, phase)
    BY <1>0, <1>1, <1>5 DEF Queued
  <2>2. CASE l = LineOf(i)
    <3>1. Queued(l, phase)' = {}
      BY <1>0, <1>1, <1>5, <2>2 DEF Queued
    <3>2. Holders(l)' = Holders(l) \ {i} /\ i \in Holders(l)
      BY <1>0, <1>1, <1>5, <2>2 DEF Holders, Holding
    <3>3. Cardinality(Holders(l)') = Cardinality(Holders(l)) - 1
      BY <1>2, <3>2, FS_RemoveElement
    <3>4. free'[l] = free[l] + 1
      BY <1>0, <1>5, <2>2 DEF TypeOK
    <3>5. QED
      BY <1>2, <1>3, <3>1, <3>3, <3>4
  <2>3. CASE l # LineOf(i)
    <3>1. Holders(l)' = Holders(l)
      BY <1>0, <1>1, <1>5, <2>3 DEF Holders, Holding
    <3>2. free'[l] = free[l]
      BY <1>0, <1>5, <2>3 DEF TypeOK
    <3>3. QED
      BY <1>3, <2>1, <3>1, <3>2
  <2>4. QED
    BY <2>2, <2>3
<1>6. QED
  BY <1>4, <1>5 DEF ReleaseAndEnd

\* A step of the task of i, or one that cancels, leaves the numbering alone.
LEMMA SameNumbering ==
  ASSUME Numbering, UNCHANGED calls,
         \A i \in Calls : phase'[i] # "none" <=> phase[i] # "none"
  PROVE  Numbering'
BY DEF Numbering

\* No action but AddToolCall changes the calls, or which calls have a task.
LEMMA TasksKeepCalls ==
  ASSUME TypeOK, NEW i \in Calls, phase[i] \in Live,
         \/ Acquire(i) \/ EndTask(i)
         \/ \E ph \in {phase, Evicted} : ReleaseAndEnd(i, ph)
         \/ phase' = [phase EXCEPT ![i] = "gate"]
         \/ phase' = [phase EXCEPT ![i] = "running"]
         \/ phase' = [phase EXCEPT ![i] = "done"]
  PROVE  \A j \in Calls : phase'[j] # "none" <=> phase[j] # "none"
<1>1. CASE Acquire(i)
  BY <1>1 DEF Acquire, TypeOK, Live
<1>2. CASE EndTask(i) \/ phase' = [phase EXCEPT ![i] = "done"]
  BY <1>2 DEF EndTask, TypeOK, Live
<1>3. ASSUME NEW ph \in {phase, Evicted}, ReleaseAndEnd(i, ph)
      PROVE  \A j \in Calls : phase'[j] # "none" <=> phase[j] # "none"
  <2>1. ph \in [Calls -> Phases] /\ \A j \in Calls : ph[j] # "none" <=> phase[j] # "none"
    BY EvictedType DEF TypeOK, Evicted
  <2>2. QED
    BY <1>3, <2>1 DEF ReleaseAndEnd, Queued, Live
<1>4. CASE phase' = [phase EXCEPT ![i] = "gate"] \/ phase' = [phase EXCEPT ![i] = "running"]
  BY <1>4 DEF TypeOK, Live
<1>5. QED
  BY <1>1, <1>2, <1>3, <1>4

\* Every step keeps the numbering and the slots.
LEMMA StepSlotInv == SlotInv /\ [Next]_vars => SlotInv'
<1> SUFFICES ASSUME SlotInv, [Next]_vars PROVE Numbering' /\ SlotsConserved'
  BY StepTypeOK DEF SlotInv
<1> USE DEF lineVars, channelVars, flagVars
<1>0. TypeOK /\ Numbering /\ SlotsConserved
  BY DEF SlotInv
<1>1. ASSUME UNCHANGED <<calls, phase, free>>
      PROVE  Numbering' /\ SlotsConserved'
  <2>1. Numbering'
    BY <1>0, <1>1, SameNumbering
  <2>2. \A i \in Calls : LineOf(i)' = LineOf(i)
    BY <1>1 DEF LineOf
  <2>3. QED
    BY <1>0, <1>1, <2>1, <2>2, SameSlots
<1>2. ASSUME UNCHANGED <<calls, free>>, phase' = Evicted
      PROVE  Numbering' /\ SlotsConserved'
  <2>1. /\ \A i \in Calls : phase'[i] # "none" <=> phase[i] # "none"
        /\ \A i \in Calls : phase'[i] \in Holding <=> phase[i] \in Holding
        /\ \A i \in Calls : phase'[i] = "queued" => phase[i] = "queued"
    BY <1>2 DEF Evicted, Holding
  <2>2. \A i \in Calls : LineOf(i)' = LineOf(i)
    BY <1>2 DEF LineOf
  <2>3. QED
    BY <1>0, <1>2, <2>1, <2>2, SameNumbering, SameSlots
<1>3. CASE FireSignal \/ WatcherStops \/ Join \/ WaitOne \/ WaitAll \/ WaitAllWakes
  BY <1>1, <1>3 DEF FireSignal, WatcherStops, Join, WaitOne, WaitAll, WaitAllWakes
<1>4. CASE WatcherFires
  BY <1>2, <1>4 DEF WatcherFires
<1>5. ASSUME NEW raised \in BOOLEAN, Leave(raised) PROVE Numbering' /\ SlotsConserved'
  BY <1>1, <1>2, <1>5 DEF Leave
<1>6. ASSUME NEW k \in Kinds, AddToolCall(k) PROVE Numbering' /\ SlotsConserved'
  <2> DEFINE n == Len(calls) + 1
  <2>1. n \in Calls /\ Len(calls) \in Nat
    BY <1>0, <1>6, ExecutorAssumption, LenProperties DEF AddToolCall, Calls, TypeOK
  <2>2. calls' = Append(calls, k) /\ Len(calls') = n /\ UNCHANGED free
    BY <1>0, <1>6, AppendProperties DEF AddToolCall, TypeOK
  <2>3. \/ phase' = [phase EXCEPT ![n] = "done"]
        \/ phase' = [phase EXCEPT ![n] = "spawned"]
    BY <1>6 DEF AddToolCall
  <2>4. phase[n] = "none"
    BY <1>0, <2>1 DEF Numbering
  <2>5. Numbering'
    <3> SUFFICES ASSUME NEW i \in Calls
                 PROVE  phase'[i] # "none" <=> i <= Len(calls')
      BY DEF Numbering
    <3>1. CASE i = n
      BY <1>0, <2>2, <2>3, <3>1, ExecutorAssumption DEF TypeOK, Calls
    <3>2. CASE i # n
      <4>1. phase'[i] = phase[i]
        BY <1>0, <2>3, <3>2 DEF TypeOK
      <4>2. i <= Len(calls) <=> i <= n
        BY <2>1, <3>2, ExecutorAssumption DEF Calls
      <4>3. QED
        BY <1>0, <2>2, <4>1, <4>2 DEF Numbering
    <3>3. QED
      BY <3>1, <3>2
  <2>6. /\ \A i \in Calls : phase'[i] \in Holding <=> phase[i] \in Holding
        /\ \A i \in Calls : phase'[i] = "queued" => phase[i] = "queued"
    BY <1>0, <2>3, <2>4 DEF TypeOK, Holding
  <2>7. ASSUME NEW i \in Calls, phase'[i] \in Holding \cup {"queued"}
        PROVE  LineOf(i)' = LineOf(i)
    <3>1. phase[i] # "none"
      BY <2>6, <2>7 DEF Holding
    <3>2. i \in 1 .. Len(calls)
      BY <1>0, <3>1, ExecutorAssumption, <2>1 DEF Numbering, Calls
    <3>3. calls'[i] = calls[i]
      BY <1>0, <2>2, <3>2, AppendProperties DEF TypeOK
    <3>4. QED
      BY <3>3 DEF LineOf
  <2>8. QED
    BY <1>0, <2>2, <2>5, <2>6, <2>7, SameSlots
<1>7. ASSUME UNCHANGED calls, NEW i \in Calls, phase[i] \in {"spawned", "gate"}, Acquire(i)
      PROVE  Numbering' /\ SlotsConserved'
  BY <1>0, <1>7, AcquireSlots, TasksKeepCalls, SameNumbering DEF Live
<1>8. ASSUME UNCHANGED calls, NEW i \in Calls, phase[i] \in Holding,
             \E ph \in {phase, Evicted} : ReleaseAndEnd(i, ph)
      PROVE  Numbering' /\ SlotsConserved'
  BY <1>0, <1>8, ReleaseSlots, TasksKeepCalls, SameNumbering DEF Live, Holding
<1>9. ASSUME UNCHANGED <<calls, free>>, NEW i \in Calls, phase[i] \in Live \ Holding,
             \/ phase' = [phase EXCEPT ![i] = "gate"]
             \/ phase' = [phase EXCEPT ![i] = "done"]
      PROVE  Numbering' /\ SlotsConserved'
  <2>1. /\ \A j \in Calls : phase'[j] \in Holding <=> phase[j] \in Holding
        /\ \A j \in Calls : phase'[j] = "queued" => phase[j] = "queued"
    BY <1>0, <1>9 DEF TypeOK, Holding
  <2>2. \A j \in Calls : LineOf(j)' = LineOf(j)
    BY <1>9 DEF LineOf
  <2>3. SlotsConserved'
    BY <1>0, <1>9, <2>1, <2>2, SameSlots
  <2>4. QED
    BY <1>0, <1>9, <2>3, TasksKeepCalls, SameNumbering
<1>10. ASSUME NEW i \in Calls, StartTask(i) PROVE Numbering' /\ SlotsConserved'
  <2>1. UNCHANGED calls /\ phase[i] = "spawned"
    BY <1>10 DEF StartTask
  <2>2. \/ Acquire(i)
        \/ phase' = [phase EXCEPT ![i] = "gate"] /\ UNCHANGED free
        \/ phase' = [phase EXCEPT ![i] = "done"] /\ UNCHANGED free
    BY <1>10 DEF StartTask, EndTask
  <2>3. phase[i] \in Live \ Holding
    BY <2>1 DEF Live, Holding
  <2>4. QED
    BY <1>7, <1>9, <2>1, <2>2, <2>3
<1>11. ASSUME NEW i \in Calls, NEW v \in {"allowed", "denied", "gateError"}, GateReturns(i, v)
       PROVE  Numbering' /\ SlotsConserved'
  <2>1. UNCHANGED calls /\ phase[i] = "gate"
    BY <1>11 DEF GateReturns
  <2>2. \/ Acquire(i)
        \/ phase' = [phase EXCEPT ![i] = "done"] /\ UNCHANGED free
    BY <1>11 DEF GateReturns, EndTask
  <2>3. phase[i] \in Live \ Holding
    BY <2>1 DEF Live, Holding
  <2>4. QED
    BY <1>7, <1>9, <2>1, <2>2, <2>3
<1>12. ASSUME NEW i \in Calls, EnterBody(i) PROVE Numbering' /\ SlotsConserved'
  <2>1. UNCHANGED calls /\ phase[i] \in Holding /\ phase[i] = "acquired"
    BY <1>12 DEF EnterBody, Holding
  <2>2. CASE ReleaseAndEnd(i, phase)
    BY <1>8, <2>1, <2>2
  <2>3. CASE phase' = [phase EXCEPT ![i] = "running"] /\ UNCHANGED free
    <3>1. /\ \A j \in Calls : phase'[j] \in Holding <=> phase[j] \in Holding
          /\ \A j \in Calls : phase'[j] = "queued" => phase[j] = "queued"
      BY <1>0, <2>1, <2>3 DEF TypeOK, Holding
    <3>2. \A j \in Calls : LineOf(j)' = LineOf(j)
      BY <2>1 DEF LineOf
    <3>3. SlotsConserved'
      BY <1>0, <2>3, <3>1, <3>2, SameSlots
    <3>4. QED
      BY <1>0, <2>1, <2>3, <3>3, TasksKeepCalls, SameNumbering DEF Live
  <2>4. QED
    BY <1>12, <2>2, <2>3 DEF EnterBody
<1>13. ASSUME NEW i \in Calls, NEW o \in BodyOutcomes, BodyReturns(i, o)
       PROVE  Numbering' /\ SlotsConserved'
  <2>1. UNCHANGED calls /\ phase[i] \in Holding
    BY <1>13 DEF BodyReturns, Holding
  <2>2. \E ph \in {phase, Evicted} : ReleaseAndEnd(i, ph)
    BY <1>13 DEF BodyReturns
  <2>3. QED
    BY <1>8, <2>1, <2>2
<1>14. ASSUME NEW i \in Calls, DeliverCancel(i) PROVE Numbering' /\ SlotsConserved'
  <2>1. UNCHANGED calls
    BY <1>14 DEF DeliverCancel
  <2>2. CASE phase[i] = "running"
    BY <1>8, <1>14, <2>1, <2>2 DEF DeliverCancel, Holding
  <2>3. CASE phase[i] # "running"
    BY <1>9, <1>14, <2>1, <2>3 DEF DeliverCancel, Holding, Live
  <2>4. QED
    BY <2>2, <2>3
<1>15. CASE UNCHANGED vars
  BY <1>1, <1>15 DEF vars
<1>16. QED
  BY <1>3, <1>4, <1>5, <1>6, <1>10, <1>11, <1>12, <1>13, <1>14, <1>15 DEF Next

\* At the start all slots are free and no call is numbered.
LEMMA InitSlotInv == Init => SlotInv
<1> SUFFICES ASSUME Init PROVE Numbering /\ SlotsConserved
  BY InitTypeOK DEF SlotInv
<1>1. Numbering
  BY ExecutorAssumption, EmptySeq DEF Init, Numbering, Calls
<1>2. \A l \in Lines : Holders(l) = {} /\ Queued(l, phase) = {}
  BY DEF Init, Holders, Queued
<1>3. \A l \in Lines : Limit[l] \in Nat
  BY ExecutorAssumption DEF Limit
<1>4. SlotsConserved
  <2> SUFFICES ASSUME NEW l \in Lines
               PROVE  free[l] + Cardinality(Holders(l)) = Limit[l]
    BY <1>2 DEF SlotsConserved
  <2>1. Cardinality(Holders(l)) = 0
    BY <1>2, FS_EmptySet
  <2>2. free[l] = Limit[l]
    BY DEF Init
  <2>3. QED
    BY <1>3, <2>1, <2>2
<1>5. QED
  BY <1>1, <1>4

\* Whatever the tools do and whatever is cancelled, every slot is free or held by
\* exactly one task, and no task waits in a line that has a free slot: neither an
\* early return nor a cancellation nor a hand-over leaks one.
THEOREM SlotsAreConserved == Spec => []SlotsConserved
<1>1. SlotInv => SlotsConserved
  BY DEF SlotInv
<1>2. QED
  BY <1>1, InitSlotInv, StepSlotInv, PTL DEF Spec

\* Two bodies that are not known to be safe never run at once, and at most
\* MaxConcurrency safe ones do, for any number and mix of tools.
THEOREM ConcurrencyIsLimited == Spec => []ConcurrencyLimits
<1>1. ASSUME SlotInv PROVE ConcurrencyLimits
  <2>1. TypeOK /\ SlotsConserved /\ Numbering
    BY <1>1 DEF SlotInv
  <2>2. ASSUME NEW l \in Lines
        PROVE  /\ IsFiniteSet(Holders(l)) /\ Cardinality(Holders(l)) \in Nat
               /\ Cardinality(Holders(l)) <= Limit[l]
    <3>1. IsFiniteSet(Holders(l)) /\ Cardinality(Holders(l)) \in Nat
      BY CallsFinite DEF Holders
    <3>2. free[l] \in Nat /\ free[l] + Cardinality(Holders(l)) = Limit[l]
      BY <2>1 DEF TypeOK, SlotsConserved
    <3>3. QED
      BY <3>1, <3>2
  <2>3. ASSUME NEW i \in Running, NEW j \in Running,
               calls[i].safety # "safe", calls[j].safety # "safe", i # j
        PROVE  FALSE
    <3>1. {i, j} \subseteq Holders("lock")
      BY <2>3 DEF Running, Holders, LineOf, IsSafe
    <3>2. Cardinality({i, j}) = 2
      <4>1. IsFiniteSet({i}) /\ Cardinality({i}) = 1
        BY FS_Singleton
      <4>2. Cardinality({i} \cup {j}) = 2
        <5>1. j \notin {i}
          BY <2>3
        <5>2. Cardinality({i} \cup {j}) = Cardinality({i}) + 1
          BY <4>1, <5>1, FS_AddElement
        <5>3. QED
          BY <4>1, <5>2
      <4>3. {i} \cup {j} = {i, j}
        OBVIOUS
      <4>4. QED
        BY <4>2, <4>3
    <3>3. "lock" \in Lines /\ Limit["lock"] = 1
      BY DEF Lines, Limit
    <3>4. Cardinality({i, j}) <= Cardinality(Holders("lock"))
      BY <2>2, <3>1, <3>3, FS_Subset
    <3>5. QED
      BY <2>2, <3>2, <3>3, <3>4
  <2>4. Cardinality({i \in Running : calls[i].safety = "safe"}) <= MaxConcurrency
    <3>1. {i \in Running : calls[i].safety = "safe"} \subseteq Holders("sem")
      BY DEF Running, Holders, LineOf, IsSafe
    <3>2. "sem" \in Lines /\ Limit["sem"] = MaxConcurrency
      BY DEF Lines, Limit
    <3>3. Cardinality({i \in Running : calls[i].safety = "safe"}) <= Cardinality(Holders("sem"))
      BY <2>2, <3>1, <3>2, FS_Subset
    <3>4. Cardinality({i \in Running : calls[i].safety = "safe"}) \in Nat
      BY CallsFinite DEF Running
    <3>5. QED
      BY <2>2, <3>2, <3>3, <3>4, ExecutorAssumption
  <2>5. QED
    BY <2>3, <2>4 DEF ConcurrencyLimits
<1>2. QED
  BY <1>1, InitSlotInv, StepSlotInv, PTL DEF Spec

-----------------------------------------------------------------------------
(* Cancellation.                                                           *)

\* A task that acquires, releases, ends or is cancelled adds no task, and only
\* EnterBody lets a body start.
LEMMA TasksDrain ==
  ASSUME TypeOK, NEW i \in Calls, phase[i] \in Live,
         \/ Acquire(i) \/ EndTask(i)
         \/ \E ph \in {phase, Evicted} : ReleaseAndEnd(i, ph)
         \/ phase' = [phase EXCEPT ![i] = "gate"]
         \/ phase' = [phase EXCEPT ![i] = "done"]
  PROVE  LiveCalls' \subseteq LiveCalls /\ Running' \subseteq Running
<1>1. CASE Acquire(i)
  BY <1>1 DEF Acquire, TypeOK, Live, LiveCalls, Running
<1>2. CASE EndTask(i) \/ phase' = [phase EXCEPT ![i] = "done"]
  BY <1>2 DEF EndTask, TypeOK, Live, LiveCalls, Running
<1>3. ASSUME NEW ph \in {phase, Evicted}, ReleaseAndEnd(i, ph)
      PROVE  LiveCalls' \subseteq LiveCalls /\ Running' \subseteq Running
  <2>1. /\ ph \in [Calls -> Phases]
        /\ \A j \in Calls : ph[j] \in Live <=> phase[j] \in Live
        /\ \A j \in Calls : ph[j] = "running" <=> phase[j] = "running"
    BY EvictedType DEF TypeOK, Evicted, Live
  <2>2. QED
    BY <1>3, <2>1 DEF ReleaseAndEnd, Queued, Live, LiveCalls, Running
<1>4. CASE phase' = [phase EXCEPT ![i] = "gate"]
  BY <1>4 DEF TypeOK, Live, LiveCalls, Running
<1>5. QED
  BY <1>1, <1>2, <1>3, <1>4

\* Only AddToolCall adds a task, and not once FastFails holds; a body starts only
\* in EnterBody, and not once a sibling has aborted.
LEMMA StepDrains ==
  ASSUME TypeOK, [Next]_vars
  PROVE  /\ LiveCalls' \subseteq LiveCalls \/ (\E k \in Kinds : AddToolCall(k) /\ ~FastFails)
         /\ aborted => Running' \subseteq Running
<1> USE DEF lineVars, channelVars, flagVars
<1> DEFINE Drains == LiveCalls' \subseteq LiveCalls /\ Running' \subseteq Running
<1>1. CASE UNCHANGED phase
  BY <1>1 DEF LiveCalls, Running
<1>2. CASE phase' = Evicted
  BY <1>2 DEF Evicted, LiveCalls, Running, Live
<1>3. CASE FireSignal \/ WatcherStops \/ Join \/ WaitOne \/ WaitAll \/ WaitAllWakes
  BY <1>1, <1>3 DEF FireSignal, WatcherStops, Join, WaitOne, WaitAll, WaitAllWakes
<1>4. CASE WatcherFires
  BY <1>2, <1>4 DEF WatcherFires
<1>5. ASSUME NEW raised \in BOOLEAN, Leave(raised)
      PROVE  Drains
  BY <1>5 DEF Leave, Evicted, LiveCalls, Running, Live
<1>6. ASSUME NEW k \in Kinds, AddToolCall(k)
      PROVE  /\ FastFails => LiveCalls' \subseteq LiveCalls
             /\ Running' \subseteq Running
  BY <1>6 DEF AddToolCall, LiveCalls, Running, Live, TypeOK
<1>7. ASSUME NEW i \in Calls, StartTask(i) PROVE Drains
  <2>1. phase[i] \in Live
    BY <1>7 DEF StartTask, Live
  <2>2. EndTask(i) \/ Acquire(i) \/ phase' = [phase EXCEPT ![i] = "gate"]
    BY <1>7 DEF StartTask
  <2>3. QED
    BY <2>1, <2>2, TasksDrain
<1>8. ASSUME NEW i \in Calls, NEW v \in {"allowed", "denied", "gateError"}, GateReturns(i, v)
      PROVE  Drains
  <2>1. phase[i] \in Live
    BY <1>8 DEF GateReturns, Live
  <2>2. EndTask(i) \/ Acquire(i)
    BY <1>8 DEF GateReturns
  <2>3. QED
    BY <2>1, <2>2, TasksDrain
<1>9. ASSUME NEW i \in Calls, EnterBody(i)
      PROVE  LiveCalls' \subseteq LiveCalls /\ (aborted => Running' \subseteq Running)
  <2>1. phase[i] \in Live
    BY <1>9 DEF EnterBody, Live
  <2>2. CASE aborted
    BY <1>9, <2>1, <2>2, TasksDrain DEF EnterBody
  <2>3. CASE ~aborted
    BY <1>9, <2>1, <2>3 DEF EnterBody, LiveCalls, TypeOK
  <2>4. QED
    BY <2>2, <2>3 DEF TypeOK
<1>10. ASSUME NEW i \in Calls, NEW o \in BodyOutcomes, BodyReturns(i, o) PROVE Drains
  <2>1. phase[i] \in Live
    BY <1>10 DEF BodyReturns, Live
  <2>2. \E ph \in {phase, Evicted} : ReleaseAndEnd(i, ph)
    BY <1>10 DEF BodyReturns
  <2>3. QED
    BY <2>1, <2>2, TasksDrain
<1>11. ASSUME NEW i \in Calls, DeliverCancel(i) PROVE Drains
  <2>1. phase[i] \in Live
    BY <1>11 DEF DeliverCancel, Live
  <2>2. ReleaseAndEnd(i, phase) \/ phase' = [phase EXCEPT ![i] = "done"]
    BY <1>11 DEF DeliverCancel
  <2>3. QED
    BY <2>1, <2>2, TasksDrain
<1>12. CASE UNCHANGED vars
  BY <1>1, <1>12 DEF vars
<1> HIDE DEF Drains
<1>13. QED
  BY <1>3, <1>4, <1>5, <1>6, <1>7, <1>8, <1>9, <1>10, <1>11, <1>12 DEF Next, Drains

\* After the signal was seen or a sibling aborted, the tasks in flight only become
\* fewer; after an abort no body starts, whichever step comes next.
THEOREM DrainsAfterCancel == Spec => OnlyDrainsAfterCancel
<1>1. TypeOK /\ [Next]_vars =>
        [/\ signalCancelled \/ aborted => LiveCalls' \subseteq LiveCalls
         /\ aborted => Running' \subseteq Running]_vars
  BY StepDrains DEF FastFails
<1>2. QED
  BY <1>1, TypeCorrect, PTL DEF Spec, OnlyDrainsAfterCancel

\* Why every task is reached: tasks are numbered, and both cancellers mark all
\* numbers there are.
CancelInv == SlotInv /\ CancelReachesAll

\* A step that only lets tasks end, and does not unmark a scope or raise a flag.
LEMMA SameCancel ==
  ASSUME CancelReachesAll, LiveCalls' \subseteq LiveCalls,
         UNCHANGED <<signalCancelled, aborted, scopeCancelled>>
  PROVE  CancelReachesAll'
BY DEF CancelReachesAll

\* Cancelling the scopes of all calls reaches every task.
LEMMA CancelAll ==
  ASSUME TypeOK, Numbering, CancelScopes, LiveCalls' \subseteq LiveCalls
  PROVE  CancelReachesAll'
<1>1. ASSUME NEW i \in LiveCalls PROVE i \in 1 .. Len(calls)
  BY ExecutorAssumption, LenProperties DEF Numbering, LiveCalls, Live, Calls, TypeOK
<1>2. QED
  BY <1>1 DEF CancelScopes, CancelReachesAll, LiveCalls

\* Every step keeps the cancellation invariant.
LEMMA StepCancelInv == CancelInv /\ [Next]_vars => CancelInv'
<1> SUFFICES ASSUME CancelInv, [Next]_vars PROVE CancelReachesAll'
  BY StepSlotInv DEF CancelInv
<1> USE DEF lineVars, channelVars, flagVars
<1>0. TypeOK /\ Numbering /\ CancelReachesAll
  BY DEF CancelInv, SlotInv
<1>1. CASE \E k \in Kinds : AddToolCall(k) /\ ~FastFails
  BY <1>1 DEF AddToolCall, FastFails, CancelReachesAll
<1>2. CASE LiveCalls' \subseteq LiveCalls
  <2>1. CASE UNCHANGED <<signalCancelled, aborted, scopeCancelled>>
    BY <1>0, <1>2, <2>1, SameCancel
  <2>2. CASE CancelScopes
    BY <1>0, <1>2, <2>2, CancelAll
  <2>3. CASE FireSignal \/ WatcherStops \/ Join \/ WaitOne \/ WaitAll \/ WaitAllWakes
    BY <2>1, <2>3 DEF FireSignal, WatcherStops, Join, WaitOne, WaitAll, WaitAllWakes
  <2>4. CASE WatcherFires
    BY <2>2, <2>4 DEF WatcherFires
  <2>5. CASE \/ \E k \in Kinds : AddToolCall(k)
             \/ \E raised \in BOOLEAN : Leave(raised)
    BY <2>1, <2>5 DEF AddToolCall, Leave
  <2>6. ASSUME NEW i \in Calls, StartTask(i) \/ EnterBody(i) \/ DeliverCancel(i)
        PROVE  CancelReachesAll'
    BY <2>1, <2>6 DEF StartTask, EnterBody, DeliverCancel
  <2>7. ASSUME NEW i \in Calls, NEW v \in {"allowed", "denied", "gateError"}, GateReturns(i, v)
        PROVE  CancelReachesAll'
    BY <2>1, <2>7 DEF GateReturns
  <2>8. ASSUME NEW i \in Calls, NEW o \in BodyOutcomes, BodyReturns(i, o)
        PROVE  CancelReachesAll'
    BY <2>1, <2>2, <2>8 DEF BodyReturns
  <2>9. CASE UNCHANGED vars
    BY <2>1, <2>9 DEF vars
  <2>10. QED
    BY <2>3, <2>4, <2>5, <2>6, <2>7, <2>8, <2>9 DEF Next
<1>3. QED
  BY <1>0, <1>1, <1>2, StepDrains

\* Once the executor knows of the signal, or a sibling has aborted, no task is left
\* whose scope was not cancelled: none can slip in between the look at the flags
\* and the cancelling of the scopes.
THEOREM CancellationReachesAll == Spec => []CancelReachesAll
<1>1. Init => CancelInv
  BY InitSlotInv DEF CancelInv, CancelReachesAll, Init, LiveCalls, Live
<1>2. CancelInv => CancelReachesAll
  BY DEF CancelInv
<1>3. QED
  BY <1>1, <1>2, StepCancelInv, PTL DEF Spec

-----------------------------------------------------------------------------
(* The answers: which calls have one, what it says, how they are reported, *)
(* how the calls in flight are counted, and that with them ToolExecutor    *)
(* implements ToolDispatch.                                                *)

-----------------------------------------------------------------------------
(* What a step does to the tasks and answers: one of four things.          *)

\* No task begins or ends.
Quiet ==
  /\ LiveCalls' = LiveCalls
  /\ UNCHANGED <<calls, results, completions, pending, idleEvents, channelClosed>>
  /\ aborted' = aborted /\ (signalCancelled => signalCancelled')
  /\ mode' = mode \/ (mode = "open" /\ mode' = "joining")
  /\ mode = "open" \/ bodyRaised' = bodyRaised
  /\ bodyRaised' => bodyRaised \/ mode' # "open"

\* A call is added, with a task or, once cancelled or aborted, with an answer.
Added(k) ==
  LET i == Len(calls) + 1 IN
  /\ i \in Calls /\ mode = "open" /\ calls' = Append(calls, k)
  /\ UNCHANGED <<mode, bodyRaised, aborted, signalCancelled, channelClosed>>
  /\ \/ /\ LiveCalls' = LiveCalls \cup {i} /\ i \notin LiveCalls /\ ~FastFails
        /\ pending' = pending + 1 /\ idleEvents' = BusyIdleEvents
        /\ UNCHANGED <<results, completions>>
     \/ /\ LiveCalls' = LiveCalls /\ FastFails /\ RecordResult(i, CancelReason)
        /\ UNCHANGED <<pending, idleEvents>>

\* The task of i ends, with an answer unless the exception of the body stopped it at the gate.
Ended(i) ==
  /\ i \in LiveCalls /\ LiveCalls' = LiveCalls \ {i}
  /\ TaskEnds
  /\ UNCHANGED <<calls, mode, bodyRaised, signalCancelled, channelClosed>>
  /\ \/ \E r \in Results \ {"cancelled"} :
          /\ RecordResult(i, r)
          /\ r = "signal" => signalCancelled
          /\ r = "sibling" => aborted \/ bodyRaised \/ (scopeCancelled[i] /\ ~signalCancelled)
          /\ \/ aborted' = aborted
             \/ aborted' /\ calls[i].aborts /\ r \in {"error", "timeout"}
     \/ bodyRaised /\ phase[i] = "gate" /\ UNCHANGED <<results, completions, aborted>>

\* With no task in flight the holes are filled.
Filled ==
  /\ LiveCalls = {} /\ LiveCalls' = {}
  /\ BackfillResults
  /\ pending' = 0
  /\ SetIdle \/ (pending = 0 /\ UNCHANGED idleEvents)
  /\ UNCHANGED <<calls, bodyRaised, aborted, signalCancelled>>
  /\ \/ UNCHANGED <<mode, channelClosed>>
     \/ mode = "joining" /\ mode' = "exited" /\ channelClosed'

\* How the steps of a task change the set of tasks in flight.
LEMMA LiveChanges ==
  ASSUME TypeOK, NEW i \in LiveCalls
  PROVE  /\ Acquire(i) => LiveCalls' = LiveCalls
         /\ EndTask(i) \/ phase' = [phase EXCEPT ![i] = "done"]
              => LiveCalls' = LiveCalls \ {i}
         /\ \A p \in Live : phase' = [phase EXCEPT ![i] = p] => LiveCalls' = LiveCalls
         /\ phase[i] \in Holding =>
              \A ph \in {phase, Evicted} : ReleaseAndEnd(i, ph) => LiveCalls' = LiveCalls \ {i}
<1>1. Acquire(i) => LiveCalls' = LiveCalls
  BY DEF Acquire, TypeOK, LiveCalls, Live
<1>2. EndTask(i) \/ phase' = [phase EXCEPT ![i] = "done"] => LiveCalls' = LiveCalls \ {i}
  BY DEF EndTask, TypeOK, LiveCalls, Live
<1>3. \A p \in Live : phase' = [phase EXCEPT ![i] = p] => LiveCalls' = LiveCalls
  BY DEF TypeOK, LiveCalls, Live
<1>4. ASSUME phase[i] \in Holding, NEW ph \in {phase, Evicted}, ReleaseAndEnd(i, ph)
      PROVE  LiveCalls' = LiveCalls \ {i}
  <2>1. /\ ph \in [Calls -> Phases]
        /\ \A j \in Calls : ph[j] \in Live <=> phase[j] \in Live
        /\ ph[i] # "queued"
    BY <1>4, EvictedType DEF TypeOK, Evicted, Live, Holding, LiveCalls
  <2>2. CASE phase' = [ph EXCEPT ![i] = "done"]
    BY <2>1, <2>2 DEF LiveCalls, Live
  <2>3. CASE \E j \in Queued(LineOf(i), ph) :
               phase' = [ph EXCEPT ![i] = "done", ![j] = "acquired"]
    BY <2>1, <2>3 DEF LiveCalls, Live, Queued
  <2>4. QED
    BY <1>4, <2>2, <2>3 DEF ReleaseAndEnd
<1>5. QED
  BY <1>1, <1>2, <1>3, <1>4

\* Every step does one of the four things, or nothing.
LEMMA StepKinds ==
  ASSUME SlotInv, [Next]_vars, pending = 0 => LiveCalls = {}
  PROVE  \/ Quiet \/ Filled
         \/ \E k \in Kinds : Added(k)
         \/ \E i \in Calls : Ended(i)
<1> USE DEF lineVars, channelVars, flagVars
<1> TypeOK /\ Numbering
  BY DEF SlotInv
<1>1. UNCHANGED phase => LiveCalls' = LiveCalls
  BY DEF LiveCalls
<1>2. phase' = Evicted => LiveCalls' = LiveCalls
  BY DEF LiveCalls, Evicted, Live
<1>3. CASE FireSignal \/ WatcherStops \/ WaitOne \/ UNCHANGED vars
  BY <1>1, <1>3 DEF Quiet, FireSignal, WatcherStops, WaitOne, vars
<1>4. CASE WatcherFires
  BY <1>2, <1>4 DEF Quiet, WatcherFires
<1>5. ASSUME NEW raised \in BOOLEAN, Leave(raised) PROVE Quiet
  BY <1>1, <1>2, <1>5 DEF Quiet, Leave
<1>6. CASE WaitAll \/ WaitAllWakes
  <2>1. CASE WaitAllPasses
    BY <1>1, <1>6, <2>1 DEF Filled, WaitAll, WaitAllWakes, WaitAllPasses
  <2>2. CASE WaitAllParks
    BY <1>1, <1>6, <2>2 DEF Quiet, WaitAll, WaitAllWakes, WaitAllParks
  <2>3. QED
    BY <1>6, <2>1, <2>2 DEF WaitAll, WaitAllWakes
<1>7. CASE Join
  BY <1>1, <1>7 DEF Filled, Join
<1>8. ASSUME NEW k \in Kinds, AddToolCall(k) PROVE Added(k)
  <2> DEFINE n == Len(calls) + 1
  <2>1. n \in Calls /\ phase[n] = "none"
    BY <1>8, ExecutorAssumption, LenProperties DEF AddToolCall, Numbering, Calls, TypeOK
  <2>2. n \notin LiveCalls
    BY <2>1 DEF LiveCalls, Live
  <2>3. phase' = [phase EXCEPT ![n] = "done"] => LiveCalls' = LiveCalls
    BY <2>1 DEF LiveCalls, Live, TypeOK
  <2>4. phase' = [phase EXCEPT ![n] = "spawned"] => LiveCalls' = LiveCalls \cup {n}
    BY <2>1 DEF LiveCalls, Live, TypeOK
  <2> HIDE DEF n
  <2>5. /\ mode = "open" /\ calls' = Append(calls, k)
        /\ UNCHANGED <<mode, bodyRaised, aborted, signalCancelled, channelClosed>>
    BY <1>8 DEF AddToolCall
  <2>6. CASE FastFails
    <3>1. /\ phase' = [phase EXCEPT ![n] = "done"] /\ RecordResult(n, CancelReason)
          /\ UNCHANGED <<pending, idleEvents>>
      BY <1>8, <2>6 DEF AddToolCall, n
    <3>2. QED
      BY <2>1, <2>3, <2>5, <2>6, <3>1 DEF Added, n
  <2>7. CASE ~FastFails
    <3>1. /\ phase' = [phase EXCEPT ![n] = "spawned"] /\ pending' = pending + 1
          /\ idleEvents' = BusyIdleEvents /\ UNCHANGED <<results, completions>>
      BY <1>8, <2>7 DEF AddToolCall, n
    <3>2. QED
      BY <2>1, <2>2, <2>4, <2>5, <2>7, <3>1 DEF Added, n
  <2>8. QED
    BY <2>6, <2>7
<1>9. ASSUME NEW i \in Calls, StartTask(i) PROVE Quiet \/ Ended(i)
  <2>1. i \in LiveCalls /\ UNCHANGED <<calls, mode, bodyRaised, signalCancelled, aborted,
                                        channelClosed>>
    BY <1>9 DEF StartTask, LiveCalls, Live
  <2>2. CASE RecordResult(i, "notFound") /\ EndTask(i)
    BY <2>1, <2>2, LiveChanges DEF Ended, EndTask, Results
  <2>3. CASE /\ Acquire(i) \/ phase' = [phase EXCEPT ![i] = "gate"]
             /\ UNCHANGED <<results, completions, pending, idleEvents>>
    BY <2>1, <2>3, LiveChanges DEF Quiet, Live
  <2>4. QED
    BY <1>9, <2>2, <2>3 DEF StartTask
<1>10. ASSUME NEW i \in Calls, NEW v \in {"allowed", "denied", "gateError"}, GateReturns(i, v)
       PROVE  Quiet \/ Ended(i)
  <2>1. i \in LiveCalls /\ UNCHANGED <<calls, mode, bodyRaised, signalCancelled, aborted,
                                        channelClosed>>
    BY <1>10 DEF GateReturns, LiveCalls, Live
  <2>2. CASE v # "allowed" /\ RecordResult(i, v) /\ EndTask(i)
    BY <2>1, <2>2, LiveChanges DEF Ended, EndTask, Results
  <2>3. CASE Acquire(i) /\ UNCHANGED <<results, completions, pending, idleEvents>>
    BY <2>1, <2>3, LiveChanges DEF Quiet
  <2>4. QED
    BY <1>10, <2>2, <2>3 DEF GateReturns
<1>11. /\ CancelReason \in Results \ {"cancelled"}
       /\ CancelReason = "signal" <=> signalCancelled
  BY DEF CancelReason, Results
<1>12. ASSUME NEW i \in Calls, EnterBody(i) PROVE Quiet \/ Ended(i)
  <2>1. /\ i \in LiveCalls /\ phase[i] \in Holding
        /\ UNCHANGED <<calls, mode, bodyRaised, signalCancelled, aborted, channelClosed>>
    BY <1>12 DEF EnterBody, LiveCalls, Live, Holding
  <2>2. CASE aborted /\ RecordResult(i, CancelReason) /\ ReleaseAndEnd(i, phase) /\ TaskEnds
    <3>1. LiveCalls' = LiveCalls \ {i}
      BY <2>1, <2>2, LiveChanges
    <3>2. QED
      BY <1>11, <2>1, <2>2, <3>1 DEF Ended
  <2>3. CASE /\ phase' = [phase EXCEPT ![i] = "running"]
             /\ UNCHANGED <<results, completions, pending, idleEvents>>
    BY <2>1, <2>3, LiveChanges DEF Quiet, Live
  <2>4. QED
    BY <1>12, <2>2, <2>3 DEF EnterBody
<1>13. ASSUME NEW i \in Calls, NEW o \in BodyOutcomes, BodyReturns(i, o) PROVE Ended(i)
  <2>1. /\ i \in LiveCalls /\ phase[i] \in Holding
        /\ UNCHANGED <<calls, mode, bodyRaised, signalCancelled, channelClosed>>
        /\ RecordResult(i, o) /\ TaskEnds
    BY <1>13 DEF BodyReturns, LiveCalls, Live, Holding
  <2>2. \E ph \in {phase, Evicted} : ReleaseAndEnd(i, ph)
    BY <1>13 DEF BodyReturns
  <2>3. LiveCalls' = LiveCalls \ {i}
    BY <2>1, <2>2, LiveChanges
  <2>4. \/ aborted' = aborted
        \/ aborted' /\ calls[i].aborts /\ o \in {"error", "timeout"}
    BY <1>13 DEF BodyReturns, TriggersAbort, BodyOutcomes
  <2>5. o \in Results \ {"cancelled"} /\ o # "signal" /\ o # "sibling"
    BY DEF BodyOutcomes, Results
  <2>6. QED
    BY <2>1, <2>3, <2>4, <2>5 DEF Ended
<1>14. ASSUME NEW i \in Calls, DeliverCancel(i) PROVE Ended(i)
  <2>1. /\ i \in LiveCalls
        /\ UNCHANGED <<calls, mode, bodyRaised, signalCancelled, aborted, channelClosed>>
        /\ TaskEnds
    BY <1>14 DEF DeliverCancel, LiveCalls, Live
  <2>2. LiveCalls' = LiveCalls \ {i}
    <3>1. CASE phase[i] = "running" /\ ReleaseAndEnd(i, phase)
      BY <2>1, <3>1, LiveChanges DEF Holding
    <3>2. CASE phase' = [phase EXCEPT ![i] = "done"]
      BY <2>1, <3>2, LiveChanges
    <3>3. QED
      BY <1>14, <3>1, <3>2 DEF DeliverCancel
  <2>3. CASE (scopeCancelled[i] \/ bodyRaised) /\ RecordResult(i, CancelReason)
    BY <1>11, <2>1, <2>2, <2>3 DEF Ended
  <2>4. CASE bodyRaised /\ phase[i] = "gate" /\ UNCHANGED <<results, completions>>
    BY <2>1, <2>2, <2>4 DEF Ended
  <2>5. QED
    BY <1>14, <2>3, <2>4 DEF DeliverCancel
<1>15. QED
  BY <1>3, <1>4, <1>5, <1>6, <1>7, <1>8, <1>9, <1>10, <1>12, <1>13, <1>14 DEF Next

-----------------------------------------------------------------------------
(* The inductive invariant about counts and answers.                       *)

\* How far the exit has come: an exception of the body leaves it at once, the join
\* waits for the tasks, and the channel is closed last.
ExitInv ==
  /\ bodyRaised => mode # "open"
  /\ mode = "exited" => LiveCalls = {}
  /\ channelClosed <=> mode = "exited"

\* A call that was not added has no answer.
AnswersAreToCalls == \A i \in Calls : results[i] # NoResult => i <= Len(calls)

AnswerInv == /\ SlotInv /\ ExitInv /\ AnswersAreToCalls
             /\ PendingCountsTasks /\ EveryTaskAnswers

\* No result of a call is the mark for having none.
LEMMA ResultsAreResults == NoResult \notin Results /\ FallbackReason \in Results
BY DEF NoResult, Results, BodyOutcomes, FallbackReason

\* The numbers of the calls added so far.
LEMMA NumbersAreCalls ==
  ASSUME TypeOK
  PROVE  /\ Len(calls) \in Nat
         /\ \A i : i \in 1 .. Len(calls) <=> i \in Calls /\ i <= Len(calls)
BY ExecutorAssumption, LenProperties DEF TypeOK, Calls

\* Every task in flight belongs to a call that was added.
LEMMA LiveAreNumbered ==
  ASSUME SlotInv PROVE \A i \in LiveCalls : i \in Calls /\ i \in 1 .. Len(calls)
BY NumbersAreCalls DEF SlotInv, Numbering, LiveCalls, Live

\* The current idle event after each way the list of events changes.
LEMMA IdleLast ==
  ASSUME TypeOK
  PROVE  /\ ~BusyIdleEvents[Len(BusyIdleEvents)]
         /\ SetIdle => idleEvents'[Len(idleEvents')]
<1>1. idleEvents \in Seq(BOOLEAN) /\ Len(idleEvents) \in Nat
  BY LenProperties DEF TypeOK
<1>2. SetIdle => idleEvents'[Len(idleEvents')]
  <2>1. Len(idleEvents) \in 1 .. Len(idleEvents)
    BY EmptySeq, LenProperties DEF TypeOK
  <2>2. QED
    BY <1>1, <2>1, ExceptSeq DEF SetIdle
<1>3. ~BusyIdleEvents[Len(BusyIdleEvents)]
  <2>1. CASE idleEvents[Len(idleEvents)]
    <3>1. BusyIdleEvents = Append(idleEvents, FALSE)
      BY <2>1 DEF BusyIdleEvents
    <3>2. FALSE \in BOOLEAN
      OBVIOUS
    <3>3. /\ Len(Append(idleEvents, FALSE)) = Len(idleEvents) + 1
          /\ Append(idleEvents, FALSE)[Len(idleEvents) + 1] = FALSE
      BY <1>1, <3>2, AppendProperties, Zenon
    <3>4. QED
      BY <3>1, <3>3, Zenon
  <2>2. CASE ~idleEvents[Len(idleEvents)]
    BY <2>2 DEF BusyIdleEvents
  <2>3. QED
    BY <2>1, <2>2
<1>4. QED
  BY <1>2, <1>3

\* The count of tasks stays right whatever a step does.
LEMMA StepPending ==
  ASSUME TypeOK, PendingCountsTasks,
         \/ Quiet \/ Filled
         \/ \E k \in Kinds : Added(k)
         \/ \E i \in Calls : Ended(i)
  PROVE  PendingCountsTasks'
<1>1. /\ pending = Cardinality(LiveCalls) /\ pending \in Nat /\ IsFiniteSet(LiveCalls)
      /\ idleEvents[Len(idleEvents)] <=> pending = 0
  BY CallsFinite DEF PendingCountsTasks, TypeOK, LiveCalls
<1>2. CASE Quiet
  BY <1>1, <1>2 DEF Quiet, PendingCountsTasks
<1>3. CASE Filled
  <2>1. LiveCalls' = {} /\ pending' = 0
    BY <1>3 DEF Filled
  <2>2. Cardinality(LiveCalls') = pending'
    BY <2>1, FS_EmptySet
  <2>3. idleEvents'[Len(idleEvents')]
    BY <1>1, <1>3, IdleLast DEF Filled
  <2>4. QED
    BY <2>1, <2>2, <2>3 DEF PendingCountsTasks
<1>4. ASSUME NEW k \in Kinds, Added(k) PROVE PendingCountsTasks'
  <2> DEFINE n == Len(calls) + 1
  <2> HIDE DEF n
  <2>1. CASE LiveCalls' = LiveCalls /\ UNCHANGED <<pending, idleEvents>>
    BY <1>1, <2>1 DEF PendingCountsTasks
  <2>2. CASE /\ LiveCalls' = LiveCalls \cup {n} /\ n \notin LiveCalls
             /\ pending' = pending + 1 /\ idleEvents' = BusyIdleEvents
    <3>1. Cardinality(LiveCalls') = Cardinality(LiveCalls) + 1
      BY <1>1, <2>2, FS_AddElement
    <3>2. pending' = Cardinality(LiveCalls') /\ pending' # 0
      BY <1>1, <2>2, <3>1
    <3>3. ~idleEvents'[Len(idleEvents')]
      BY <2>2, IdleLast
    <3>4. QED
      BY <3>2, <3>3 DEF PendingCountsTasks
  <2>3. QED
    BY <1>4, <2>1, <2>2 DEF Added, n
<1>5. ASSUME NEW i \in Calls, Ended(i) PROVE PendingCountsTasks'
  <2>1. i \in LiveCalls /\ LiveCalls' = LiveCalls \ {i} /\ TaskEnds
    BY <1>5 DEF Ended
  <2>2. Cardinality(LiveCalls') = Cardinality(LiveCalls) - 1
    BY <1>1, <2>1, FS_RemoveElement
  <2>3. pending # 0
    BY <1>1, <2>1, FS_EmptySet
  <2>4. pending' = pending - 1
    BY <1>1, <2>1, <2>3 DEF TaskEnds
  <2>5. idleEvents'[Len(idleEvents')] <=> pending' = 0
    <3>1. CASE pending <= 1
      BY <1>1, <2>1, <2>3, <2>4, <3>1, IdleLast DEF TaskEnds
    <3>2. CASE ~(pending <= 1)
      BY <1>1, <2>1, <2>4, <3>2 DEF TaskEnds
    <3>3. QED
      BY <3>1, <3>2
  <2>6. QED
    BY <1>1, <2>2, <2>4, <2>5 DEF PendingCountsTasks
<1>6. QED
  BY <1>2, <1>3, <1>4, <1>5

\* So do the stages of the exit.
LEMMA StepExit ==
  ASSUME TypeOK, ExitInv,
         \/ Quiet \/ Filled
         \/ \E k \in Kinds : Added(k)
         \/ \E i \in Calls : Ended(i)
  PROVE  ExitInv'
<1>1. CASE Quiet
  BY <1>1 DEF Quiet, ExitInv, TypeOK
<1>2. CASE Filled
  BY <1>2 DEF Filled, ExitInv, TypeOK
<1>3. ASSUME NEW k \in Kinds, Added(k) PROVE ExitInv'
  BY <1>3 DEF Added, ExitInv, TypeOK
<1>4. ASSUME NEW i \in Calls, Ended(i) PROVE ExitInv'
  BY <1>4 DEF Ended, ExitInv, TypeOK
<1>5. QED
  BY <1>1, <1>2, <1>3, <1>4

\* Recording the result of a call that has none changes that one entry.
LEMMA Recorded ==
  ASSUME TypeOK, NEW i \in Calls, NEW r \in Results, RecordResult(i, r), results[i] = NoResult
  PROVE  /\ results' = [results EXCEPT ![i] = r]
         /\ \A j \in Calls : results'[j] = NoResult <=> results[j] = NoResult /\ j # i
BY ResultsAreResults DEF RecordResult, TypeOK

\* Filling the holes leaves none, and no other entry is touched.
LEMMA HolesFilled ==
  ASSUME TypeOK, BackfillResults
  PROVE  /\ \A j \in Calls : results'[j] = IF j \in Missing THEN FallbackReason ELSE results[j]
         /\ \A j \in 1 .. Len(calls) : results'[j] # NoResult
         /\ \A j \in Calls : j \notin 1 .. Len(calls) => results'[j] = results[j]
<1>1. \A j \in Calls : results'[j] = IF j \in Missing THEN FallbackReason ELSE results[j]
  BY DEF BackfillResults
<1>2. FallbackReason # NoResult
  BY ResultsAreResults
<1>3. QED
  BY <1>1, <1>2, NumbersAreCalls DEF Missing

\* A call that is added is the next one: it has no task and no answer yet.
LEMMA AddedIsNew ==
  ASSUME SlotInv, AnswersAreToCalls, NEW k \in Kinds, Added(k)
  PROVE  LET n == Len(calls) + 1 IN
         /\ n \in Calls /\ results[n] = NoResult /\ n \notin LiveCalls
         /\ Len(calls') = n /\ Len(calls) \in Nat
         /\ \A i \in Calls : i <= n <=> i = n \/ i <= Len(calls)
<1> DEFINE n == Len(calls) + 1
<1>1. TypeOK /\ calls \in Seq(Kinds) /\ Len(calls) \in Nat /\ n \in Calls
  BY NumbersAreCalls DEF SlotInv, TypeOK, Added
<1>2. Len(calls') = n
  BY <1>1 DEF Added
<1>3. \A i \in Calls : i \in Nat
  BY ExecutorAssumption DEF Calls
<1>4. results[n] = NoResult
  BY <1>1 DEF AnswersAreToCalls
<1>5. n \notin LiveCalls
  BY <1>1, LiveAreNumbered
<1>6. QED
  BY <1>1, <1>2, <1>3, <1>4, <1>5

\* Only calls that were added get answers.
LEMMA StepAnswersAreToCalls ==
  ASSUME AnswerInv,
         \/ Quiet \/ Filled
         \/ \E k \in Kinds : Added(k)
         \/ \E i \in Calls : Ended(i)
  PROVE  AnswersAreToCalls'
<1> TypeOK /\ SlotInv /\ AnswersAreToCalls
  BY DEF AnswerInv, SlotInv
<1>1. CASE Quiet
  BY <1>1 DEF Quiet, AnswersAreToCalls
<1>2. CASE Filled
  <2>1. UNCHANGED calls /\ BackfillResults
    BY <1>2 DEF Filled
  <2>2. QED
    BY <2>1, HolesFilled, NumbersAreCalls DEF AnswersAreToCalls
<1>3. ASSUME NEW k \in Kinds, Added(k) PROVE AnswersAreToCalls'
  <2> DEFINE n == Len(calls) + 1
  <2>1. /\ n \in Calls /\ results[n] = NoResult /\ Len(calls') = n
        /\ \A i \in Calls : i <= n <=> i = n \/ i <= Len(calls)
    BY <1>3, AddedIsNew
  <2>2. UNCHANGED results \/ RecordResult(n, CancelReason)
    BY <1>3 DEF Added
  <2> HIDE DEF n
  <2>3. \A i \in Calls : results'[i] # NoResult => results[i] # NoResult \/ i = n
    BY <2>1, <2>2, Recorded, ReasonType
  <2>4. QED
    BY <2>1, <2>3 DEF AnswersAreToCalls
<1>4. ASSUME NEW i \in Calls, Ended(i) PROVE AnswersAreToCalls'
  <2>1. UNCHANGED calls /\ i \in LiveCalls
    BY <1>4 DEF Ended
  <2>2. UNCHANGED results \/ \E r \in Results : RecordResult(i, r)
    BY <1>4 DEF Ended
  <2>3. \A j \in Calls : results'[j] # NoResult => results[j] # NoResult \/ j = i
    BY <2>2 DEF RecordResult, TypeOK
  <2>4. i <= Len(calls)
    BY <2>1, LiveAreNumbered, NumbersAreCalls
  <2>5. QED
    BY <2>1, <2>3, <2>4 DEF AnswersAreToCalls
<1>5. QED
  BY <1>1, <1>2, <1>3, <1>4

\* A call is answered exactly when its task ends.
LEMMA StepAnswers ==
  ASSUME AnswerInv,
         \/ Quiet \/ Filled
         \/ \E k \in Kinds : Added(k)
         \/ \E i \in Calls : Ended(i)
  PROVE  EveryTaskAnswers'
<1> TypeOK /\ SlotInv /\ ExitInv /\ AnswersAreToCalls /\ EveryTaskAnswers
  BY DEF AnswerInv, SlotInv
<1> SUFFICES ASSUME NEW j \in 1 .. Len(calls')
             PROVE  IF j \in LiveCalls' THEN results'[j] = NoResult
                    ELSE results'[j] # NoResult \/ (bodyRaised' /\ mode' = "joining")
  BY DEF EveryTaskAnswers
<1>1. CASE Quiet
  BY <1>1 DEF Quiet, EveryTaskAnswers, ExitInv
<1>2. CASE Filled
  <2>1. UNCHANGED calls /\ BackfillResults /\ LiveCalls' = {}
    BY <1>2 DEF Filled
  <2>2. QED
    BY <2>1, HolesFilled
<1>3. ASSUME NEW k \in Kinds, Added(k)
      PROVE  IF j \in LiveCalls' THEN results'[j] = NoResult
             ELSE results'[j] # NoResult \/ (bodyRaised' /\ mode' = "joining")
  <2> DEFINE n == Len(calls) + 1
  <2>1. /\ n \in Calls /\ results[n] = NoResult /\ n \notin LiveCalls
        /\ Len(calls') = n /\ Len(calls) \in Nat
    BY <1>3, AddedIsNew
  <2>2. j = n \/ j \in 1 .. Len(calls)
    BY <2>1
  <2>3. j \in Calls
    BY <2>1, <2>2, NumbersAreCalls
  <2>4. mode = "open" /\ ~bodyRaised /\ UNCHANGED <<mode, bodyRaised>>
    BY <1>3 DEF Added, ExitInv
  <2>5. CASE LiveCalls' = LiveCalls \cup {n} /\ UNCHANGED results
    <3> HIDE DEF n
    <3>1. QED
      BY <2>1, <2>2, <2>4, <2>5 DEF EveryTaskAnswers
  <2>6. CASE LiveCalls' = LiveCalls /\ RecordResult(n, CancelReason)
    <3> HIDE DEF n
    <3>1. \A i \in Calls : results'[i] = NoResult <=> results[i] = NoResult /\ i # n
      BY <2>1, <2>6, Recorded, ReasonType
    <3>2. j # n => IF j \in LiveCalls THEN results[j] = NoResult ELSE results[j] # NoResult
      BY <2>2, <2>4 DEF EveryTaskAnswers
    <3>3. QED
      BY <2>1, <2>3, <2>6, <3>1, <3>2
  <2>7. QED
    BY <1>3, <2>5, <2>6 DEF Added
<1>4. ASSUME NEW i \in Calls, Ended(i)
      PROVE  IF j \in LiveCalls' THEN results'[j] = NoResult
             ELSE results'[j] # NoResult \/ (bodyRaised' /\ mode' = "joining")
  <2>1. /\ i \in LiveCalls /\ LiveCalls' = LiveCalls \ {i}
        /\ UNCHANGED <<calls, mode, bodyRaised>>
    BY <1>4 DEF Ended
  <2>2. i \in 1 .. Len(calls) /\ j \in Calls /\ j \in 1 .. Len(calls)
    BY <2>1, LiveAreNumbered, NumbersAreCalls
  <2>3. results[i] = NoResult
    BY <2>1, <2>2 DEF EveryTaskAnswers
  <2>4. CASE \E r \in Results : RecordResult(i, r)
    <3>1. \A h \in Calls : results'[h] = NoResult <=> results[h] = NoResult /\ h # i
      BY <2>3, <2>4, Recorded
    <3>2. QED
      BY <2>1, <2>2, <3>1 DEF EveryTaskAnswers
  <2>5. CASE bodyRaised /\ UNCHANGED results
    <3>1. mode = "joining"
      BY <2>1, <2>5 DEF ExitInv, TypeOK
    <3>2. QED
      BY <2>1, <2>2, <2>5, <3>1 DEF EveryTaskAnswers
  <2>6. QED
    BY <1>4, <2>4, <2>5 DEF Ended
<1>5. QED
  BY <1>1, <1>2, <1>3, <1>4

\* Every step keeps the invariant.
LEMMA StepAnswerInv == AnswerInv /\ [Next]_vars => AnswerInv'
<1> SUFFICES ASSUME AnswerInv, [Next]_vars PROVE AnswerInv'
  OBVIOUS
<1>1. SlotInv /\ TypeOK /\ PendingCountsTasks /\ ExitInv
  BY DEF AnswerInv, SlotInv
<1>2. pending = 0 => LiveCalls = {}
  <2>1. IsFiniteSet(LiveCalls)
    BY CallsFinite DEF LiveCalls
  <2>2. QED
    BY <1>1, <2>1, FS_EmptySet DEF PendingCountsTasks
<1>3. \/ Quiet \/ Filled
      \/ \E k \in Kinds : Added(k)
      \/ \E i \in Calls : Ended(i)
  BY <1>1, <1>2, StepKinds
<1>4. SlotInv'
  BY <1>1, StepSlotInv
<1>5. QED
  BY <1>1, <1>3, <1>4, StepPending, StepExit, StepAnswersAreToCalls, StepAnswers DEF AnswerInv

\* No call, no task and no result: the invariant holds at first.
LEMMA InitAnswerInv == Init => AnswerInv
<1> SUFFICES ASSUME Init PROVE AnswerInv
  OBVIOUS
<1>1. SlotInv
  BY InitSlotInv
<1>2. LiveCalls = {}
  BY DEF Init, LiveCalls, Live
<1>3. PendingCountsTasks
  BY <1>2, FS_EmptySet DEF Init, PendingCountsTasks
<1>4. ExitInv /\ AnswersAreToCalls /\ EveryTaskAnswers
  BY <1>2 DEF Init, ExitInv, AnswersAreToCalls, EveryTaskAnswers
<1>5. QED
  BY <1>1, <1>3, <1>4 DEF AnswerInv

\* wait_all may rely on _pending and on the idle event: they say whether tasks are in
\* flight, whatever path each task took out.
THEOREM PendingIsRight == Spec => []PendingCountsTasks
<1>1. AnswerInv => PendingCountsTasks
  BY DEF AnswerInv
<1>2. QED
  BY <1>1, InitAnswerInv, StepAnswerInv, PTL DEF Spec

\* Every call whose task ended has its answer, and none has it before; the holes that
\* an exception in the body leaves are filled before the exit is over.
THEOREM EveryCallAnswered == Spec => []EveryTaskAnswers
<1>1. AnswerInv => EveryTaskAnswers
  BY DEF AnswerInv
<1>2. QED
  BY <1>1, InitAnswerInv, StepAnswerInv, PTL DEF Spec

-----------------------------------------------------------------------------
(* The completion channel.                                                 *)

\* The holes are pushed each once: an ascending sequence of the right length lists
\* its set without repetition.
LEMMA AscendingLists ==
  ASSUME NEW S \in SUBSET Calls, NEW s \in Ascending(S)
  PROVE  /\ s \in Seq(Calls) /\ Len(s) = Cardinality(S)
         /\ \A p, q \in 1 .. Len(s) : s[p] = s[q] => p = q
         /\ \A i : i \in S <=> \E p \in 1 .. Len(s) : s[p] = i
<1> DEFINE n == Cardinality(S)
<1>1. IsFiniteSet(S) /\ n \in Nat
  BY CallsFinite
<1>2. s \in [1 .. n -> S] /\ \A a, b \in 1 .. n : a < b => s[a] < s[b]
  BY DEF Ascending
<1>3. s \in Seq(Calls) /\ Len(s) = n
  <2>1. s \in [1 .. n -> Calls]
    BY <1>2
  <2>2. s \in Seq(Calls)
    BY <1>1, <2>1, SeqDef
  <2>3. QED
    BY <1>1, <1>2, <2>2, LenProperties
<1>4. ASSUME NEW p \in 1 .. n, NEW q \in 1 .. n, s[p] = s[q] PROVE p = q
  <2>1. s[p] \in Nat /\ s[q] \in Nat
    <3>1. s[p] \in Calls /\ s[q] \in Calls
      BY <1>2
    <3>2. QED
      BY <3>1, ExecutorAssumption DEF Calls
  <2>2. ~(p < q) /\ ~(q < p)
    BY <1>2, <1>4, <2>1
  <2>3. QED
    BY <1>1, <2>2
<1>5. s \in Injection(1 .. n, S)
  BY <1>2, <1>4 DEF Injection, IsInjective
<1>6. IsFiniteSet(1 .. n) /\ Cardinality(1 .. n) = n
  BY <1>1, FS_Interval
<1>7. s \in Surjection(1 .. n, S)
  BY <1>1, <1>5, <1>6, FS_Injection
<1>8. \A i : i \in S <=> \E p \in 1 .. n : s[p] = i
  BY <1>2, <1>7 DEF Surjection
<1>9. QED
  BY <1>3, <1>4, <1>8

\* Pushing new items after old ones keeps the channel free of repetition.
LEMMA Pushed ==
  ASSUME NEW s \in Seq(Calls), NEW t \in Seq(Calls)
  PROVE  LET u == s \o t IN
         /\ \A i : (\E p \in DOMAIN u : u[p] = i)
                     <=> (\E p \in DOMAIN s : s[p] = i) \/ (\E p \in 1 .. Len(t) : t[p] = i)
         /\ /\ \A p, q \in DOMAIN s : s[p] = s[q] => p = q
            /\ \A p, q \in 1 .. Len(t) : t[p] = t[q] => p = q
            /\ \A p \in DOMAIN s, q \in 1 .. Len(t) : s[p] # t[q]
            => \A p, q \in DOMAIN u : u[p] = u[q] => p = q
<1> DEFINE u == s \o t
<1>1. /\ Len(s) \in Nat /\ Len(t) \in Nat /\ DOMAIN s = 1 .. Len(s)
  BY LenProperties
<1>2. /\ u \in Seq(Calls) /\ Len(u) = Len(s) + Len(t)
      /\ \A p \in 1 .. (Len(s) + Len(t)) :
           u[p] = IF p <= Len(s) THEN s[p] ELSE t[p - Len(s)]
  BY ConcatProperties
<1>3. DOMAIN u = 1 .. (Len(s) + Len(t))
  BY <1>2, LenProperties
<1> HIDE DEF u
<1>4. ASSUME NEW i, NEW p \in DOMAIN u, u[p] = i
      PROVE  (\E q \in DOMAIN s : s[q] = i) \/ (\E q \in 1 .. Len(t) : t[q] = i)
  <2>1. CASE p <= Len(s)
    BY <1>1, <1>2, <1>3, <1>4, <2>1
  <2>2. CASE ~(p <= Len(s))
    <3>1. p - Len(s) \in 1 .. Len(t) /\ t[p - Len(s)] = i
      BY <1>1, <1>2, <1>3, <1>4, <2>2
    <3>2. QED
      BY <3>1
  <2>3. QED
    BY <2>1, <2>2
<1>5. ASSUME NEW i, NEW p \in DOMAIN s, s[p] = i
      PROVE  \E q \in DOMAIN u : u[q] = i
  <2>1. p \in DOMAIN u /\ u[p] = i
    BY <1>1, <1>2, <1>3, <1>5
  <2>2. QED
    BY <2>1
<1>6. ASSUME NEW i, NEW p \in 1 .. Len(t), t[p] = i
      PROVE  \E q \in DOMAIN u : u[q] = i
  <2>1. /\ p + Len(s) \in 1 .. (Len(s) + Len(t))
        /\ ~(p + Len(s) <= Len(s)) /\ (p + Len(s)) - Len(s) = p
    BY <1>1
  <2>2. u[p + Len(s)] = t[(p + Len(s)) - Len(s)]
    BY <1>2, <2>1
  <2>3. QED
    BY <1>3, <1>6, <2>1, <2>2
<1>7. ASSUME \A p, q \in DOMAIN s : s[p] = s[q] => p = q,
             \A p, q \in 1 .. Len(t) : t[p] = t[q] => p = q,
             \A p \in DOMAIN s, q \in 1 .. Len(t) : s[p] # t[q],
             NEW p \in DOMAIN u, NEW q \in DOMAIN u, u[p] = u[q]
      PROVE  p = q
  <2>1. CASE p <= Len(s) /\ q <= Len(s)
    BY <1>1, <1>2, <1>3, <1>7, <2>1
  <2>2. CASE p > Len(s) /\ q > Len(s)
    <3>1. p - Len(s) \in 1 .. Len(t) /\ q - Len(s) \in 1 .. Len(t)
      BY <1>1, <1>3, <2>2
    <3>2. t[p - Len(s)] = t[q - Len(s)]
      BY <1>1, <1>2, <1>3, <1>7, <2>2
    <3>3. p - Len(s) = q - Len(s)
      BY <1>7, <3>1, <3>2
    <3>4. QED
      BY <1>1, <1>3, <3>3
  <2>3. CASE p <= Len(s) /\ q > Len(s)
    <3>1. p \in DOMAIN s /\ q - Len(s) \in 1 .. Len(t) /\ s[p] = t[q - Len(s)]
      BY <1>1, <1>2, <1>3, <1>7, <2>3
    <3>2. QED
      BY <1>7, <3>1
  <2>4. CASE p > Len(s) /\ q <= Len(s)
    <3>1. q \in DOMAIN s /\ p - Len(s) \in 1 .. Len(t) /\ s[q] = t[p - Len(s)]
      BY <1>1, <1>2, <1>3, <1>7, <2>4
    <3>2. QED
      BY <1>7, <3>1
  <2>5. QED
    BY <1>1, <1>3, <2>1, <2>2, <2>3, <2>4
<1>8. QED
  BY <1>4, <1>5, <1>6, <1>7 DEF u

\* What is recorded is pushed, as long as the channel is open.
LEMMA RecordAgrees ==
  ASSUME TypeOK, CompletionsAgree, ~channelClosed,
         NEW i \in Calls, NEW r \in Results, RecordResult(i, r)
  PROVE  CompletionsAgree'
<1>1. CASE results[i] # NoResult
  BY <1>1 DEF RecordResult, CompletionsAgree
<1>2. CASE results[i] = NoResult
  <2>1. /\ \A j \in Calls : results'[j] # NoResult <=> results[j] # NoResult \/ j = i
        /\ completions' = Append(completions, i)
    BY <1>2, Recorded DEF RecordResult
  <2>2. completions \in Seq(Calls) /\ <<i>> \in Seq(Calls) /\ Len(<<i>>) = 1 /\ <<i>>[1] = i
    BY DEF TypeOK
  <2>3. Append(completions, i) = completions \o <<i>>
    BY <2>2
  <2>4. \A p \in DOMAIN completions : completions[p] # i
    BY <1>2 DEF CompletionsAgree
  <2>5. \A j : (\E p \in DOMAIN completions' : completions'[p] = j)
                <=> (\E p \in DOMAIN completions : completions[p] = j)
                    \/ (\E p \in 1 .. Len(<<i>>) : <<i>>[p] = j)
    <3>1. \A j : (\E p \in DOMAIN (completions \o <<i>>) : (completions \o <<i>>)[p] = j)
                  <=> (\E p \in DOMAIN completions : completions[p] = j)
                      \/ (\E p \in 1 .. Len(<<i>>) : <<i>>[p] = j)
      BY <2>2, Pushed, Zenon
    <3>2. completions' = completions \o <<i>>
      BY <2>1, <2>3
    <3>3. QED
      BY <3>1, <3>2, Zenon
  <2>6. \A p, q \in DOMAIN completions' : completions'[p] = completions'[q] => p = q
    <3>1. \A p, q \in DOMAIN completions : completions[p] = completions[q] => p = q
      BY DEF CompletionsAgree
    <3>2. \A p, q \in 1 .. Len(<<i>>) : p = q
      BY <2>2
    <3>3. \A p \in DOMAIN completions, q \in 1 .. Len(<<i>>) : completions[p] # <<i>>[q]
      BY <2>2, <2>4
    <3>4. \A p, q \in DOMAIN (completions \o <<i>>) :
             (completions \o <<i>>)[p] = (completions \o <<i>>)[q] => p = q
      <4>1. /\ \A p, q \in DOMAIN completions : completions[p] = completions[q] => p = q
            /\ \A p, q \in 1 .. Len(<<i>>) : <<i>>[p] = <<i>>[q] => p = q
            /\ \A p \in DOMAIN completions, q \in 1 .. Len(<<i>>) : completions[p] # <<i>>[q]
            => \A p, q \in DOMAIN (completions \o <<i>>) :
                 (completions \o <<i>>)[p] = (completions \o <<i>>)[q] => p = q
        BY <2>2, Pushed, Zenon
      <4>2. \A p, q \in 1 .. Len(<<i>>) : <<i>>[p] = <<i>>[q] => p = q
        BY <3>2, Zenon
      <4>3. QED
        BY <3>1, <3>3, <4>1, <4>2, Zenon
    <3>5. completions' = completions \o <<i>>
      BY <2>1, <2>3
    <3>6. QED
      BY <3>4, <3>5, Zenon
  <2>7. \A j : (\E p \in 1 .. Len(<<i>>) : <<i>>[p] = j) <=> j = i
    BY <2>2
  <2>8. QED
    BY <2>1, <2>5, <2>6, <2>7 DEF CompletionsAgree
<1>3. QED
  BY <1>1, <1>2

\* Every step keeps results and completions in agreement.
LEMMA StepAgree == AnswerInv /\ CompletionsAgree /\ [Next]_vars => CompletionsAgree'
<1> SUFFICES ASSUME AnswerInv, CompletionsAgree, [Next]_vars PROVE CompletionsAgree'
  OBVIOUS
<1>1. SlotInv /\ TypeOK /\ PendingCountsTasks /\ ExitInv /\ EveryTaskAnswers /\ AnswersAreToCalls
  BY DEF AnswerInv, SlotInv
<1>2. pending = 0 => LiveCalls = {}
  <2>1. IsFiniteSet(LiveCalls)
    BY CallsFinite DEF LiveCalls
  <2>2. QED
    BY <1>1, <2>1, FS_EmptySet DEF PendingCountsTasks
<1>3. CASE UNCHANGED <<results, completions>>
  BY <1>3 DEF CompletionsAgree
<1>4. CASE Quiet
  BY <1>3, <1>4 DEF Quiet
<1>5. ASSUME NEW k \in Kinds, Added(k) PROVE CompletionsAgree'
  <2>1. ~channelClosed /\ Len(calls) + 1 \in Calls
    BY <1>1, <1>5 DEF Added, ExitInv
  <2>2. CASE RecordResult(Len(calls) + 1, CancelReason)
    BY <1>1, <2>1, <2>2, RecordAgrees, ReasonType
  <2>3. QED
    BY <1>3, <1>5, <2>2 DEF Added
<1>6. ASSUME NEW i \in Calls, Ended(i) PROVE CompletionsAgree'
  <2>1. ~channelClosed
    BY <1>1, <1>6 DEF Ended, ExitInv
  <2>2. ASSUME NEW q \in Results, RecordResult(i, q) PROVE CompletionsAgree'
    BY <1>1, <2>1, <2>2, RecordAgrees
  <2>3. QED
    BY <1>3, <1>6, <2>2 DEF Ended
<1>7. CASE Filled
  <2>1. BackfillResults /\ LiveCalls = {}
    BY <1>7 DEF Filled
  <2>2. \A j \in Calls : results'[j] # NoResult <=> results[j] # NoResult \/ j \in Missing
    BY <1>1, <2>1, HolesFilled, ResultsAreResults, NumbersAreCalls
  <2>3. Missing \subseteq Calls /\ \A j \in Missing : results[j] = NoResult
    BY <1>1, NumbersAreCalls DEF Missing
  <2>4. CASE channelClosed
    <3>1. mode = "exited"
      BY <1>1, <2>4 DEF ExitInv
    <3>2. Missing = {}
      BY <2>1, <3>1, <1>1 DEF Missing, EveryTaskAnswers
    <3>3. UNCHANGED completions
      BY <2>1, <2>4 DEF BackfillResults
    <3>4. QED
      BY <2>2, <3>2, <3>3 DEF CompletionsAgree
  <2>5. CASE ~channelClosed
    <3>1. PICK s \in Ascending(Missing) : completions' = completions \o s
      BY <2>1, <2>5 DEF BackfillResults
    <3>2. /\ s \in Seq(Calls)
          /\ \A p, q \in 1 .. Len(s) : s[p] = s[q] => p = q
          /\ \A i : i \in Missing <=> \E p \in 1 .. Len(s) : s[p] = i
      BY <2>3, AscendingLists
    <3>3. completions \in Seq(Calls)
      BY <1>1 DEF TypeOK
    <3>4. \A p \in DOMAIN completions, q \in 1 .. Len(s) : completions[p] # s[q]
      <4>1. ASSUME NEW p \in DOMAIN completions, NEW q \in 1 .. Len(s), completions[p] = s[q]
            PROVE  FALSE
        <5>1. s[q] \in Missing
          BY <3>2
        <5>2. results[s[q]] # NoResult
          BY <2>3, <4>1, <5>1 DEF CompletionsAgree
        <5>3. QED
          BY <2>3, <5>1, <5>2
      <4>2. QED
        BY <4>1
    <3>5. \A p, q \in DOMAIN completions : completions[p] = completions[q] => p = q
      BY DEF CompletionsAgree
    <3>6. \A p, q \in DOMAIN completions' : completions'[p] = completions'[q] => p = q
      BY <3>1, <3>2, <3>3, <3>4, <3>5, Pushed
    <3>7. \A i : (\E p \in DOMAIN completions' : completions'[p] = i)
                  <=> (\E p \in DOMAIN completions : completions[p] = i) \/ i \in Missing
      <4> TAKE i
      <4>1. (\E p \in DOMAIN completions' : completions'[p] = i)
              <=> (\E p \in DOMAIN completions : completions[p] = i)
                  \/ (\E p \in 1 .. Len(s) : s[p] = i)
        <5>1. (\E p \in DOMAIN (completions \o s) : (completions \o s)[p] = i)
                <=> (\E p \in DOMAIN completions : completions[p] = i)
                    \/ (\E p \in 1 .. Len(s) : s[p] = i)
          BY <3>2, <3>3, Pushed
        <5>2. QED
          BY <3>1, <5>1, Zenon
      <4>2. i \in Missing <=> \E p \in 1 .. Len(s) : s[p] = i
        BY <3>2
      <4>3. QED
        BY <4>1, <4>2
    <3>8. QED
      BY <2>2, <3>6, <3>7 DEF CompletionsAgree
  <2>6. QED
    BY <2>4, <2>5
<1>8. QED
  BY <1>1, <1>2, <1>4, <1>5, <1>6, <1>7, StepKinds

\* iter_completions reports every result wait_all returns, each once: also the ones
\* filled in while the executor is left, because the channel is closed after them.
THEOREM ResultsAndCompletionsAgree == Spec => []CompletionsAgree
<1>1. Init => CompletionsAgree
  BY DEF Init, CompletionsAgree
<1>2. QED
  BY <1>1, StepAgree, InitAnswerInv, StepAnswerInv, PTL DEF Spec

-----------------------------------------------------------------------------
(* What the answers say.                                                   *)

\* A cancelled scope has its cause in one of the two flags.
ScopeCause == \A i \in Calls : scopeCancelled[i] => signalCancelled \/ aborted

ReasonInv == AnswerInv /\ ScopeCause /\ ReasonsNameTheCause /\ AbortHasCulprit

\* The flags stay up, and scopes are cancelled only by steps that raise one.
LEMMA StepFlags ==
  ASSUME TypeOK, [Next]_vars
  PROVE  /\ signalCancelled => signalCancelled'
         /\ aborted => aborted'
         /\ UNCHANGED scopeCancelled \/ signalCancelled' \/ aborted'
<1> USE DEF lineVars, channelVars, flagVars
<1>1. CASE \/ UNCHANGED <<signalCancelled, aborted, scopeCancelled>>
           \/ signalCancelled' = TRUE /\ UNCHANGED aborted
           \/ aborted' = TRUE /\ UNCHANGED signalCancelled
  BY <1>1
<1>2. CASE FireSignal \/ WatcherStops \/ Join \/ WaitOne \/ WaitAll \/ WaitAllWakes
  BY <1>1, <1>2 DEF FireSignal, WatcherStops, Join, WaitOne, WaitAll, WaitAllWakes
<1>3. CASE WatcherFires
  BY <1>1, <1>3 DEF WatcherFires
<1>4. CASE (\E k \in Kinds : AddToolCall(k)) \/ (\E raised \in BOOLEAN : Leave(raised))
  BY <1>1, <1>4 DEF AddToolCall, Leave
<1>5. ASSUME NEW i \in Calls, StartTask(i) \/ EnterBody(i) \/ DeliverCancel(i)
      PROVE  UNCHANGED <<signalCancelled, aborted, scopeCancelled>>
  BY <1>5 DEF StartTask, EnterBody, DeliverCancel
<1>6. ASSUME NEW i \in Calls, NEW v \in {"allowed", "denied", "gateError"}, GateReturns(i, v)
      PROVE  UNCHANGED <<signalCancelled, aborted, scopeCancelled>>
  BY <1>6 DEF GateReturns
<1>7. ASSUME NEW i \in Calls, NEW o \in BodyOutcomes, BodyReturns(i, o)
      PROVE  \/ UNCHANGED <<signalCancelled, aborted, scopeCancelled>>
             \/ aborted' = TRUE /\ UNCHANGED signalCancelled
  BY <1>7 DEF BodyReturns
<1>8. CASE UNCHANGED vars
  BY <1>1, <1>8 DEF vars
<1>9. QED
  BY <1>1, <1>2, <1>3, <1>4, <1>5, <1>6, <1>7, <1>8 DEF Next

\* An answer is final: no step overwrites it, and its call stays what it was.
LEMMA AnswersAreFinal ==
  ASSUME TypeOK,
         \/ Quiet \/ Filled
         \/ \E k \in Kinds : Added(k)
         \/ \E i \in Calls : Ended(i)
  PROVE  /\ \A j \in Calls : results[j] # NoResult => results'[j] = results[j]
         /\ Len(calls) <= Len(calls') /\ \A j \in 1 .. Len(calls) : calls'[j] = calls[j]
<1>1. \/ UNCHANGED results \/ BackfillResults
      \/ \E i \in Calls, r \in Results : RecordResult(i, r)
  <2>1. ASSUME NEW k \in Kinds, Added(k)
        PROVE  UNCHANGED results \/ \E i \in Calls, r \in Results : RecordResult(i, r)
    BY <2>1, ReasonType DEF Added
  <2>2. ASSUME NEW i \in Calls, Ended(i)
        PROVE  UNCHANGED results \/ \E r \in Results : RecordResult(i, r)
    BY <2>2 DEF Ended
  <2>3. QED
    BY <2>1, <2>2 DEF Quiet, Filled
<1>2. \A j \in Calls : results[j] # NoResult => results'[j] = results[j]
  <2>1. CASE UNCHANGED results
    BY <2>1
  <2>2. CASE BackfillResults
    BY <2>2, HolesFilled DEF Missing
  <2>3. ASSUME NEW i \in Calls, NEW r \in Results, RecordResult(i, r)
        PROVE  \A j \in Calls : results[j] # NoResult => results'[j] = results[j]
    BY <2>3 DEF RecordResult, TypeOK
  <2>4. QED
    BY <1>1, <2>1, <2>2, <2>3
<1>3. UNCHANGED calls \/ \E k \in Kinds : calls' = Append(calls, k)
  BY DEF Quiet, Filled, Added, Ended
<1>4. calls \in Seq(Kinds) /\ Len(calls) \in Nat
  BY LenProperties DEF TypeOK
<1>5. ASSUME NEW k \in Kinds, calls' = Append(calls, k)
      PROVE  Len(calls) <= Len(calls') /\ \A j \in 1 .. Len(calls) : calls'[j] = calls[j]
  BY <1>4, <1>5
<1>6. QED
  BY <1>2, <1>3, <1>4, <1>5

\* The texts of cancelled results keep naming a cause.
LEMMA StepReasons == ReasonInv /\ [Next]_vars => ReasonInv'
<1> SUFFICES ASSUME ReasonInv, [Next]_vars
             PROVE  ScopeCause' /\ ReasonsNameTheCause' /\ AbortHasCulprit'
  BY StepAnswerInv DEF ReasonInv
<1>1. /\ AnswerInv /\ ScopeCause /\ ReasonsNameTheCause /\ AbortHasCulprit
      /\ SlotInv /\ TypeOK /\ PendingCountsTasks /\ ExitInv /\ EveryTaskAnswers /\ AnswersAreToCalls
  BY DEF ReasonInv, AnswerInv, SlotInv
<1>2. pending = 0 => LiveCalls = {}
  <2>1. IsFiniteSet(LiveCalls)
    BY CallsFinite DEF LiveCalls
  <2>2. QED
    BY <1>1, <2>1, FS_EmptySet DEF PendingCountsTasks
<1>3. \/ Quiet \/ Filled
      \/ \E k \in Kinds : Added(k)
      \/ \E i \in Calls : Ended(i)
  BY <1>1, <1>2, StepKinds
<1>4. /\ signalCancelled => signalCancelled'
      /\ aborted => aborted'
      /\ UNCHANGED scopeCancelled \/ signalCancelled' \/ aborted'
  BY <1>1, StepFlags
<1>5. bodyRaised => bodyRaised'
  BY <1>1, <1>3 DEF Quiet, Filled, Added, Ended, ExitInv
<1>6. ScopeCause'
  BY <1>1, <1>4 DEF ScopeCause
<1>7. ASSUME NEW j \in Calls, NEW r \in Results,
             results' = [results EXCEPT ![j] = r] \/ UNCHANGED results,
             r = "signal" => signalCancelled,
             r = "sibling" => aborted \/ bodyRaised,
             r # "cancelled"
      PROVE  ReasonsNameTheCause'
  BY <1>1, <1>4, <1>5, <1>7 DEF ReasonsNameTheCause, TypeOK
<1>8. ReasonsNameTheCause'
  <2>1. CASE UNCHANGED results
    BY <1>1, <1>4, <1>5, <2>1 DEF ReasonsNameTheCause
  <2>2. CASE Quiet
    BY <2>1, <2>2 DEF Quiet
  <2>3. ASSUME NEW k \in Kinds, Added(k) PROVE ReasonsNameTheCause'
    <3>1. CASE FastFails /\ RecordResult(Len(calls) + 1, CancelReason)
      <4>1. Len(calls) + 1 \in Calls
        BY <2>3 DEF Added
      <4>2. /\ CancelReason \in Results /\ CancelReason # "cancelled"
            /\ CancelReason = "signal" => signalCancelled
            /\ CancelReason = "sibling" => aborted
        BY <3>1 DEF FastFails, CancelReason, Results
      <4>3. \/ results' = [results EXCEPT ![Len(calls) + 1] = CancelReason]
            \/ UNCHANGED results
        BY <3>1 DEF RecordResult
      <4>4. QED
        BY <1>7, <4>1, <4>2, <4>3
    <3>2. QED
      BY <2>1, <2>3, <3>1 DEF Added
  <2>4. ASSUME NEW i \in Calls, Ended(i) PROVE ReasonsNameTheCause'
    <3>1. ASSUME NEW r \in Results \ {"cancelled"}, RecordResult(i, r),
                 r = "signal" => signalCancelled,
                 r = "sibling" => \/ aborted \/ bodyRaised
                                  \/ scopeCancelled[i] /\ ~signalCancelled
          PROVE  ReasonsNameTheCause'
      <4>1. r = "sibling" => aborted \/ bodyRaised
        BY <1>1, <3>1 DEF ScopeCause
      <4>2. results' = [results EXCEPT ![i] = r] \/ UNCHANGED results
        BY <3>1 DEF RecordResult
      <4>3. QED
        BY <1>7, <3>1, <4>1, <4>2
    <3>2. QED
      BY <2>1, <2>4, <3>1 DEF Ended
  <2>5. CASE Filled
    <3>1. BackfillResults /\ LiveCalls = {}
      BY <2>5 DEF Filled
    <3>2. \A j \in Calls : results'[j] = IF j \in Missing THEN FallbackReason ELSE results[j]
      BY <1>1, <3>1, HolesFilled
    <3>3. \A j \in Missing : bodyRaised
      BY <1>1, <3>1 DEF Missing, EveryTaskAnswers
    <3>4. /\ FallbackReason = "signal" => signalCancelled
          /\ FallbackReason # "sibling"
      BY DEF FallbackReason
    <3>5. QED
      BY <1>1, <1>4, <1>5, <3>2, <3>3, <3>4 DEF ReasonsNameTheCause
  <2>6. QED
    BY <1>3, <2>2, <2>3, <2>4, <2>5
<1>9. AbortHasCulprit'
  <2>1. /\ \A j \in Calls : results[j] # NoResult => results'[j] = results[j]
        /\ Len(calls) <= Len(calls') /\ \A j \in 1 .. Len(calls) : calls'[j] = calls[j]
    BY <1>1, <1>3, AnswersAreFinal
  <2>2. /\ Len(calls) \in Nat /\ Len(calls') \in Nat
        /\ \A j \in 1 .. Len(calls) : j \in Calls
    BY <1>1, StepTypeOK, NumbersAreCalls, LenProperties DEF TypeOK
  <2>3. CASE aborted
    <3>1. PICK j \in 1 .. Len(calls) : calls[j].aborts /\ results[j] \in {"error", "timeout"}
      BY <1>1, <2>3 DEF AbortHasCulprit
    <3>2. j \in Calls /\ results'[j] = results[j] /\ calls'[j] = calls[j] /\ j \in 1 .. Len(calls')
      BY <2>1, <2>2, <3>1 DEF NoResult
    <3>3. calls'[j].aborts /\ results'[j] \in {"error", "timeout"}
      BY <3>1, <3>2
    <3>4. QED
      BY <3>2, <3>3 DEF AbortHasCulprit
  <2>4. CASE ~aborted /\ aborted'
    <3>1. PICK i \in Calls : Ended(i)
      BY <1>3, <2>4 DEF Quiet, Filled, Added
    <3>2. PICK r \in Results \ {"cancelled"} :
            /\ RecordResult(i, r)
            /\ aborted' = aborted \/ (calls[i].aborts /\ r \in {"error", "timeout"})
      BY <2>4, <3>1 DEF Ended
    <3>3. calls[i].aborts /\ r \in {"error", "timeout"} /\ UNCHANGED calls
      BY <2>4, <3>1, <3>2 DEF Ended
    <3>4. i \in LiveCalls /\ i \in 1 .. Len(calls)
      BY <1>1, <3>1, LiveAreNumbered DEF Ended
    <3>5. results[i] = NoResult
      BY <1>1, <3>4 DEF EveryTaskAnswers
    <3>6. results'[i] = r
      BY <1>1, <3>2, <3>5, Recorded DEF TypeOK
    <3>7. QED
      BY <3>3, <3>4, <3>6 DEF AbortHasCulprit
  <2>5. QED
    BY <2>3, <2>4 DEF AbortHasCulprit
<1>10. QED
  BY <1>6, <1>8, <1>9

\* No result is recorded at first, so no reason is given.
LEMMA InitReasonInv == Init => ReasonInv
BY InitAnswerInv DEF Init, ReasonInv, ScopeCause, ReasonsNameTheCause, AbortHasCulprit, NoResult

\* The text of a cancelled result names something that happened: the signal was seen,
\* a sibling aborted or the body raised, whatever raced with what.
THEOREM ReasonsAreTrue == Spec => []ReasonsNameTheCause
<1>1. ReasonInv => ReasonsNameTheCause
  BY DEF ReasonInv
<1>2. QED
  BY <1>1, InitReasonInv, StepReasons, PTL DEF Spec

\* Siblings are aborted only when a call of an aborting tool has failed itself, and its
\* own result still says so.
THEOREM AbortsHaveCulprits == Spec => []AbortHasCulprit
<1>1. ReasonInv => AbortHasCulprit
  BY DEF ReasonInv
<1>2. QED
  BY <1>1, InitReasonInv, StepReasons, PTL DEF Spec

-----------------------------------------------------------------------------
(* What a step does to the bodies that run.                                *)

\* The step of a task that finds no abort and goes into its body.
StartsBody(i) ==
  /\ phase[i] = "acquired" /\ phase' = [phase EXCEPT ![i] = "running"]
  /\ UNCHANGED <<calls, results, completions, channelClosed, signalCancelled, aborted>>

\* A body that runs goes on as long as its task does, and none begins.
Keeps == Running' = Running \cap LiveCalls'

\* Nothing that a task does outside its body lets another one run.
LEMMA TasksKeep ==
  ASSUME TypeOK, NEW i \in Calls, phase[i] \in Live,
         \/ phase[i] # "running" /\ Acquire(i)
         \/ EndTask(i)
         \/ \E ph \in {phase, Evicted} : ReleaseAndEnd(i, ph)
         \/ phase[i] # "running" /\ phase' = [phase EXCEPT ![i] = "gate"]
         \/ phase' = [phase EXCEPT ![i] = "done"]
  PROVE  Keeps
<1>1. phase \in [Calls -> Phases] /\ Evicted \in [Calls -> Phases]
  BY EvictedType DEF TypeOK
<1>2. CASE phase[i] # "running" /\ Acquire(i)
  BY <1>1, <1>2 DEF Acquire, Keeps, Running, LiveCalls, Live
<1>3. CASE EndTask(i) \/ phase' = [phase EXCEPT ![i] = "done"]
  BY <1>1, <1>3 DEF EndTask, Keeps, Running, LiveCalls, Live
<1>4. CASE phase[i] # "running" /\ phase' = [phase EXCEPT ![i] = "gate"]
  BY <1>1, <1>4 DEF Keeps, Running, LiveCalls, Live
<1>5. ASSUME NEW ph \in {phase, Evicted}, ReleaseAndEnd(i, ph)
      PROVE  Keeps
  <2>1. ph \in [Calls -> Phases] /\ \A j \in Calls : ph[j] = "running" <=> phase[j] = "running"
    BY <1>1 DEF Evicted
  <2>2. CASE phase' = [ph EXCEPT ![i] = "done"]
    BY <2>1, <2>2 DEF Keeps, Running, LiveCalls, Live
  <2>3. ASSUME NEW j \in Queued(LineOf(i), ph), phase' = [ph EXCEPT ![i] = "done", ![j] = "acquired"]
        PROVE  Keeps
    BY <2>1, <2>3 DEF Queued, Keeps, Running, LiveCalls, Live
  <2>4. QED
    BY <1>5, <2>2, <2>3 DEF ReleaseAndEnd
<1>6. QED
  BY <1>2, <1>3, <1>4, <1>5

\* Bodies begin in one way only, and end with their tasks.
LEMMA StepRuns ==
  ASSUME SlotInv, [Next]_vars
  PROVE  Keeps \/ \E i \in Calls : StartsBody(i)
<1> USE DEF lineVars, channelVars, flagVars
<1>0. TypeOK /\ Numbering
  BY DEF SlotInv
<1>1. ASSUME UNCHANGED phase PROVE Keeps
  BY <1>1 DEF Keeps, LiveCalls, Running, Live
<1>2. ASSUME phase' = Evicted PROVE Keeps
  BY <1>2 DEF Evicted, Keeps, LiveCalls, Running, Live
<1>3. CASE FireSignal \/ WatcherStops \/ Join \/ WaitOne \/ WaitAll \/ WaitAllWakes
  BY <1>1, <1>3 DEF FireSignal, WatcherStops, Join, WaitOne, WaitAll, WaitAllWakes
<1>4. CASE WatcherFires
  BY <1>2, <1>4 DEF WatcherFires
<1>5. ASSUME NEW raised \in BOOLEAN, Leave(raised) PROVE Keeps
  <2>1. phase' = Evicted \/ UNCHANGED phase
    BY <1>5 DEF Leave
  <2>2. QED
    BY <1>1, <1>2, <2>1
<1>6. ASSUME NEW k \in Kinds, AddToolCall(k) PROVE Keeps
  <2>1. Len(calls) \in Nat /\ Len(calls) + 1 \in Calls
    BY <1>0, <1>6, ExecutorAssumption, LenProperties DEF AddToolCall, TypeOK, Calls
  <2>2. phase[Len(calls) + 1] = "none"
    BY <1>0, <2>1 DEF Numbering
  <2>3. phase' \in {[phase EXCEPT ![Len(calls) + 1] = "done"],
                    [phase EXCEPT ![Len(calls) + 1] = "spawned"]}
    BY <1>6 DEF AddToolCall
  <2>4. QED
    BY <1>0, <2>1, <2>2, <2>3 DEF Keeps, LiveCalls, Running, Live, TypeOK
<1>7. ASSUME NEW i \in Calls, StartTask(i) PROVE Keeps
  <2>1. phase[i] \in Live /\ phase[i] # "running"
    BY <1>7 DEF StartTask, Live
  <2>2. EndTask(i) \/ Acquire(i) \/ phase' = [phase EXCEPT ![i] = "gate"]
    BY <1>7 DEF StartTask
  <2>3. QED
    BY <1>0, <2>1, <2>2, TasksKeep
<1>8. ASSUME NEW i \in Calls, NEW v \in {"allowed", "denied", "gateError"}, GateReturns(i, v)
      PROVE  Keeps
  <2>1. phase[i] \in Live /\ phase[i] # "running"
    BY <1>8 DEF GateReturns, Live
  <2>2. EndTask(i) \/ Acquire(i)
    BY <1>8 DEF GateReturns
  <2>3. QED
    BY <1>0, <2>1, <2>2, TasksKeep
<1>9. ASSUME NEW i \in Calls, EnterBody(i) PROVE Keeps \/ StartsBody(i)
  <2>1. phase[i] \in Live
    BY <1>9 DEF EnterBody, Live
  <2>2. CASE aborted
    BY <1>0, <1>9, <2>1, <2>2, TasksKeep DEF EnterBody
  <2>3. CASE ~aborted
    BY <1>0, <1>9, <2>3 DEF EnterBody, StartsBody
  <2>4. QED
    BY <1>0, <2>2, <2>3 DEF TypeOK
<1>10. ASSUME NEW i \in Calls, NEW o \in BodyOutcomes, BodyReturns(i, o) PROVE Keeps
  <2>1. phase[i] \in Live
    BY <1>10 DEF BodyReturns, Live
  <2>2. \E ph \in {phase, Evicted} : ReleaseAndEnd(i, ph)
    BY <1>10 DEF BodyReturns
  <2>3. QED
    BY <1>0, <2>1, <2>2, TasksKeep
<1>11. ASSUME NEW i \in Calls, DeliverCancel(i) PROVE Keeps
  <2>1. phase[i] \in Live
    BY <1>11 DEF DeliverCancel, Live
  <2>2. ReleaseAndEnd(i, phase) \/ phase' = [phase EXCEPT ![i] = "done"]
    BY <1>11 DEF DeliverCancel
  <2>3. QED
    BY <1>0, <2>1, <2>2, TasksKeep
<1>12. CASE UNCHANGED vars
  BY <1>1, <1>12 DEF vars
<1>13. QED
  BY <1>3, <1>4, <1>5, <1>6, <1>7, <1>8, <1>9, <1>10, <1>11, <1>12 DEF Next

-----------------------------------------------------------------------------
(* What the answers look like to ToolDispatch.                             *)

\* ToolDispatch counts as this module does.
LEMMA SameCount == ASSUME NEW S PROVE Dispatch!Cardinality(S) = Cardinality(S)
  BY DEF Dispatch!Cardinality, Cardinality

\* Who is unanswered.
LEMMA Unanswered == Dispatch!Unanswered = Missing
  BY DEF Dispatch!Unanswered, Missing

\* Calls that run have no answer yet, and are numbered.
LEMMA RunningUnanswered ==
  ASSUME AnswerInv
  PROVE  Running \subseteq LiveCalls /\ LiveCalls \subseteq Missing /\ Missing \subseteq Calls
<1>1. SlotInv /\ TypeOK /\ EveryTaskAnswers
  BY DEF AnswerInv, SlotInv
<1>2. QED
  BY <1>1, LiveAreNumbered, NumbersAreCalls DEF Running, LiveCalls, Live, Missing, EveryTaskAnswers

\* One answer, pushed on the open channel.
LEMMA OneAnswer ==
  ASSUME TypeOK, ~channelClosed, NEW i \in Calls, NEW r \in Results, results[i] = NoResult,
         RecordResult(i, r), Running' = Running \ {i}
  PROVE  Dispatch!AnswerAll({i})
<1>1. results' = [results EXCEPT ![i] = r] /\ completions' = Append(completions, i)
  BY DEF RecordResult
<1>2. results \in [Calls -> Results \cup {NoResult}] /\ completions \in Seq(Calls)
  BY DEF TypeOK
<1> DEFINE f == [j \in {i} |-> r]
<1>3. f \in [{i} -> Results] /\ results' = [j \in Calls |-> IF j \in {i} THEN f[j] ELSE results[j]]
  BY <1>1, <1>2
<1>4. Cardinality({i}) = 1
  BY FS_Singleton
<1>5. <<i>> \in Dispatch!Orders({i})
  <2>1. <<i>> \in [1 .. 1 -> {i}] /\ DOMAIN <<i>> = 1 .. 1 /\ <<i>>[1] = i
    OBVIOUS
  <2>2. QED
    BY <1>4, <2>1, SameCount DEF Dispatch!Orders
<1>6. completions' = completions \o <<i>>
  BY <1>1, <1>2
<1>7. QED
  BY <1>3, <1>5, <1>6 DEF Dispatch!AnswerAll, Calls, Dispatch!Calls

\* The holes are answered together.
LEMMA ManyAnswers ==
  ASSUME TypeOK, ~channelClosed, BackfillResults, Running = {}, Running' = {}
  PROVE  Dispatch!AnswerAll(Missing) /\ (Missing = {} => UNCHANGED <<results, completions>>)
<1>1. PICK s \in Ascending(Missing) : completions' = completions \o s
  BY DEF BackfillResults
<1>2. Missing \subseteq Calls
  BY NumbersAreCalls DEF Missing
<1>3. /\ s \in Seq(Calls) /\ Len(s) = Cardinality(Missing)
      /\ \A j : j \in Missing <=> \E p \in 1 .. Len(s) : s[p] = j
  BY <1>2, AscendingLists
<1>4. s \in Dispatch!Orders(Missing)
  <2>1. s \in [1 .. Cardinality(Missing) -> Missing]
    BY DEF Ascending
  <2>2. \A j \in Missing : \E p \in DOMAIN s : s[p] = j
    BY <1>3
  <2>3. QED
    BY <2>1, <2>2, SameCount DEF Dispatch!Orders
<1> DEFINE f == [j \in Missing |-> FallbackReason]
<1>5. f \in [Missing -> Results]
  BY ResultsAreResults
<1>6. results' = [j \in Calls |-> IF j \in Missing THEN f[j] ELSE results[j]]
  BY DEF BackfillResults
<1>7. Dispatch!AnswerAll(Missing)
  BY <1>1, <1>4, <1>5, <1>6 DEF Dispatch!AnswerAll, Calls, Dispatch!Calls
<1>8. ASSUME Missing = {} PROVE UNCHANGED <<results, completions>>
  <2>1. Len(s) = 0
    BY <1>3, <1>8, FS_EmptySet
  <2>2. s = <<>>
    BY <1>3, <2>1, EmptySeq
  <2>3. completions' = completions
    BY <1>1, <2>2 DEF TypeOK
  <2>4. results' = results
    BY <1>6, <1>8 DEF TypeOK
  <2>5. QED
    BY <2>3, <2>4
<1>9. QED
  BY <1>7, <1>8

-----------------------------------------------------------------------------
(* The steps.                                                              *)

\* The calls that have to run alone stay so, and one may join them.
Alone == {i \in 1 .. Len(calls) : calls[i].safety # "safe"}

\* A body begins within the limits of ToolDispatch.
LEMMA BodyExecutes ==
  ASSUME AnswerInv, NEW i \in Calls, StartsBody(i)
  PROVE  Dispatch!Execute(i)
<1>1. SlotInv /\ TypeOK /\ SlotsConserved
  BY DEF AnswerInv, SlotInv
<1>2. Running' = Running \cup {i} /\ i \notin Running
  BY <1>1 DEF StartsBody, Running, TypeOK
<1>3. i \in Missing
  BY RunningUnanswered DEF StartsBody, LiveCalls, Live
<1>4. i \in 1 .. Len(calls)
  BY <1>3 DEF Missing
<1> DEFINE Sharing == Running \ Alone
<1>5. \A j \in Running : j \in 1 .. Len(calls) /\ j \in Holders(LineOf(j))
  BY RunningUnanswered DEF Missing, Holders, Running
<1>6. i \in Holders(LineOf(i))
  BY DEF Holders, StartsBody
<1>7. /\ free["sem"] + Cardinality(Holders("sem")) = MaxConcurrency /\ free["sem"] \in Nat
      /\ free["lock"] + Cardinality(Holders("lock")) = 1 /\ free["lock"] \in Nat
      /\ MaxConcurrency \in Nat
  BY <1>1, ExecutorAssumption DEF SlotsConserved, Lines, Limit, TypeOK
<1>8. ASSUME i \in Alone PROVE Running \cap Alone = {}
  <2>1. ASSUME NEW j \in Running \cap Alone PROVE FALSE
    <3>1. {i, j} \subseteq Holders("lock") /\ i # j
      BY <1>2, <1>5, <1>6, <1>8, <2>1 DEF Alone, LineOf, IsSafe
    <3>2. Cardinality({i, j}) = 2 /\ IsFiniteSet(Holders("lock")) /\ IsFiniteSet({i, j})
      <4>1. IsFiniteSet({i}) /\ Cardinality({i}) = 1
        BY FS_Singleton
      <4>2. {i, j} = {i} \cup {j}
        OBVIOUS
      <4>3. IsFiniteSet({i, j}) /\ Cardinality({i, j}) = 1 + 1
        BY <3>1, <4>1, <4>2, FS_AddElement
      <4>4. IsFiniteSet(Holders("lock"))
        BY CallsFinite DEF Holders
      <4>5. QED
        BY <4>3, <4>4
    <3>3. Cardinality({i, j}) <= Cardinality(Holders("lock"))
      BY <3>1, <3>2, FS_Subset
    <3>4. Cardinality(Holders("lock")) \in Nat
      BY <3>2, FS_CardinalityType
    <3>5. QED
      BY <1>7, <3>2, <3>3, <3>4
  <2>2. QED
    BY <2>1
<1>9. ASSUME i \notin Alone PROVE Cardinality(Sharing) < MaxConcurrency
  <2>1. Sharing \cup {i} \subseteq Holders("sem") /\ i \notin Sharing
    BY <1>2, <1>4, <1>5, <1>6, <1>9 DEF Alone, LineOf, IsSafe
  <2>2. IsFiniteSet(Sharing) /\ IsFiniteSet(Holders("sem"))
    BY CallsFinite DEF Running, Holders
  <2>3. Cardinality(Sharing \cup {i}) = Cardinality(Sharing) + 1
    BY <2>1, <2>2, FS_AddElement
  <2>4. Cardinality(Sharing \cup {i}) <= Cardinality(Holders("sem"))
    BY <2>1, <2>2, FS_Subset
  <2>5. Cardinality(Holders("sem")) \in Nat /\ Cardinality(Sharing) \in Nat
    BY <2>2, FS_CardinalityType
  <2>6. QED
    BY <1>7, <2>3, <2>4, <2>5
<1>10. UNCHANGED <<calls, results, completions, channelClosed>> /\ FastFails' = FastFails
  BY DEF StartsBody, FastFails
<1>11. i \in Dispatch!Unanswered \ Running
  BY <1>2, <1>3, Unanswered
<1>12. IF i \in Alone THEN Running \cap Alone = {} ELSE Dispatch!Cardinality(Sharing) < MaxConcurrency
  BY <1>8, <1>9, SameCount
<1>13. QED
  BY <1>2, <1>10, <1>11, <1>12 DEF Dispatch!Execute, Alone

\* A call that is added is requested, and answered at once if the executor is halted.
LEMMA AddedRequests ==
  ASSUME AnswerInv, NEW k \in Kinds, Added(k), Keeps
  PROVE  Dispatch!Request
<1> DEFINE n == Len(calls) + 1
<1>1. SlotInv /\ TypeOK /\ ExitInv /\ AnswersAreToCalls
  BY DEF AnswerInv, SlotInv
<1>2. /\ n \in Calls /\ results[n] = NoResult /\ n \notin LiveCalls
      /\ Len(calls') = n /\ Len(calls) \in Nat
  BY <1>1, AddedIsNew
<1>3. ~channelClosed /\ UNCHANGED channelClosed /\ FastFails' = FastFails /\ Len(calls) < N
  BY <1>1, <1>2, ExecutorAssumption DEF Added, ExitInv, FastFails, Calls
<1>4. Running' = Running /\ n \notin Running
  BY <1>2, RunningUnanswered DEF Added, Keeps
<1>5. Alone' \in {Alone, Alone \cup {n}}
  <2>1. calls' = Append(calls, k) /\ calls \in Seq(Kinds)
    BY <1>1 DEF Added, TypeOK
  <2>2. \A j \in 1 .. Len(calls) : calls'[j] = calls[j]
    BY <2>1
  <2>3. 1 .. n = (1 .. Len(calls)) \cup {n}
    BY <1>2
  <2>4. QED
    BY <1>2, <2>2, <2>3 DEF Alone
<1>6. CASE FastFails /\ RecordResult(n, CancelReason)
  <2>1. Dispatch!AnswerAll({n})
    BY <1>1, <1>2, <1>3, <1>4, <1>6, OneAnswer, ReasonType
  <2>2. QED
    BY <1>2, <1>3, <1>5, <1>6, <2>1 DEF Dispatch!Request, Alone
<1>7. CASE ~FastFails /\ UNCHANGED <<results, completions>>
  BY <1>2, <1>3, <1>4, <1>5, <1>7 DEF Dispatch!Request, Alone
<1>8. QED
  BY <1>6, <1>7 DEF Added

\* The end of a task answers its call, unless the exception of the body stopped it before
\* its body began.
LEMMA EndedAnswers ==
  ASSUME AnswerInv, NEW i \in Calls, Ended(i), Keeps
  PROVE  [Dispatch!Next]_(Dispatch!vars)
<1>1. SlotInv /\ TypeOK /\ ExitInv
  BY DEF AnswerInv, SlotInv
<1>2. i \in LiveCalls /\ LiveCalls' = LiveCalls \ {i} /\ i \in Missing
  BY RunningUnanswered DEF Ended
<1>3. results[i] = NoResult /\ ~channelClosed /\ UNCHANGED <<calls, channelClosed, signalCancelled>>
  BY <1>1, <1>2 DEF Missing, ExitInv, Ended
<1>4. Running' = Running \ {i}
  BY <1>2, RunningUnanswered DEF Keeps
<1>5. Alone' = Alone
  BY <1>3 DEF Alone
<1>6. ASSUME NEW r \in Results, RecordResult(i, r), aborted' = aborted \/ aborted'
      PROVE  Dispatch!Next
  <2>1. Dispatch!AnswerAll({i})
    BY <1>1, <1>3, <1>4, <1>6, OneAnswer
  <2>2. FastFails' \in {FastFails, TRUE}
    <3>1. CASE aborted'
      <4>1. FastFails'
        BY <3>1 DEF FastFails
      <4>2. QED
        BY <4>1
    <3>2. CASE aborted' = aborted
      BY <1>3, <3>2 DEF FastFails
    <3>3. QED
      BY <1>6, <3>1, <3>2
  <2>3. Dispatch!Answer({i})
    BY <1>3, <1>5, <2>1, <2>2 DEF Dispatch!Answer, Alone
  <2>4. {i} \in SUBSET Dispatch!Unanswered
    BY <1>2, Unanswered
  <2>5. QED
    BY <2>3, <2>4 DEF Dispatch!Next
<1>7. CASE phase[i] = "gate" /\ UNCHANGED <<results, completions, aborted>>
  <2>1. Running' = Running
    BY <1>4, <1>7 DEF Running
  <2>2. FastFails' = FastFails
    BY <1>3, <1>7 DEF FastFails
  <2>3. QED
    BY <1>3, <1>5, <1>7, <2>1, <2>2 DEF Dispatch!vars, Alone
<1>8. QED
  BY <1>6, <1>7 DEF Ended

\* wait_all and the exit answer the holes together, if there are any; the exit also closes
\* the channel.
LEMMA FilledAnswers ==
  ASSUME AnswerInv, Filled, Keeps
  PROVE  [Dispatch!Next]_(Dispatch!vars)
<1>1. TypeOK /\ ExitInv /\ EveryTaskAnswers
  BY DEF AnswerInv, SlotInv
<1>2. Running = {} /\ Running' = {}
  BY RunningUnanswered DEF Filled, Keeps
<1>3. UNCHANGED calls /\ FastFails' = FastFails /\ Alone' = Alone
  BY DEF Filled, FastFails, Alone
<1>4. CASE channelClosed
  <2>1. Missing = {}
    BY <1>1, <1>4 DEF Missing, EveryTaskAnswers, ExitInv, Filled
  <2>2. results' = results /\ completions' = completions /\ channelClosed' = channelClosed
    BY <1>1, <1>4, <2>1 DEF Filled, BackfillResults, TypeOK, ExitInv
  <2>3. QED
    BY <1>2, <1>3, <2>2 DEF Dispatch!vars, Alone
<1>5. CASE ~channelClosed
  <2>1. Dispatch!AnswerAll(Missing) /\ (Missing = {} => UNCHANGED <<results, completions>>)
    BY <1>1, <1>2, <1>5, ManyAnswers DEF Filled
  <2>2. CASE channelClosed'
    <3>1. Dispatch!Close
      BY <1>2, <1>3, <1>5, <2>1, <2>2, Unanswered DEF Dispatch!Close, Alone
    <3>2. QED
      BY <3>1 DEF Dispatch!Next
  <2>3. CASE channelClosed' = channelClosed /\ Missing = {}
    BY <1>2, <1>3, <2>1, <2>3 DEF Dispatch!vars, Alone
  <2>4. CASE channelClosed' = channelClosed /\ Missing # {}
    <3>1. Dispatch!Answer(Missing)
      BY <1>3, <2>1, <2>4 DEF Dispatch!Answer, Alone
    <3>2. QED
      BY <3>1, Unanswered DEF Dispatch!Next
  <2>5. QED
    BY <2>2, <2>3, <2>4 DEF Filled
<1>6. QED
  BY <1>4, <1>5

\* A step that begins and ends no task is not seen, or raises a flag.
LEMMA QuietHalts ==
  ASSUME AnswerInv, Quiet, Keeps
  PROVE  [Dispatch!Next]_(Dispatch!vars)
<1>1. Running' = Running
  BY RunningUnanswered DEF Quiet, Keeps
<1>2. UNCHANGED <<calls, results, completions, channelClosed>> /\ Alone' = Alone
  BY DEF Quiet, Alone
<1>3. CASE FastFails'
  <2>1. Dispatch!Halt
    BY <1>1, <1>2, <1>3 DEF Dispatch!Halt, Alone
  <2>2. QED
    BY <2>1 DEF Dispatch!Next
<1>4. CASE ~FastFails'
  <2>1. FastFails' = FastFails
    BY <1>4 DEF FastFails, Quiet
  <2>2. QED
    BY <1>1, <1>2, <2>1 DEF Dispatch!vars, Alone
<1>5. QED
  BY <1>3, <1>4

\* Every step is one of ToolDispatch, or changes nothing that it speaks of.
LEMMA DispatchStep == AnswerInv /\ [Next]_vars => [Dispatch!Next]_(Dispatch!vars)
<1> SUFFICES ASSUME AnswerInv, [Next]_vars PROVE [Dispatch!Next]_(Dispatch!vars)
  OBVIOUS
<1>1. SlotInv /\ PendingCountsTasks
  BY DEF AnswerInv
<1>2. pending = 0 => LiveCalls = {}
  <2>1. IsFiniteSet(LiveCalls)
    BY CallsFinite DEF LiveCalls
  <2>2. QED
    BY <1>1, <2>1, FS_EmptySet DEF PendingCountsTasks
<1>3. ASSUME NEW i \in Calls, StartsBody(i) PROVE Dispatch!Next
  <2>1. i \in Dispatch!Calls
    BY DEF Calls, Dispatch!Calls
  <2>2. QED
    BY <1>3, <2>1, BodyExecutes DEF Dispatch!Next
<1>4. CASE Keeps
  <2>1. ASSUME NEW k \in Kinds, Added(k) PROVE Dispatch!Next
    BY <1>4, <2>1, AddedRequests DEF Dispatch!Next
  <2>2. QED
    BY <1>1, <1>2, <1>4, <2>1, StepKinds, QuietHalts, FilledAnswers, EndedAnswers
<1>5. QED
  BY <1>1, <1>3, <1>4, StepRuns

\* At first nothing is requested; a signal that is already set halts the executor.
LEMMA DispatchInit == Init => Dispatch!Init
<1> SUFFICES ASSUME Init PROVE Dispatch!Init
  OBVIOUS
<1>1. Len(calls) = 0 /\ Running = {} /\ Alone = {} /\ FastFails \in BOOLEAN
  BY DEF Init, Running, Alone, FastFails
<1>2. QED
  BY <1>1 DEF Init, Dispatch!Init, Dispatch!Calls, Calls, Alone

\* The executor implements ToolDispatch: whatever is aborted, cancelled, handed over or left
\* in flight at the exit, every requested call gets one answer that never changes, is
\* reported once and in order, and bodies run within their limits.
THEOREM ExecutorImplementsDispatch == Spec => ImplementsDispatch
  BY InitAnswerInv, StepAnswerInv, DispatchInit, DispatchStep, PTL
     DEF Spec, ImplementsDispatch, Dispatch!Spec
=============================================================================
