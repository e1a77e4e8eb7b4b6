---------------------------- MODULE ToolExecutor ----------------------------
(***************************************************************************)
(* StreamingToolExecutor: the component that starts a turn's tool calls    *)
(* while the model is still streaming.  Calls are numbered in the order of *)
(* add_tool_call (the code's idx, from 1).  Every call that is dispatched  *)
(* gets a task; the task looks the tool up, asks the optional permission   *)
(* gate, waits for a semaphore slot (safe tools) or for the serial lock    *)
(* (all others), runs the body and records one result.  A watcher task     *)
(* turns the agent's cancellation signal into the cancellation of every    *)
(* task; a failing tool may abort its siblings; leaving the async-with     *)
(* block joins the tasks.                                                  *)
(*                                                                         *)
(* A step is the code one task runs between two points at which it yields  *)
(* to the event loop.                                                      *)
(***************************************************************************)
EXTENDS Naturals, Sequences, FiniteSets

CONSTANTS
  N,               \* bound on the calls of one turn
  MaxConcurrency,  \* _max_concurrency: slots for concurrency-safe tools
  Kinds,           \* the tools a call may name, as their dispatch-relevant traits
  HasGate          \* is can_use_tool supplied?

ASSUME ExecutorAssumption ==
  /\ N \in Nat
  /\ MaxConcurrency \in Nat \ {0}
  /\ Kinds \subseteq [known : BOOLEAN, safety : {"safe", "unsafe", "raises"}, aborts : BOOLEAN]
  /\ HasGate \in BOOLEAN

Calls == 1 .. N

NoResult == "none"
BodyOutcomes == {"success", "error", "timeout"}
Results == BodyOutcomes \cup
           {"notFound", "denied", "gateError", "signal", "sibling", "cancelled"}

Live   == {"spawned", "gate", "queued", "doomed", "acquired", "running"}
Phases == Live \cup {"none", "done"}

VARIABLES
  mode,             \* "open" in the async-with body, "joining" in __aexit__, "exited"
  bodyRaised,       \* the body raised: the task group's own scope is cancelled
  signal,           \* the cancellation_signal: "absent" (None), "clear" or "set"
  watcher,          \* _watch_cancellation_signal: "none", "armed" or "done"
  signalCancelled,  \* _signal_cancelled
  aborted,          \* _aborted
  calls,            \* _calls: the tool each call names, in insertion order
  phase,            \* where the task of each call is
  scopeCancelled,   \* _scopes[i].cancel_called
  results,          \* _results
  pending,          \* _pending
  idleEvents,       \* every _idle_event so far (TRUE: set); the last one is current
  free,             \* slots left in _sem and in _serial_lock
  arrivals,         \* calls in the order they joined a waiting line
  completions,      \* every item pushed on the completion channel
  channelClosed,    \* _completion_closed
  received,         \* how many completions the consumer has taken
  consumer,         \* "reading", or "ended" once it saw the end of the stream
  waiter            \* 0, or the index of the _idle_event wait_all is parked on

flagVars    == <<mode, bodyRaised, signal, watcher>>
lineVars    == <<free, arrivals>>
channelVars == <<channelClosed, received, consumer>>
vars == <<mode, bodyRaised, signal, watcher, signalCancelled, aborted, calls, phase,
          scopeCancelled, results, pending, idleEvents, free, arrivals, completions,
          channelClosed, received, consumer, waiter>>

-----------------------------------------------------------------------------
(* The two waiting lines.                                                  *)

\* A predicate that raises counts as unsafe.
IsSafe(k) == k.safety = "safe"

Lines == {"sem", "lock"}
Limit == [l \in Lines |-> IF l = "sem" THEN MaxConcurrency ELSE 1]
LineOf(i) == IF IsSafe(calls[i]) THEN "sem" ELSE "lock"

Holders(l) == {i \in Calls : phase[i] \in {"acquired", "running"} /\ LineOf(i) = l}
LiveCalls  == {i \in Calls : phase[i] \in Live}

\* The calls queued on l when the phases are ph, and the one that came first.
Queued(l, ph) == {i \in Calls : ph[i] = "queued" /\ LineOf(i) = l}
IsFirst(j, Q) ==
  /\ j \in Q
  /\ \E p \in DOMAIN arrivals :
       /\ arrivals[p] = j
       /\ \A q \in 1 .. (p - 1) : arrivals[q] \notin Q

\* [seeded fault] The slot is taken without waiting for one.
AcquireWithoutWaiting(i) ==
  /\ phase' = [phase EXCEPT ![i] = "acquired"]
  /\ free' = [free EXCEPT ![LineOf(i)] = @ - 1]
  /\ UNCHANGED arrivals

\* acquire(): take a slot, or join the line.  A task whose scope is already
\* cancelled does not take a free slot: it is doomed at the checkpoint.
Acquire(i) ==
  LET l == LineOf(i) IN
  \/ /\ free[l] > 0
     /\ scopeCancelled[i] \/ bodyRaised
     /\ phase' = [phase EXCEPT ![i] = "doomed"]
     /\ UNCHANGED lineVars
  \/ /\ free[l] > 0
     /\ ~scopeCancelled[i] /\ ~bodyRaised
     /\ phase' = [phase EXCEPT ![i] = "acquired"]
     /\ free' = [free EXCEPT ![l] = @ - 1]
     /\ UNCHANGED arrivals
  \/ /\ free[l] = 0
     /\ phase' = [phase EXCEPT ![i] = "queued"]
     /\ arrivals' = Append(arrivals, i)
     /\ UNCHANGED free

\* [seeded fault] The slot is handed over and freed as well.
ReleaseTwice(i, ph) ==
  LET l == LineOf(i) IN
  /\ \/ \E j \in Queued(l, ph) :
          /\ IsFirst(j, Queued(l, ph))
          /\ phase' = [ph EXCEPT ![i] = "done", ![j] = "acquired"]
     \/ /\ Queued(l, ph) = {}
        /\ phase' = [ph EXCEPT ![i] = "done"]
  /\ free' = [free EXCEPT ![l] = @ + 1]
  /\ UNCHANGED arrivals

\* release() by the task of i, which then ends: the slot goes to the first in
\* line, or is free again.  ph are the phases at that moment.
ReleaseAndEnd(i, ph) ==
  LET l == LineOf(i) IN
  /\ \/ \E j \in Queued(l, ph) :
          /\ IsFirst(j, Queued(l, ph))
          /\ phase' = [ph EXCEPT ![i] = "done", ![j] = "acquired"]
          /\ UNCHANGED free
     \/ /\ Queued(l, ph) = {}
        /\ phase' = [ph EXCEPT ![i] = "done"]
        /\ free' = [free EXCEPT ![l] = @ + 1]
  /\ UNCHANGED arrivals

-----------------------------------------------------------------------------
(* Results and the count of tasks in flight.                               *)

\* [seeded fault] The abort flag is looked at first.
CancelReasonAbortFirst == IF aborted THEN "sibling" ELSE "signal"

CancelReason == IF signalCancelled THEN "signal" ELSE "sibling"
FallbackReason == IF signalCancelled THEN "signal" ELSE "cancelled"

\* _record_result: only the first result of a call counts, and only it is
\* pushed on the completion channel.
RecordResult(i, r) ==
  IF results[i] = NoResult
  THEN /\ results' = [results EXCEPT ![i] = r]
       /\ completions' = IF channelClosed THEN completions ELSE Append(completions, i)
  ELSE UNCHANGED <<results, completions>>

Missing == {i \in 1 .. Len(calls) : results[i] = NoResult}
\* The elements of S in ascending order (a set with one sequence in it).
Ascending(S) == {s \in [1 .. Cardinality(S) -> S] :
                   \A a, b \in DOMAIN s : a < b => s[a] < s[b]}
\* [seeded fault] The loop does not look whether there is a result already.
BackfillEverything ==
  /\ results' = [i \in Calls |-> IF i <= Len(calls) THEN FallbackReason ELSE results[i]]
  /\ IF channelClosed THEN UNCHANGED completions
     ELSE \E s \in Ascending(Missing) : completions' = completions \o s

\* The loop over _results that fills the holes wait_all and __aexit__ find.
BackfillResults ==
  /\ results' = [i \in Calls |-> IF i \in Missing THEN FallbackReason ELSE results[i]]
  /\ IF channelClosed THEN UNCHANGED completions
     ELSE \E s \in Ascending(Missing) : completions' = completions \o s

SetIdle == idleEvents' = [idleEvents EXCEPT ![Len(idleEvents)] = TRUE]

\* [seeded fault] The last task does not set the idle event.
TaskEndsSilently ==
  /\ pending' = IF pending > 0 THEN pending - 1 ELSE 0
  /\ UNCHANGED idleEvents

\* The finally of _run_one.
TaskEnds ==
  /\ pending' = IF pending > 0 THEN pending - 1 ELSE 0
  /\ IF pending <= 1 THEN SetIdle ELSE UNCHANGED idleEvents

-----------------------------------------------------------------------------
(* Cancellation.  cancel() marks a scope and takes its task out of the     *)
(* line it waits in at once; the task sees the exception when it next runs.*)

\* [seeded fault] The newest call is not in the list yet.
CancelOlderScopes == scopeCancelled' = [i \in Calls |-> i < Len(calls)]

CancelScopes == scopeCancelled' = [i \in Calls |-> i \in 1 .. Len(calls)]
Evicted == [i \in Calls |-> IF phase[i] = "queued" THEN "doomed" ELSE phase[i]]

-----------------------------------------------------------------------------
TypeOK ==
  /\ mode \in {"open", "joining", "exited"}
  /\ signal \in {"absent", "clear", "set"}
  /\ watcher \in {"none", "armed", "done"}
  /\ consumer \in {"reading", "ended"}
  /\ bodyRaised \in BOOLEAN /\ channelClosed \in BOOLEAN
  /\ signalCancelled \in BOOLEAN /\ aborted \in BOOLEAN
  /\ calls \in Seq(Kinds) /\ Len(calls) <= N
  /\ phase \in [Calls -> Phases]
  /\ scopeCancelled \in [Calls -> BOOLEAN]
  /\ results \in [Calls -> Results \cup {NoResult}]
  /\ pending \in Nat
  /\ idleEvents \in Seq(BOOLEAN) /\ idleEvents # <<>>
  /\ free \in [Lines -> Nat]
  /\ arrivals \in Seq(Calls)
  /\ completions \in Seq(Calls)
  /\ received \in Nat
  /\ waiter \in 0 .. Len(idleEvents)

\* __init__ and __aenter__: a signal that is already set needs no watcher.
Init ==
  /\ mode = "open" /\ bodyRaised = FALSE
  /\ \/ signal = "absent" /\ watcher = "none" /\ signalCancelled = FALSE
     \/ signal = "clear" /\ watcher = "armed" /\ signalCancelled = FALSE
     \/ signal = "set" /\ watcher = "none" /\ signalCancelled = TRUE
  /\ aborted = FALSE
  /\ calls = <<>>
  /\ phase = [i \in Calls |-> "none"]
  /\ scopeCancelled = [i \in Calls |-> FALSE]
  /\ results = [i \in Calls |-> NoResult]
  /\ pending = 0 /\ idleEvents = <<TRUE>>
  /\ free = Limit /\ arrivals = <<>>
  /\ completions = <<>> /\ channelClosed = FALSE
  /\ received = 0 /\ consumer = "reading"
  /\ waiter = 0

-----------------------------------------------------------------------------
(* The signal and its watcher.                                             *)

\* Agent.cancel() from any task.
FireSignal ==
  /\ signal = "clear"
  /\ signal' = "set"
  /\ UNCHANGED <<mode, bodyRaised, watcher, signalCancelled, aborted, calls, phase,
                 scopeCancelled, results, pending, idleEvents, lineVars, completions,
                 channelVars, waiter>>

WatcherFires ==
  /\ watcher = "armed" /\ signal = "set"
  /\ watcher' = "done"
  /\ signalCancelled' = TRUE
  /\ CancelScopes /\ phase' = Evicted
  /\ UNCHANGED <<mode, bodyRaised, signal, aborted, calls, results, pending, idleEvents,
                 lineVars, completions, channelVars, waiter>>

\* __aexit__ cancelled the watcher's scope after the signal fired, before the
\* watcher ran.
WatcherStops ==
  /\ watcher = "armed" /\ mode = "joining" /\ signal = "set"
  /\ watcher' = "done"
  /\ UNCHANGED <<mode, bodyRaised, signal, signalCancelled, aborted, calls, phase,
                 scopeCancelled, results, pending, idleEvents, lineVars, completions,
                 channelVars, waiter>>

-----------------------------------------------------------------------------
(* The body of the async-with: it adds calls, waits, and leaves.           *)

\* [seeded fault] Only the abort is looked at.
FastFailsOnAbort == aborted

FastFails == signalCancelled \/ aborted

\* [seeded fault] Each call gets a new idle event, also when a waiter is parked.
AlwaysNewIdleEvent == Append(idleEvents, FALSE)

\* A set event is replaced, never cleared; a waiter parked on an unset one keeps it.
BusyIdleEvents ==
  IF idleEvents[Len(idleEvents)] THEN Append(idleEvents, FALSE) ELSE idleEvents

\* add_tool_call after __aexit__ began raises and changes nothing.
AddToolCall(k) ==
  /\ mode = "open" /\ Len(calls) < N
  /\ LET i == Len(calls) + 1 IN
     /\ calls' = Append(calls, k)
     /\ IF FastFails
        THEN /\ RecordResult(i, CancelReason)
             /\ phase' = [phase EXCEPT ![i] = "done"]
             /\ UNCHANGED <<pending, idleEvents>>
        ELSE /\ pending' = pending + 1
             /\ idleEvents' = BusyIdleEvents
             /\ phase' = [phase EXCEPT ![i] = "spawned"]
             /\ UNCHANGED <<results, completions>>
  /\ UNCHANGED <<flagVars, signalCancelled, aborted, scopeCancelled, lineVars,
                 channelVars, waiter>>

\* [seeded fault] wait_all fills the holes without waiting for the tasks.
WaitAllDoesNotWait == waiter' = 0 /\ BackfillResults

\* wait_all: nothing pending, or park on the current idle event.
WaitAllPasses ==
  /\ pending = 0
  /\ waiter' = 0
  /\ BackfillResults

WaitAllParks ==
  /\ pending > 0
  /\ waiter' = Len(idleEvents)
  /\ UNCHANGED <<results, completions>>

WaitAll ==
  /\ waiter = 0
  /\ WaitAllPasses \/ WaitAllParks
  /\ UNCHANGED <<flagVars, signalCancelled, aborted, calls, phase, scopeCancelled,
                 pending, idleEvents, lineVars, channelVars>>

\* The event it parked on is set: look at the count again.
WaitAllWakes ==
  /\ waiter > 0 /\ idleEvents[waiter]
  /\ WaitAllPasses \/ WaitAllParks
  /\ UNCHANGED <<flagVars, signalCancelled, aborted, calls, phase, scopeCancelled,
                 pending, idleEvents, lineVars, channelVars>>

\* [seeded fault] The watcher is left parked on a signal that may never come.
LeaveWatcherParked(raised) ==
  /\ mode = "open"
  /\ mode' = "joining"
  /\ bodyRaised' = raised
  /\ phase' = IF raised THEN Evicted ELSE phase
  /\ UNCHANGED <<signal, watcher, signalCancelled, aborted, calls, scopeCancelled, results,
                 pending, idleEvents, lineVars, completions, channelVars, waiter>>

\* Leaving the block.  The watcher is woken up and stops if the signal has not
\* fired.  With an exception (a budget overrun, a broken stream) the task group
\* cancels every task through its own scope.
Leave(raised) ==
  /\ mode = "open"
  /\ mode' = "joining"
  /\ bodyRaised' = raised
  /\ watcher' = IF watcher = "armed" /\ signal = "clear" THEN "done" ELSE watcher
  /\ phase' = IF raised THEN Evicted ELSE phase
  /\ UNCHANGED <<signal, signalCancelled, aborted, calls, scopeCancelled, results,
                 pending, idleEvents, lineVars, completions, channelVars, waiter>>

\* [seeded fault] The channel is closed before the holes are filled.
JoinClosesFirst ==
  /\ mode = "joining"
  /\ LiveCalls = {} /\ watcher # "armed"
  /\ mode' = "exited"
  /\ channelClosed' = TRUE
  /\ results' = [i \in Calls |-> IF i \in Missing THEN FallbackReason ELSE results[i]]
  /\ pending' = 0
  /\ SetIdle
  /\ UNCHANGED <<bodyRaised, signal, watcher, signalCancelled, aborted, calls, phase,
                 scopeCancelled, lineVars, completions, received, consumer, waiter>>

\* The rest of __aexit__, once the task group has joined the tasks and the watcher.
Join ==
  /\ mode = "joining"
  /\ LiveCalls = {} /\ watcher # "armed"
  /\ mode' = "exited"
  /\ BackfillResults
  /\ channelClosed' = TRUE
  /\ pending' = 0
  /\ SetIdle
  /\ UNCHANGED <<bodyRaised, signal, watcher, signalCancelled, aborted, calls, phase,
                 scopeCancelled, lineVars, received, consumer, waiter>>

-----------------------------------------------------------------------------
(* The task of call i.                                                     *)

\* Common to the steps of _run_one that end the task without holding a slot.
EndTask(i) ==
  /\ phase' = [phase EXCEPT ![i] = "done"]
  /\ TaskEnds

\* Up to the first yield: an unknown tool is answered at once.
StartTask(i) ==
  /\ phase[i] = "spawned"
  /\ \/ /\ ~calls[i].known
        /\ RecordResult(i, "notFound")
        /\ EndTask(i)
        /\ UNCHANGED lineVars
     \/ /\ calls[i].known /\ HasGate
        /\ phase' = [phase EXCEPT ![i] = "gate"]
        /\ UNCHANGED <<results, completions, pending, idleEvents, lineVars>>
     \/ /\ calls[i].known /\ ~HasGate
        /\ Acquire(i)
        /\ UNCHANGED <<results, completions, pending, idleEvents>>
  /\ UNCHANGED <<flagVars, signalCancelled, aborted, calls, scopeCancelled,
                 channelVars, waiter>>

\* can_use_tool answered: allowed, denied, or it raised.
GateReturns(i, verdict) ==
  /\ phase[i] = "gate"
  /\ \/ /\ verdict = "allowed"
        /\ Acquire(i)
        /\ UNCHANGED <<results, completions, pending, idleEvents>>
     \/ /\ verdict # "allowed"
        /\ RecordResult(i, verdict)
        /\ EndTask(i)
        /\ UNCHANGED lineVars
  /\ UNCHANGED <<flagVars, signalCancelled, aborted, calls, scopeCancelled,
                 channelVars, waiter>>

\* [seeded fault] The early return keeps the slot.
EnterBodyKeepsSlot(i) ==
  /\ phase[i] = "acquired"
  /\ \/ /\ aborted
        /\ RecordResult(i, CancelReason)
        /\ EndTask(i)
     \/ /\ ~aborted
        /\ phase' = [phase EXCEPT ![i] = "running"]
        /\ UNCHANGED <<results, completions, pending, idleEvents>>
  /\ UNCHANGED <<flagVars, signalCancelled, aborted, calls, scopeCancelled, lineVars,
                 channelVars, waiter>>

\* [seeded fault] The abort flag is not looked at again.
EnterBodyUnchecked(i) ==
  /\ phase[i] = "acquired"
  /\ phase' = [phase EXCEPT ![i] = "running"]
  /\ UNCHANGED <<flagVars, signalCancelled, aborted, calls, scopeCancelled, results, completions,
                 pending, idleEvents, lineVars, channelVars, waiter>>

\* With the slot in hand, the abort flag is looked at once more.
EnterBody(i) ==
  /\ phase[i] = "acquired"
  /\ \/ /\ aborted
        /\ RecordResult(i, CancelReason)
        /\ ReleaseAndEnd(i, phase)
        /\ TaskEnds
     \/ /\ ~aborted
        /\ phase' = [phase EXCEPT ![i] = "running"]
        /\ UNCHANGED <<results, completions, pending, idleEvents, lineVars>>
  /\ UNCHANGED <<flagVars, signalCancelled, aborted, calls, scopeCancelled,
                 channelVars, waiter>>

\* [seeded fault] Any failing tool aborts the others.
AnyFailureAborts(i, outcome) == outcome # "success" /\ ~aborted

\* _maybe_abort, called after an error or a timeout.
TriggersAbort(i, outcome) == outcome # "success" /\ calls[i].aborts /\ ~aborted

\* _invoke: the body returned, raised or timed out.  A
\* cancelled scope does not stop a body that needs no further await.
BodyReturns(i, outcome) ==
  /\ phase[i] = "running"
  /\ RecordResult(i, outcome)
  /\ IF TriggersAbort(i, outcome)
     THEN /\ aborted' = TRUE
          /\ CancelScopes
          /\ ReleaseAndEnd(i, Evicted)
     ELSE /\ ReleaseAndEnd(i, phase)
          /\ UNCHANGED <<aborted, scopeCancelled>>
  /\ TaskEnds
  /\ UNCHANGED <<flagVars, signalCancelled, calls, channelVars, waiter>>

\* The cancellation exception reaches the task at a point where it waits.
\* At the gate it is only recorded when the call's own scope catches it: the
\* handler that records a reason starts after the gate.
DeliverCancel(i) ==
  /\ phase[i] \in {"gate", "queued", "doomed", "running"}
  /\ \/ /\ scopeCancelled[i] \/ (bodyRaised /\ phase[i] # "gate")
        /\ RecordResult(i, CancelReason)
     \/ /\ bodyRaised /\ phase[i] = "gate"
        /\ UNCHANGED <<results, completions>>
  /\ IF phase[i] = "running" THEN ReleaseAndEnd(i, phase)
     ELSE phase' = [phase EXCEPT ![i] = "done"] /\ UNCHANGED lineVars
  /\ TaskEnds
  /\ UNCHANGED <<flagVars, signalCancelled, aborted, calls, scopeCancelled,
                 channelVars, waiter>>

-----------------------------------------------------------------------------
(* The consumer of iter_completions / wait_one.                            *)

WaitOne ==
  /\ consumer = "reading"
  /\ \/ /\ received < Len(completions)
        /\ received' = received + 1
        /\ UNCHANGED consumer
     \/ /\ received = Len(completions) /\ channelClosed
        /\ consumer' = "ended"
        /\ UNCHANGED received
  /\ UNCHANGED <<flagVars, signalCancelled, aborted, calls, phase, scopeCancelled, results,
                 pending, idleEvents, lineVars, completions, channelClosed, waiter>>

Next ==
  \/ FireSignal \/ WatcherFires \/ WatcherStops
  \/ \E k \in Kinds : AddToolCall(k)
  \/ WaitAll \/ WaitAllWakes
  \/ \E raised \in BOOLEAN : Leave(raised)
  \/ Join
  \/ \E i \in Calls :
       \/ StartTask(i) \/ EnterBody(i) \/ DeliverCancel(i)
       \/ \E v \in {"allowed", "denied", "gateError"} : GateReturns(i, v)
       \/ \E o \in BodyOutcomes : BodyReturns(i, o)
  \/ WaitOne

Spec == Init /\ [][Next]_vars

\* The event loop runs every task that can run; nothing is assumed of the tools,
\* of the gate, of the caller or of the signal.
SchedulerFairness ==
  /\ \A i \in Calls :
       WF_vars(StartTask(i)) /\ WF_vars(EnterBody(i)) /\ WF_vars(DeliverCancel(i))
  /\ WF_vars(WatcherFires \/ WatcherStops)
  /\ WF_vars(WaitAllWakes) /\ WF_vars(Join) /\ WF_vars(WaitOne)

FairSpec == Spec /\ SchedulerFairness

-----------------------------------------------------------------------------
(* Safety.                                                                 *)

\* Bodies that are not known to be safe never overlap, and at most MaxConcurrency
\* safe ones do, whatever is cancelled, handed over or aborted meanwhile.
Running == {i \in Calls : phase[i] = "running"}
ConcurrencyLimits ==
  /\ \A i, j \in Running :
       calls[i].safety # "safe" /\ calls[j].safety # "safe" => i = j
  /\ Cardinality({i \in Running : calls[i].safety = "safe"}) <= MaxConcurrency

\* No slot is lost or invented on any path out of a task (result, error, abort,
\* cancellation), and no call is left in a line that has a free slot.
SlotsConserved ==
  \A l \in Lines :
    /\ free[l] + Cardinality(Holders(l)) = Limit[l]
    /\ free[l] > 0 => Queued(l, phase) = {}

\* _pending is the number of live tasks, and the current idle event is set
\* exactly when there are none: wait_all can rely on both.
PendingCountsTasks ==
  /\ pending = Cardinality(LiveCalls)
  /\ idleEvents[Len(idleEvents)] <=> pending = 0

\* The signal and a sibling's abort reach every task: none is started after the
\* flag was read and before the scopes were cancelled.
CancelReachesAll ==
  signalCancelled \/ aborted => \A i \in LiveCalls : scopeCancelled[i]

\* What wait_all and iter_completions report agrees: every recorded result was
\* pushed on the channel, once, also those filled in at the last moment.
CompletionsAgree ==
  /\ \A i \in Calls : results[i] # NoResult <=> \E p \in DOMAIN completions : completions[p] = i
  /\ \A p, q \in DOMAIN completions : completions[p] = completions[q] => p = q

\* A call is answered when its task ends and not before; only a body that raised
\* can leave a hole, and only until the join fills it.
EveryTaskAnswers ==
  \A i \in 1 .. Len(calls) :
    IF i \in LiveCalls THEN results[i] = NoResult
    ELSE results[i] # NoResult \/ (bodyRaised /\ mode = "joining")

\* The text of a cancelled result names its cause, unless the body raised: the
\* signal was seen, a sibling failed, or (the fallback) the body raised.
ReasonsNameTheCause ==
  \A i \in Calls :
    /\ results[i] = "signal" => signalCancelled
    /\ results[i] = "sibling" => aborted \/ bodyRaised
    /\ results[i] = "cancelled" => bodyRaised

\* Siblings are aborted only by a call of an aborting tool that itself failed.
AbortHasCulprit ==
  aborted => \E i \in 1 .. Len(calls) : calls[i].aborts /\ results[i] \in {"error", "timeout"}

\* Once cancelled or aborted, no new task joins those in flight, and after an
\* abort no further body starts.
OnlyDrainsAfterCancel ==
  [][/\ signalCancelled \/ aborted => LiveCalls' \subseteq LiveCalls
     /\ aborted => Running' \subseteq Running]_vars

\* The executor does what ToolDispatch promises.
Dispatch == INSTANCE ToolDispatch WITH
  Slots     <- MaxConcurrency,
  Answers   <- Results,
  NoAnswer  <- NoResult,
  requested <- Len(calls),
  alone     <- {i \in 1 .. Len(calls) : calls[i].safety # "safe"},
  answer    <- results,
  reported  <- completions,
  executing <- Running,
  halted    <- FastFails,
  closed    <- channelClosed
ImplementsDispatch == Dispatch!Spec

\* What _cancelled_result promises a user interface: "aborted by sibling tool
\* error" is said only when a sibling failed.
AbortReasonMeansSiblingError == \A i \in Calls : results[i] = "sibling" => aborted

-----------------------------------------------------------------------------
(* Liveness, with tools that may hang: they need only let a cancellation in.*)

\* After the signal, a sibling's abort or an exception in the body every task
\* in flight ends.
CancelSettles == signalCancelled \/ aborted \/ bodyRaised ~> LiveCalls = {}

\* After an exception in the body the join completes, and the consumer of the
\* completions comes to the end of the stream.
RaiseExits == bodyRaised ~> mode = "exited" /\ consumer = "ended"

\* If every body and gate call returns some day, so does a wait_all, however many
\* idle events were replaced while it was parked.
ToolsReturn ==
  \A i \in Calls : phase[i] \in {"gate", "running"} ~> phase[i] \notin {"gate", "running"}
WaitAllReturns == ToolsReturn => (waiter > 0 ~> waiter = 0)
=============================================================================
