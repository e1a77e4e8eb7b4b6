---------------------------- MODULE ToolDispatch ----------------------------
(***************************************************************************)
(* What a streaming tool executor promises to the turn that feeds it.      *)
(* Calls are requested one after the other; the body of a call may execute *)
(* while later calls are still being requested.  Every requested call gets *)
(* exactly one answer, which never changes and is reported once, in the    *)
(* order the answers came.  Calls that must run alone exclude one another; *)
(* the others share a number of slots.  Once the executor is halted (by    *)
(* the cancellation signal or by a failing call) a new request is answered *)
(* at once, and the executor is closed only when nothing is unanswered.    *)
(***************************************************************************)
EXTENDS Naturals, Sequences, FiniteSets

CONSTANTS N,        \* bound on the requests
          Slots,    \* how many calls that may share can execute at once
          Answers,  \* what a call can be answered with
          NoAnswer  \* (not one of Answers)

Calls == 1 .. N

VARIABLES
  requested,  \* how many calls were requested
  alone,      \* those that exclude one another
  answer,     \* the answer of each call
  reported,   \* the answered calls, in the order of their answers
  executing,  \* the calls whose body executes
  halted,     \* TRUE once new requests are refused
  closed

vars == <<requested, alone, answer, reported, executing, halted, closed>>

Unanswered == {i \in 1 .. requested : answer[i] = NoAnswer}

Init ==
  /\ requested = 0 /\ alone = {}
  /\ answer = [i \in Calls |-> NoAnswer]
  /\ reported = <<>> /\ executing = {}
  /\ halted \in BOOLEAN /\ closed = FALSE

\* The orders in which the calls of S can be reported.
Orders(S) == {s \in [1 .. Cardinality(S) -> S] : \A i \in S : \E p \in DOMAIN s : s[p] = i}

\* The calls of S are answered, together; a body that is answered has ended.
AnswerAll(S) ==
  /\ \E f \in [S -> Answers] :
       answer' = [i \in Calls |-> IF i \in S THEN f[i] ELSE answer[i]]
  /\ \E s \in Orders(S) : reported' = reported \o s
  /\ executing' = executing \ S

Request ==
  /\ ~closed /\ requested < N
  /\ requested' = requested + 1
  /\ alone' \in {alone, alone \cup {requested'}}
  /\ IF halted THEN AnswerAll({requested'})
     ELSE UNCHANGED <<answer, reported, executing>>
  /\ UNCHANGED <<halted, closed>>

Execute(i) ==
  /\ i \in Unanswered \ executing
  /\ IF i \in alone THEN executing \cap alone = {}
     ELSE Cardinality(executing \ alone) < Slots
  /\ executing' = executing \cup {i}
  /\ UNCHANGED <<requested, alone, answer, reported, halted, closed>>

Answer(S) ==
  /\ S # {}
  /\ AnswerAll(S)
  /\ halted' \in {halted, TRUE}
  /\ UNCHANGED <<requested, alone, closed>>

Halt ==
  /\ halted' = TRUE
  /\ UNCHANGED <<requested, alone, answer, reported, executing, closed>>

Close ==
  /\ ~closed /\ executing = {}
  /\ AnswerAll(Unanswered)
  /\ closed' = TRUE
  /\ UNCHANGED <<requested, alone, halted>>

Next ==
  \/ Request \/ Halt \/ Close
  \/ \E i \in Calls : Execute(i)
  \/ \E S \in SUBSET Unanswered : Answer(S)

Spec == Init /\ [][Next]_vars
=============================================================================
