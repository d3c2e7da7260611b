--------------------------- MODULE ModelCallProofs ---------------------------
(***************************************************************************)
(* Proofs about ModelCall, for any timeout, any grace and any number of    *)
(* calls: an answer is honest, a child is ended or named, a call is        *)
(* bounded but for the write of its prompt on Windows, and it ends its     *)
(* lifecycle once.                                                         *)
(*                                                                         *)
(* The inductive invariant IInv ties the place of the call (pc) to what    *)
(* the child has done and to the time spent.  A response is only true of   *)
(* the child it names because nobody touches a child that is over, so the  *)
(* invariant speaks of the child of every attempt, not of the last alone.  *)
(***************************************************************************)
EXTENDS ModelCall, TLAPS

Busy == {"spawn", "send", "wait", "terminated", "killed", "capture"}

\* A call under way has not responded and has entered no terminal phase.
UnderWay ==
    /\ pc \in Busy => attempt \in Attempts /\ ~failure
    /\ pc # "idle" => response = Unanswered /\ ends = 0

\* The attempts come one after the other, and an attempt's child is there while
\* the call waits for it and over when its output is read.
ChildInv ==
    /\ \A a \in Attempts : /\ a < attempt => child[a].state = "exited"
                           /\ a > attempt => child[a].state = "none"
    /\ pc = "spawn" => child[attempt].state = "none"
    /\ pc = "capture" => child[attempt].state = "exited" /\ ~child[attempt].held

\* A child is signalled only to end the call.
SignalInv ==
    /\ pc \in {"spawn", "send", "wait", "capture"} => signalled = {}
    /\ pc \in {"terminated", "killed"} => signalled = {attempt}

\* The ticks spent before this attempt.
Before == IF attempt = 2 THEN Timeout ELSE 0

\* Beyond the timeout a write counts as late, and only on Windows.
ClockInv ==
    /\ pc = "spawn" => elapsed <= Before + late
    /\ pc \in {"send", "wait"} =>
          /\ waited <= Timeout => elapsed <= Before + late + waited
          /\ waited >= Timeout => elapsed <= Before + late + Timeout
    /\ pc = "capture" => elapsed <= Before + late + Timeout
    /\ pc = "terminated" => waited <= Grace /\ elapsed <= Before + late + Timeout + waited
    /\ pc = "killed" =>
          waited <= Grace /\ elapsed <= Before + late + Timeout + Grace + waited
    /\ platform = "posix" => pc # "send" /\ late = 0

\* An answer names its attempt.
AnswerInv == response.ok => response.by \in Attempts

IInv == /\ TypeOK /\ UnderWay /\ ChildInv /\ SignalInv /\ ClockInv /\ AnswerInv
        /\ HonestAnswer /\ ChildEndedOrReported /\ CallBounded /\ OneTerminalPhase

-----------------------------------------------------------------------------
LEMMA ChildKinds == NoChild \in Children /\ Started \in Children
  BY DEF Started, NoChild, Children

LEMMA UnansweredType == Unanswered \in Responses
  BY DEF Unanswered, Responses, Classes

LEMMA TypeInit == Init => TypeOK
<1> SUFFICES ASSUME Init PROVE TypeOK
  OBVIOUS
<1>1. calls \in 0..MaxCalls
  BY CallsAssumption DEF Init
<1>2. child \in [Attempts -> Children] /\ response \in Responses
  BY ChildKinds, UnansweredType DEF Init
<1>3. failure \in BOOLEAN
  BY DEF Init
<1>4. capture \in [Attempts -> {"absent", "empty", "message"}] /\ phase \in Phases
  BY DEF Init, Phases
<1>5. late \in 0..MaxLate
  BY CallsAssumption DEF Init
<1> QED
  BY <1>1, <1>2, <1>3, <1>4, <1>5 DEF Init, TypeOK

\* A failed response is a response.
LEMMA FailedType ==
    ASSUME NEW class \in Classes
    PROVE  Failed(class) \in Responses /\ ~Failed(class).ok /\ Failed(class).class = class
           /\ Failed(class).by = 0 /\ ~Failed(class).captured
  BY DEF Failed, Responses, Unanswered

\* What every answer to the caller changes.
LEMMA RespondType ==
    ASSUME TypeOK, NEW r \in Responses, Respond(r)
    PROVE  response' \in Responses /\ failure' \in BOOLEAN /\ pc' = "idle"
  BY DEF TypeOK, Respond, Responses

LEMMA TransitionType ==
    ASSUME TypeOK, ends = 0, NEW p \in Phases, Transition(p)
    PROVE  phase' \in Phases /\ ends' \in 0..2
  BY DEF TypeOK, Transition
LEMMA SeenType ==
    ASSUME TypeOK, NEW a \in Attempts, NEW seen \in Seen(a)
    PROVE  seen \in {"absent", "empty", "message"}
  BY DEF TypeOK, Seen

\* The response to a timeout, and that to an exit.
LEMMA TimeoutResponse ==
    ASSUME NEW captured \in BOOLEAN, NEW a \in Attempts
    PROVE  LET r == [Failed("timeout") EXCEPT !.captured = captured, !.by = a] IN
           r \in Responses /\ ~r.ok /\ r.class = "timeout" /\ r.captured = captured /\ r.by = a
  BY DEF Failed, Unanswered, Responses, Classes

LEMMA ExitResponse ==
    ASSUME NEW class \in Classes, NEW captured \in BOOLEAN, NEW a \in Attempts
    PROVE  LET r == [ok |-> class = "none", class |-> class, captured |-> captured, by |-> a] IN
           r \in Responses /\ r.class = class /\ r.captured = captured /\ r.by = a
  BY DEF Responses

LEMMA ClassType ==
    ASSUME NEW seen
    PROVE  Class(seen) \in Classes \ {"binary_resolution", "session_provider_suppressed", "timeout"}
  BY DEF Class, Classes

\* What a timeout answers.
LEMMA TimedOutFacts ==
    ASSUME TypeOK, attempt \in Attempts, ends = 0, NEW R, TimedOut(R)
    PROVE  /\ pc' = "idle" /\ phase' = "timed_out" /\ ends' = 1 /\ failure' = TRUE
           /\ reported' = IF attempt = 1 THEN R ELSE {}
           /\ response' \in Responses /\ ~response'.ok
           /\ response'.class = "timeout" /\ response'.by = attempt
           /\ response'.captured => capture[attempt] = "message"
           /\ UNCHANGED <<calls, attempt, elapsed, waited, late, platform, child, capture, signalled>>
<1>1. PICK seen \in Seen(attempt) :
          Respond([Failed("timeout") EXCEPT
                      !.captured = (attempt = 1 /\ seen = "message"), !.by = attempt])
  BY DEF TimedOut
<1> DEFINE C == (attempt = 1 /\ seen = "message")
           r == [Failed("timeout") EXCEPT !.captured = C, !.by = attempt]
<1>2. C \in BOOLEAN
  OBVIOUS
<1>3. /\ r \in Responses /\ ~r.ok /\ r.class = "timeout" /\ r.by = attempt
      /\ r.captured = C
  <2> HIDE DEF C
  <2> QED BY <1>2, TimeoutResponse
<1>4. C => capture[attempt] = "message"
  BY DEF Seen
<1>5. response' = r /\ failure' = (failure \/ ~r.ok) /\ pc' = "idle"
  BY <1>1 DEF Respond
<1> HIDE DEF r
<1>6. failure' = TRUE
  BY <1>3, <1>5, Zenon DEF TypeOK
<1> HIDE DEF C
<1> QED
  BY <1>3, <1>4, <1>5, <1>6 DEF TimedOut, Transition, Terminal, time, codex

\* What a child that ended by itself answers.
LEMMA AnswerFacts ==
    ASSUME TypeOK, attempt \in Attempts, ends = 0, ~failure, Answer
    PROVE  /\ pc' = "idle" /\ phase' \in {"completed", "failed"} /\ ends' = 1
           /\ failure' \in BOOLEAN
           /\ response' \in Responses /\ response'.by = attempt
           /\ response'.class \notin {"binary_resolution", "session_provider_suppressed"}
           /\ response'.captured => capture[attempt] = "message"
           /\ response'.ok => /\ ~failure' /\ child[attempt].rc = 0
                              /\ capture[attempt] = "message" \/ child[attempt].says # "nothing"
           /\ UNCHANGED <<calls, attempt, elapsed, waited, late, platform, child, capture, reported, signalled>>
<1>1. PICK seen \in Seen(attempt) :
          Respond([ok |-> Class(seen) = "none", class |-> Class(seen),
                   captured |-> (seen = "message"), by |-> attempt])
  BY DEF Answer
<1> DEFINE C == (seen = "message")
           r == [ok |-> Class(seen) = "none", class |-> Class(seen), captured |-> C, by |-> attempt]
<1>2. C \in BOOLEAN /\ Class(seen) \in Classes
      /\ Class(seen) \notin {"binary_resolution", "session_provider_suppressed"}
  BY ClassType
<1>3. r \in Responses /\ r.class = Class(seen) /\ r.captured = C /\ r.by = attempt
      /\ r.ok = (Class(seen) = "none")
  <2> HIDE DEF C
  <2> QED BY <1>2, ExitResponse
<1>4. C => capture[attempt] = "message"
  BY DEF Seen
<1>5. Class(seen) = "none" =>
          child[attempt].rc = 0 /\ (seen = "message" \/ child[attempt].says # "nothing")
  BY DEF Class, HasText
<1>6. response' = r /\ failure' = (failure \/ ~r.ok) /\ pc' = "idle"
  BY <1>1 DEF Respond
<1> HIDE DEF r
<1>7. failure' \in BOOLEAN /\ (r.ok => ~failure')
  BY <1>6, Zenon
<1>8. ends' = 1 /\ phase' \in {"completed", "failed"}
  BY DEF Answer, Transition, Terminal
<1>9. r.ok => capture[attempt] = "message" \/ child[attempt].says # "nothing"
  BY <1>3, <1>4, <1>5
<1> HIDE DEF C
<1> QED
  BY <1>2, <1>3, <1>4, <1>5, <1>6, <1>7, <1>8, <1>9 DEF Answer, time, codex

-----------------------------------------------------------------------------
(* The step, one part of the invariant after the other.                     *)
LEMMA TypeNext == IInv /\ [Next]_vars => TypeOK'
<1> SUFFICES ASSUME IInv, [Next]_vars PROVE TypeOK'
  OBVIOUS
<1> USE DEF IInv
<1>0. TypeOK /\ UnderWay
  OBVIOUS
<1>1. CASE Begin
  <2>1. child' \in [Attempts -> Children] /\ capture' \in [Attempts -> {"absent", "empty", "message"}]
    BY <1>1, ChildKinds DEF Begin
  <2>2. Failed("session_provider_suppressed") \in Responses /\ Failed("binary_resolution") \in Responses
    BY FailedType DEF Classes
  <2>3. response' \in Responses
    BY <1>1, <2>2, UnansweredType DEF Begin, Respond
  <2>4. failure' \in BOOLEAN
    BY <1>0, <1>1, Zenon DEF Begin, Respond, TypeOK
  <2>5. pc' \in {"idle", "spawn"} /\ attempt' \in {0, 1} /\ calls' \in 0..MaxCalls
    BY <1>0, <1>1, CallsAssumption DEF Begin, Respond, TypeOK
  <2>6. elapsed' = 0 /\ waited' = 0 /\ phase' = "preparing_context" /\ ends' = 0
        /\ reported' = {} /\ signalled' = {}
    BY <1>1 DEF Begin
  <2>7. late' \in 0..MaxLate /\ platform' \in {"posix", "windows"}
    BY <1>0, <1>1, CallsAssumption DEF Begin, TypeOK
  <2> QED BY <2>1, <2>3, <2>4, <2>5, <2>6, <2>7 DEF TypeOK, Phases, Attempts
<1>2. CASE Spawn
  <2>1. child' \in [Attempts -> Children]
    BY <1>0, <1>2, ChildKinds DEF Spawn, TypeOK
  <2> QED BY <1>0, <1>2, <2>1 DEF Spawn, TypeOK, UnderWay, Busy, Transition, Phases, Terminal, session, answer
<1>3. CASE SpawnFails
  <2>1. Failed("binary_resolution") \in Responses
    BY FailedType DEF Classes
  <2>2. response' \in Responses /\ pc' = "idle"
    BY <1>3, <2>1 DEF SpawnFails, Respond
  <2>3. failure' \in BOOLEAN
    BY <1>0, <1>3, Zenon DEF SpawnFails, Respond, TypeOK
  <2>4. phase' \in Phases /\ ends' \in 0..2
    BY <1>0, <1>3 DEF SpawnFails, Transition, Phases, Terminal, TypeOK
  <2> QED BY <1>0, <1>3, <2>2, <2>3, <2>4 DEF SpawnFails, TypeOK, time, codex
<1>4. CASE Communicated
  BY <1>0, <1>4 DEF Communicated, TypeOK, Transition, Phases, Terminal, session, time, codex
<1>5. CASE ExpirePipes
  <2>1. attempt \in Attempts /\ ends = 0 /\ TimedOut({})
    BY <1>0, <1>5 DEF ExpirePipes, UnderWay, Busy
  <2>2. reported' = {} \/ reported' = {}
    BY <1>0, <2>1, TimedOutFacts
  <2>3. /\ pc' = "idle" /\ phase' = "timed_out" /\ ends' = 1 /\ failure' = TRUE
        /\ response' \in Responses
        /\ UNCHANGED <<calls, attempt, elapsed, waited, late, platform, child, capture, signalled>>
    BY <1>0, <2>1, TimedOutFacts
  <2> QED BY <1>0, <2>1, <2>2, <2>3 DEF TypeOK, Phases, Terminal
<1>6. CASE Expire
  BY <1>0, <1>6 DEF Expire, TypeOK, UnderWay, Busy, Transition, Phases, Terminal, session, codex
<1>7. CASE Kill
  BY <1>0, <1>7 DEF Kill, TypeOK, session, codex, answer
<1>8. CASE Cleaned
  <2>1. attempt \in Attempts /\ ends = 0 /\ TimedOut({})
    BY <1>0, <1>8 DEF Cleaned, UnderWay, Busy
  <2>2. reported' = {} \/ reported' = {}
    BY <1>0, <2>1, TimedOutFacts
  <2>3. /\ pc' = "idle" /\ phase' = "timed_out" /\ ends' = 1 /\ failure' = TRUE
        /\ response' \in Responses
        /\ UNCHANGED <<calls, attempt, elapsed, waited, late, platform, child, capture, signalled>>
    BY <1>0, <2>1, TimedOutFacts
  <2> QED BY <1>0, <2>1, <2>2, <2>3 DEF TypeOK, Phases, Terminal
<1>9. CASE GiveUp
  <2>1. attempt \in Attempts /\ ends = 0 /\ TimedOut({attempt})
    BY <1>0, <1>9 DEF GiveUp, UnderWay, Busy
  <2>2. reported' = {attempt} \/ reported' = {}
    BY <1>0, <2>1, TimedOutFacts
  <2>3. /\ pc' = "idle" /\ phase' = "timed_out" /\ ends' = 1 /\ failure' = TRUE
        /\ response' \in Responses
        /\ UNCHANGED <<calls, attempt, elapsed, waited, late, platform, child, capture, signalled>>
    BY <1>0, <2>1, TimedOutFacts
  <2> QED BY <1>0, <2>1, <2>2, <2>3 DEF TypeOK, Phases, Terminal
<1>10. CASE Retry
  BY <1>0, <1>10 DEF Retry, TypeOK, Attempts, session, time, codex, answer
<1>11. CASE Answer
  <2>1. attempt \in Attempts /\ ends = 0 /\ ~failure
    BY <1>0, <1>11 DEF Answer, UnderWay, Busy
  <2>2. /\ pc' = "idle" /\ phase' \in {"completed", "failed"} /\ ends' = 1
        /\ response' \in Responses /\ failure' \in BOOLEAN
        /\ UNCHANGED <<calls, attempt, elapsed, waited, late, platform, child, capture, reported, signalled>>
    BY <1>0, <1>11, <2>1, AnswerFacts
  <2> QED BY <1>0, <2>2 DEF TypeOK, Phases, Terminal
<1>12. CASE Interrupt
  BY <1>0, <1>12 DEF Interrupt, TypeOK, session, time, codex, answer
<1>13. CASE Tick
  BY <1>0, <1>13 DEF Tick, TypeOK, session, codex, answer
<1>14. CASE ChildStep
  <2>1. PICK a \in Attempts : WriteCapture(a) \/ Exit(a) \/ LetGo(a)
    BY <1>14 DEF ChildStep
  <2>2. child' \in [Attempts -> Children]
    <3>1. child \in [Attempts -> Children] /\ child[a] \in Children
      BY <1>0 DEF TypeOK
    <3>2. CASE WriteCapture(a)
      BY <3>1, <3>2 DEF WriteCapture
    <3>3. CASE Exit(a)
      <4>1. PICK held \in BOOLEAN, rc \in {0, 1}, says \in {"nothing", "text", "unavailable"} :
               child' = [child EXCEPT ![a] = [state |-> "exited", held |-> held,
                                              rc |-> rc, says |-> says]]
        BY <3>3 DEF Exit
      <4>2. [state |-> "exited", held |-> held, rc |-> rc, says |-> says] \in Children
        BY DEF Children
      <4> QED BY <3>1, <4>1, <4>2
    <3>4. CASE LetGo(a)
      <4>1. child' = [child EXCEPT ![a] = [child[a] EXCEPT !.held = FALSE]]
        BY <3>1, <3>4 DEF LetGo
      <4>2. [child[a] EXCEPT !.held = FALSE] \in Children
        BY <3>1 DEF Children
      <4> QED BY <3>1, <4>1, <4>2
    <3> QED BY <2>1, <3>2, <3>3, <3>4
  <2>3. capture' \in [Attempts -> {"absent", "empty", "message"}]
    BY <1>0, <2>1 DEF WriteCapture, Exit, LetGo, TypeOK
  <2> QED BY <1>0, <1>14, <2>2, <2>3 DEF ChildStep, TypeOK, session, time, answer
<1>15. CASE UNCHANGED vars
  BY <1>0, <1>15 DEF TypeOK, vars, session, time, codex, answer
<1>16. CASE Sent
  BY <1>0, <1>16 DEF Sent, TypeOK, session, time, codex, answer
<1>17. CASE SendTick
  <2>1. late' \in 0..MaxLate
    <3>1. CASE waited < Timeout
      BY <1>0, <1>17, <3>1 DEF SendTick, TypeOK
    <3>2. CASE ~(waited < Timeout)
      <4>1. waited >= Timeout
        BY <1>0, <3>2, TicksAssumption DEF TypeOK
      <4>2. late' = late + 1 /\ late < MaxLate
        BY <1>17, <3>2, <4>1 DEF SendTick
      <4> QED BY <1>0, <4>2, CallsAssumption DEF TypeOK
    <3> QED BY <3>1, <3>2
  <2>2. elapsed' \in Nat /\ waited' \in Nat
    BY <1>0, <1>17 DEF SendTick, TypeOK
  <2> QED BY <1>0, <1>17, <2>1, <2>2 DEF SendTick, TypeOK, session, codex, answer
<1> QED
  BY <1>1, <1>2, <1>3, <1>4, <1>5, <1>6, <1>7, <1>8, <1>9, <1>10, <1>11, <1>12, <1>13, <1>14, <1>15, <1>16, <1>17 DEF Next, Call

\* The four ways a call responds after a child of its own was started.
Ending == ExpirePipes \/ Cleaned \/ GiveUp \/ Answer

LEMMA EndingFacts ==
    ASSUME IInv, Ending
    PROVE  /\ attempt \in Attempts /\ pc \in Busy /\ pc' = "idle"
           /\ ends' = 1 /\ phase' \in Terminal
           /\ response'.by = attempt
           /\ response'.captured => capture[attempt] = "message"
           /\ response'.ok => /\ ~failure' /\ pc = "capture" /\ child[attempt].rc = 0
                              /\ capture[attempt] = "message" \/ child[attempt].says # "nothing"
           /\ child[attempt].state = "running" =>
                 /\ pc = "killed"
                 /\ reported' = IF attempt = 1 THEN {attempt} ELSE {}
           /\ UNCHANGED <<attempt, elapsed, late, platform, child, capture, signalled>>
<1>1. TypeOK /\ pc \in Busy /\ attempt \in Attempts /\ ends = 0 /\ ~failure
      /\ (pc = "capture" => child[attempt].state = "exited")
  BY DEF IInv, UnderWay, ChildInv, Ending, ExpirePipes, Cleaned, GiveUp, Answer, Busy
<1>2. CASE ExpirePipes
  <2>1. TimedOut({}) /\ (child[attempt].state = "running" => FALSE)
    BY <1>2 DEF ExpirePipes
  <2> QED BY <1>1, <2>1, TimedOutFacts DEF Terminal
<1>3. CASE Cleaned
  <2>1. TimedOut({}) /\ (child[attempt].state = "running" => FALSE)
    BY <1>3 DEF Cleaned, Done
  <2> QED BY <1>1, <2>1, TimedOutFacts DEF Terminal
<1>4. CASE GiveUp
  <2>1. TimedOut({attempt}) /\ (child[attempt].state = "running" => pc = "killed")
    BY <1>4 DEF GiveUp
  <2> QED BY <1>1, <2>1, TimedOutFacts DEF Terminal
<1>5. CASE Answer
  <2>1. pc = "capture" /\ child[attempt].state = "exited"
    BY <1>1, <1>5 DEF Answer
  <2> QED BY <1>1, <1>5, <2>1, AnswerFacts DEF Terminal
<1> QED BY <1>2, <1>3, <1>4, <1>5 DEF Ending

LEMMA UnderWayNext == IInv /\ [Next]_vars => UnderWay'
<1> SUFFICES ASSUME IInv, [Next]_vars PROVE UnderWay'
  OBVIOUS
<1>0. TypeOK /\ UnderWay
  BY DEF IInv
<1>1. CASE Begin
  BY <1>0, <1>1 DEF Begin, Respond, UnderWay, Busy, Attempts, Terminal
<1>2. CASE Spawn
  BY <1>0, <1>2 DEF Spawn, Transition, session, UnderWay, Busy, Attempts, Terminal
<1>3. CASE SpawnFails
  BY <1>0, <1>3 DEF SpawnFails, Respond, Transition, time, codex, UnderWay, Busy, Attempts, Terminal
<1>4. CASE Communicated
  BY <1>0, <1>4 DEF Communicated, Transition, session, time, codex, UnderWay, Busy, Attempts, Terminal
<1>5. CASE Expire
  BY <1>0, <1>5 DEF Expire, Transition, session, codex, UnderWay, Busy, Attempts, Terminal
<1>6. CASE Kill
  BY <1>0, <1>6 DEF Kill, session, codex, answer, UnderWay, Busy, Attempts, Terminal
<1>7. CASE Retry
  BY <1>0, <1>7 DEF Retry, session, time, codex, answer, UnderWay, Busy, Attempts, Terminal
<1>8. CASE Interrupt
  BY <1>0, <1>8 DEF Interrupt, session, time, codex, answer, UnderWay, Busy, Attempts, Terminal
<1>9. CASE Tick
  BY <1>0, <1>9 DEF Tick, session, codex, answer, UnderWay, Busy, Attempts, Terminal
<1>10. CASE ChildStep
  BY <1>0, <1>10 DEF ChildStep, session, time, answer, UnderWay, Busy, Attempts, Terminal
<1>11. CASE Ending
  BY <1>0, <1>11, EndingFacts DEF UnderWay, Busy, Attempts, Terminal
<1>12. CASE UNCHANGED vars
  BY <1>0, <1>12 DEF vars, session, time, codex, answer, UnderWay, Busy, Attempts, Terminal
<1>13. CASE Sent
  BY <1>0, <1>13 DEF Sent, session, time, codex, answer, UnderWay, Busy, Attempts, Terminal
<1>14. CASE SendTick
  BY <1>0, <1>14 DEF SendTick, session, codex, answer, UnderWay, Busy, Attempts, Terminal
<1> QED
  BY <1>1, <1>2, <1>3, <1>4, <1>5, <1>6, <1>7, <1>8, <1>9, <1>10, <1>11, <1>12, <1>13, <1>14 DEF Next, Call, Ending

LEMMA SignalNext == IInv /\ [Next]_vars => SignalInv'
<1> SUFFICES ASSUME IInv, [Next]_vars PROVE SignalInv'
  OBVIOUS
<1>0. TypeOK /\ UnderWay /\ SignalInv
  BY DEF IInv
<1>1. CASE Begin
  BY <1>0, <1>1 DEF Begin, Respond, SignalInv, TypeOK, Attempts
<1>2. CASE Spawn
  BY <1>0, <1>2 DEF Spawn, Transition, session, SignalInv, TypeOK, Attempts
<1>3. CASE SpawnFails
  BY <1>0, <1>3 DEF SpawnFails, Respond, Transition, time, codex, SignalInv, TypeOK, Attempts
<1>4. CASE Communicated
  BY <1>0, <1>4 DEF Communicated, Transition, session, time, codex, SignalInv, TypeOK, Attempts
<1>5. CASE Expire
  BY <1>0, <1>5 DEF Expire, Transition, session, codex, SignalInv, TypeOK, Attempts
<1>6. CASE Kill
  BY <1>0, <1>6 DEF Kill, session, codex, answer, SignalInv, TypeOK, Attempts
<1>7. CASE Retry
  BY <1>0, <1>7 DEF Retry, session, time, codex, answer, SignalInv, TypeOK, Attempts
<1>8. CASE Interrupt
  BY <1>0, <1>8 DEF Interrupt, session, time, codex, answer, SignalInv, TypeOK, Attempts
<1>9. CASE Tick
  BY <1>0, <1>9 DEF Tick, session, codex, answer, SignalInv, TypeOK, Attempts
<1>10. CASE ChildStep
  BY <1>0, <1>10 DEF ChildStep, session, time, answer, SignalInv, TypeOK, Attempts
<1>11. CASE Ending
  BY <1>0, <1>11, EndingFacts DEF SignalInv, TypeOK, Attempts
<1>12. CASE UNCHANGED vars
  BY <1>0, <1>12 DEF vars, session, time, codex, answer, SignalInv, TypeOK, Attempts
<1>13. CASE Sent
  BY <1>0, <1>13 DEF Sent, session, time, codex, answer, SignalInv, TypeOK, Attempts
<1>14. CASE SendTick
  BY <1>0, <1>14 DEF SendTick, session, codex, answer, SignalInv, TypeOK, Attempts
<1> QED
  BY <1>1, <1>2, <1>3, <1>4, <1>5, <1>6, <1>7, <1>8, <1>9, <1>10, <1>11, <1>12, <1>13, <1>14 DEF Next, Call, Ending

\* What a child may do: one that is over only lets go of its pipes.
LEMMA ChildStepFacts ==
    ASSUME TypeOK, ChildStep
    PROVE  /\ \A b \in Attempts :
                 /\ child[b].state # "running" =>
                       /\ child'[b].state = child[b].state /\ child'[b].rc = child[b].rc
                       /\ child'[b].says = child[b].says /\ (~child[b].held => ~child'[b].held)
                 /\ child[b].state = "running" => child'[b].state \in {"running", "exited"}
                 /\ capture[b] = "message" => capture'[b] = "message"
           /\ UNCHANGED <<calls, failure, pc, attempt, elapsed, waited, late, platform, phase, reported,
                          response, ends, signalled>>
<1>1. PICK a \in Attempts : WriteCapture(a) \/ Exit(a) \/ LetGo(a)
  BY DEF ChildStep
<1>2. child \in [Attempts -> Children] /\ child[a] \in Children
      /\ capture \in [Attempts -> {"absent", "empty", "message"}]
  BY DEF TypeOK
<1>3. UNCHANGED <<calls, failure, pc, attempt, elapsed, waited, late, platform, phase, reported, response,
                  ends, signalled>>
  BY DEF ChildStep, session, time, answer
<1>4. CASE WriteCapture(a)
  BY <1>2, <1>3, <1>4 DEF WriteCapture
<1>5. CASE Exit(a)
  BY <1>2, <1>3, <1>5 DEF Exit
<1>6. CASE LetGo(a)
  <2>1. child' = [child EXCEPT ![a] = [child[a] EXCEPT !.held = FALSE]] /\ UNCHANGED capture
        /\ child[a].state = "exited"
    BY <1>2, <1>6 DEF LetGo
  <2>2. /\ [child[a] EXCEPT !.held = FALSE].state = child[a].state
        /\ [child[a] EXCEPT !.held = FALSE].rc = child[a].rc
        /\ [child[a] EXCEPT !.held = FALSE].says = child[a].says
        /\ [child[a] EXCEPT !.held = FALSE].held = FALSE
    BY <1>2 DEF Children
  <2> QED BY <1>2, <1>3, <2>1, <2>2
<1> QED BY <1>1, <1>4, <1>5, <1>6

LEMMA ChildNext == IInv /\ [Next]_vars => ChildInv'
<1> SUFFICES ASSUME IInv, [Next]_vars PROVE ChildInv'
  OBVIOUS
<1>0. TypeOK /\ UnderWay /\ ChildInv
  BY DEF IInv
<1>1. CASE Begin
  BY <1>0, <1>1 DEF Begin, Respond, ChildInv, Attempts, NoChild
<1>2. CASE Spawn
  <2>1. attempt \in Attempts
    BY <1>0, <1>2 DEF Spawn, UnderWay, Busy
  <2>2. pc' \in {"send", "wait"} /\ attempt' = attempt
        /\ \A a \in Attempts : a # attempt => child'[a] = child[a]
    BY <1>0, <1>2, <2>1 DEF Spawn, TypeOK
  <2> QED BY <1>0, <2>1, <2>2 DEF ChildInv, Attempts
<1>3. CASE SpawnFails
  BY <1>0, <1>3 DEF SpawnFails, Respond, Transition, time, codex, ChildInv, Attempts
<1>4. CASE Communicated
  BY <1>0, <1>4 DEF Communicated, Done, ChildInv, session, time, codex
<1>5. CASE Expire
  BY <1>0, <1>5 DEF Expire, Transition, session, codex, ChildInv, Attempts
<1>6. CASE Kill
  BY <1>0, <1>6 DEF Kill, session, codex, answer, ChildInv, Attempts
<1>7. CASE Retry
  BY <1>0, <1>7 DEF Retry, ChildInv, Attempts, codex
<1>8. CASE Interrupt
  BY <1>0, <1>8 DEF Interrupt, session, time, codex, answer, ChildInv, Attempts
<1>9. CASE Tick
  BY <1>0, <1>9 DEF Tick, session, codex, answer, ChildInv, Attempts
<1>10. CASE ChildStep
  <2>1. attempt \in {0, 1, 2} /\ (pc \in Busy => attempt \in Attempts)
    BY <1>0 DEF TypeOK, Attempts, UnderWay
  <2> QED BY <1>0, <1>10, <2>1, ChildStepFacts DEF ChildInv, Attempts, Busy
<1>11. CASE Ending
  BY <1>0, <1>11, EndingFacts DEF ChildInv, Attempts
<1>12. CASE UNCHANGED vars
  BY <1>0, <1>12 DEF vars, session, time, codex, answer, ChildInv, Attempts
<1>13. CASE Sent
  BY <1>0, <1>13 DEF Sent, session, time, codex, answer, ChildInv, Attempts
<1>14. CASE SendTick
  BY <1>0, <1>14 DEF SendTick, session, codex, answer, ChildInv, Attempts
<1> QED
  BY <1>1, <1>2, <1>3, <1>4, <1>5, <1>6, <1>7, <1>8, <1>9, <1>10, <1>11, <1>12, <1>13, <1>14 DEF Next, Call, Ending

\* Only a write counts as late, and on POSIX there is none.
LEMMA LateNext == IInv /\ [Next]_vars => (platform' = "posix" => pc' # "send" /\ late' = 0)
<1> SUFFICES ASSUME IInv, [Next]_vars, platform' = "posix" PROVE pc' # "send" /\ late' = 0
  OBVIOUS
<1>0. TypeOK /\ (platform = "posix" => pc # "send" /\ late = 0)
  BY DEF IInv, ClockInv
<1>1. CASE Begin
  BY <1>1 DEF Begin, Respond
<1>2. CASE Spawn
  BY <1>0, <1>2 DEF Spawn, session
<1>3. CASE SpawnFails
  BY <1>0, <1>3 DEF SpawnFails, Respond, time
<1>4. CASE Sent \/ Communicated \/ Expire \/ Kill \/ Retry \/ Interrupt
  BY <1>0, <1>4 DEF Sent, Communicated, Expire, Kill, Retry, Interrupt, session, time
<1>5. CASE Tick \/ SendTick
  BY <1>0, <1>5 DEF Tick, SendTick, session
<1>6. CASE ChildStep
  BY <1>0, <1>6 DEF ChildStep, session, time
<1>7. CASE Ending
  BY <1>0, <1>7, EndingFacts
<1>8. CASE UNCHANGED vars
  BY <1>0, <1>8 DEF vars, session, time
<1> QED
  BY <1>1, <1>2, <1>3, <1>4, <1>5, <1>6, <1>7, <1>8 DEF Next, Call, Ending

LEMMA ClockNext == IInv /\ [Next]_vars => ClockInv'
<1> SUFFICES ASSUME IInv, [Next]_vars PROVE ClockInv'
  OBVIOUS
<1>00. /\ elapsed \in Nat /\ waited \in Nat /\ late \in Nat
       /\ Timeout \in Nat /\ Grace \in Nat /\ Before \in Nat
  BY TicksAssumption, CallsAssumption DEF IInv, TypeOK, Before
<1>0. TypeOK /\ UnderWay /\ ClockInv
  BY DEF IInv
<1>L. platform' = "posix" => pc' # "send" /\ late' = 0
  BY LateNext
<1>1. CASE Begin
  BY <1>0, <1>1, <1>L DEF Begin, Respond, ClockInv, Before
<1>2. CASE Spawn
  <2>1. elapsed <= Before + late /\ pc' \in {"send", "wait"} /\ waited' = 0
        /\ UNCHANGED <<attempt, elapsed, late>>
    BY <1>0, <1>2 DEF Spawn, ClockInv
  <2>2. elapsed' <= Before' + late' + waited' /\ elapsed' <= Before' + late' + Timeout
    BY <1>00, <2>1 DEF Before
  <2> QED BY <1>L, <2>1, <2>2 DEF ClockInv
<1>3. CASE SpawnFails
  BY <1>0, <1>3, <1>L DEF SpawnFails, Respond, Transition, time, codex, ClockInv, Before
<1>4. CASE Communicated
  <2>1. /\ waited <= Timeout => elapsed <= Before + late + waited
        /\ waited >= Timeout => elapsed <= Before + late + Timeout
        /\ pc' = "capture" /\ UNCHANGED <<attempt, elapsed, waited, late>>
    BY <1>0, <1>4 DEF Communicated, ClockInv, session, time
  <2>2. elapsed' <= Before' + late' + Timeout
    BY <1>00, <2>1 DEF Before
  <2> QED BY <1>L, <2>1, <2>2 DEF ClockInv
<1>5. CASE Expire
  <2>1. /\ waited >= Timeout => elapsed <= Before + late + Timeout
        /\ waited >= Timeout /\ pc' = "terminated"
        /\ waited' = 0 /\ UNCHANGED <<attempt, elapsed, late>>
    BY <1>0, <1>5 DEF Expire, Overdue, Limit, ClockInv, session
  <2>2. waited' <= Grace /\ elapsed' <= Before' + late' + Timeout + waited'
    BY <1>00, <2>1 DEF Before
  <2> QED BY <1>L, <2>1, <2>2 DEF ClockInv
<1>6. CASE Kill
  <2>1. waited <= Grace /\ elapsed <= Before + late + Timeout + waited /\ pc' = "killed"
        /\ waited' = 0 /\ UNCHANGED <<attempt, elapsed, late>>
    BY <1>0, <1>6 DEF Kill, ClockInv, session
  <2>2. waited' <= Grace /\ elapsed' <= Before' + late' + Timeout + Grace + waited'
    BY <1>00, <2>1 DEF Before
  <2> QED BY <1>L, <2>1, <2>2 DEF ClockInv
<1>7. CASE Retry
  <2>1. attempt = 1 /\ elapsed <= Before + late + Timeout /\ pc' = "spawn" /\ attempt' = 2
        /\ elapsed' = elapsed /\ late' = late
    BY <1>0, <1>7 DEF Retry, ClockInv, time
  <2>2. elapsed' <= Before' + late'
    BY <1>00, <2>1 DEF Before
  <2> QED BY <1>L, <2>1, <2>2 DEF ClockInv
<1>8. CASE Interrupt
  BY <1>0, <1>8, <1>L DEF Interrupt, session, time, codex, answer, ClockInv, Before
<1>9. CASE Tick
  <2>1. /\ waited < Limit /\ elapsed' = elapsed + 1 /\ waited' = waited + 1
        /\ pc \in {"wait", "terminated", "killed"} /\ UNCHANGED <<pc, attempt, late>>
    BY <1>9 DEF Tick
  <2>2. Before' = Before
    BY <2>1 DEF Before
  <2>3. CASE pc = "wait"
    <3>1. waited < Timeout /\ elapsed <= Before + late + waited
      BY <1>0, <1>00, <2>1, <2>3 DEF ClockInv, Limit
    <3>2. elapsed' <= Before' + late' + waited' /\ elapsed' <= Before' + late' + Timeout
      BY <1>00, <2>1, <2>2, <3>1
    <3> QED BY <1>L, <2>1, <2>3, <3>2 DEF ClockInv
  <2>4. CASE pc = "terminated"
    <3>1. waited' <= Grace /\ elapsed' <= Before' + late' + Timeout + waited'
      BY <1>0, <1>00, <2>1, <2>2, <2>4 DEF ClockInv, Limit
    <3> QED BY <1>L, <2>1, <2>4, <3>1 DEF ClockInv
  <2>5. CASE pc = "killed"
    <3>1. waited' <= Grace /\ elapsed' <= Before' + late' + Timeout + Grace + waited'
      BY <1>0, <1>00, <2>1, <2>2, <2>5 DEF ClockInv, Limit
    <3> QED BY <1>L, <2>1, <2>5, <3>1 DEF ClockInv
  <2> QED BY <2>1, <2>3, <2>4, <2>5
<1>10. CASE SendTick
  <2>1. /\ waited <= Timeout => elapsed <= Before + late + waited
        /\ waited >= Timeout => elapsed <= Before + late + Timeout
        /\ elapsed' = elapsed + 1 /\ waited' = waited + 1
        /\ late' = (IF waited < Timeout THEN late ELSE late + 1)
        /\ pc = "send" /\ UNCHANGED <<pc, attempt>>
    BY <1>0, <1>10 DEF SendTick, ClockInv
  <2>2. Before' = Before
    BY <2>1 DEF Before
  <2>3. /\ waited' <= Timeout => elapsed' <= Before' + late' + waited'
        /\ waited' >= Timeout => elapsed' <= Before' + late' + Timeout
    <3>1. CASE waited < Timeout
      BY <1>00, <2>1, <2>2, <3>1
    <3>2. CASE waited >= Timeout
      BY <1>00, <2>1, <2>2, <3>2
    <3> QED BY <1>00, <3>1, <3>2
  <2> QED BY <1>L, <2>1, <2>3 DEF ClockInv
<1>11. CASE Sent
  BY <1>0, <1>11, <1>L DEF Sent, session, time, ClockInv, Before
<1>12. CASE ChildStep
  BY <1>0, <1>12, <1>L DEF ChildStep, session, time, answer, ClockInv, Before
<1>13. CASE Ending
  BY <1>0, <1>13, <1>L, EndingFacts DEF ClockInv, Before
<1>14. CASE UNCHANGED vars
  BY <1>0, <1>14, <1>L DEF vars, session, time, codex, answer, ClockInv, Before
<1> QED
  BY <1>1, <1>2, <1>3, <1>4, <1>5, <1>6, <1>7, <1>8, <1>9, <1>10, <1>11, <1>12, <1>13, <1>14
  DEF Next, Call, Ending


\* A step that leaves the caller with a response responds, or is not the call's.
LEMMA IdleAfter ==
    ASSUME [Next]_vars, pc' = "idle"
    PROVE  \/ Begin /\ response' \in {Failed("session_provider_suppressed"), Failed("binary_resolution")}
           \/ SpawnFails
           \/ Ending
           \/ pc = "idle" /\ (ChildStep \/ UNCHANGED vars)
  BY DEF Next, Call, Ending, Begin, Spawn, SpawnFails, Sent, Communicated, Expire, Kill, Retry,
         Interrupt, Tick, SendTick, ChildStep, Respond, vars, session, codex, answer, time

LEMMA HonestNext == IInv /\ [Next]_vars => HonestAnswer' /\ AnswerInv'
<1> SUFFICES ASSUME IInv, [Next]_vars PROVE HonestAnswer' /\ AnswerInv'
  OBVIOUS
<1>0. TypeOK /\ UnderWay /\ HonestAnswer /\ AnswerInv /\ UnderWay'
  BY UnderWayNext DEF IInv
<1>1. CASE pc' # "idle"
  BY <1>0, <1>1 DEF UnderWay, HonestAnswer, AnswerInv, Unanswered
<1>2. CASE ~response'.ok /\ ~response'.captured
  BY <1>2 DEF HonestAnswer, AnswerInv
<1>3. CASE Begin /\ response' \in {Failed("session_provider_suppressed"), Failed("binary_resolution")}
  BY <1>2, <1>3 DEF Failed, Unanswered
<1>4. CASE SpawnFails
  BY <1>2, <1>4 DEF SpawnFails, Respond, Failed, Unanswered
<1>5. CASE Ending
  <2>1. signalled = {} \/ pc # "capture"
    BY DEF IInv, SignalInv
  <2>2. pc = "capture" => child[attempt].state = "exited"
    BY DEF IInv, ChildInv
  <2> QED BY <1>5, <2>1, <2>2, EndingFacts DEF HonestAnswer, AnswerInv, Attempts
<1>6. CASE ChildStep
  <2>1. response.by \in {0, 1, 2}
    BY <1>0 DEF TypeOK, Responses, Attempts
  <2>2. response' = response /\ attempt' = attempt /\ signalled' = signalled /\ failure' = failure
    BY <1>0, <1>6, ChildStepFacts
  <2>3. \A b \in Attempts :
           /\ child[b].state = "exited" => /\ child'[b].state = "exited"
                                           /\ child'[b].rc = child[b].rc
                                           /\ child'[b].says = child[b].says
           /\ capture[b] = "message" => capture'[b] = "message"
    BY <1>0, <1>6, ChildStepFacts
  <2> QED BY <1>0, <2>1, <2>2, <2>3 DEF HonestAnswer, AnswerInv, Attempts
<1>7. CASE UNCHANGED vars
  BY <1>0, <1>7 DEF HonestAnswer, AnswerInv, vars, session, answer, codex
<1> QED
  BY <1>1, <1>3, <1>4, <1>5, <1>6, <1>7, IdleAfter

LEMMA EndedNext == IInv /\ [Next]_vars => ChildEndedOrReported'
<1> SUFFICES ASSUME IInv, [Next]_vars, pc' = "idle" PROVE ChildEndedOrReported'
  BY DEF ChildEndedOrReported
<1>0. TypeOK /\ ChildInv /\ SignalInv /\ ChildEndedOrReported
  BY DEF IInv
<1>1. CASE Begin
  BY <1>1 DEF Begin, NoChild, ChildEndedOrReported
<1>2. CASE SpawnFails
  BY <1>0, <1>2 DEF SpawnFails, codex, ChildInv, ChildEndedOrReported, TypeOK, Attempts
<1>3. CASE Ending
  <2>1. \A a \in Attempts : child[a].state = "running" => a = attempt
    BY <1>0, <1>3, EndingFacts DEF ChildInv, Attempts
  <2>2. child[attempt].state = "running" => attempt \in signalled /\ (attempt \in reported' \/ attempt = 2)
    BY <1>0, <1>3, EndingFacts DEF SignalInv, Attempts
  <2> QED BY <1>3, <2>1, <2>2, EndingFacts DEF ChildEndedOrReported
<1>4. CASE pc = "idle" /\ ChildStep
  BY <1>0, <1>4, ChildStepFacts DEF ChildEndedOrReported
<1>5. CASE pc = "idle" /\ UNCHANGED vars
  BY <1>0, <1>5 DEF ChildEndedOrReported, vars, codex, answer
<1> QED BY <1>1, <1>2, <1>3, <1>4, <1>5, IdleAfter

\* The clock stays within the bound while the call is under way.
LEMMA ClockBound == TypeOK /\ ClockInv /\ pc \in Busy /\ attempt \in Attempts => CallBounded
<1> SUFFICES ASSUME TypeOK, ClockInv, pc \in Busy, attempt \in Attempts PROVE CallBounded
  OBVIOUS
<1>1. elapsed \in Nat /\ waited \in Nat /\ late \in Nat /\ Timeout \in Nat /\ Grace \in Nat
  BY TicksAssumption, CallsAssumption DEF TypeOK
<1>2. elapsed <= Before + late + Timeout + 2 * Grace
  <2>1. Before \in Nat
    BY <1>1 DEF Before
  <2> QED BY <1>1, <2>1 DEF ClockInv, Busy
<1>3. elapsed <= attempt * Timeout + 2 * Grace + late
  <2>1. CASE attempt = 1
    BY <1>1, <1>2, <2>1 DEF Before
  <2>2. CASE attempt = 2
    BY <1>1, <1>2, <2>2 DEF Before
  <2> QED BY <2>1, <2>2 DEF Attempts
<1>4. platform = "posix" => late = 0
  BY DEF ClockInv
<1> QED BY <1>3, <1>4 DEF CallBounded

LEMMA BoundedNext == IInv /\ [Next]_vars => CallBounded'
<1> SUFFICES ASSUME IInv, [Next]_vars PROVE CallBounded'
  OBVIOUS
<1>0. CallBounded /\ TypeOK' /\ ClockInv' /\ UnderWay'
  BY TypeNext, ClockNext, UnderWayNext DEF IInv
<1>1. CASE UNCHANGED <<attempt, elapsed, late, platform>>
  BY <1>0, <1>1 DEF CallBounded
<1>2. CASE Begin
  <2>1. elapsed' = 0 /\ late' = 0 /\ attempt' \in {0, 1}
    BY <1>2 DEF Begin
  <2>2. CASE attempt' = 0
    BY <2>1, <2>2, TicksAssumption DEF CallBounded
  <2>3. CASE attempt' = 1
    BY <2>1, <2>3, TicksAssumption DEF CallBounded
  <2> QED BY <2>1, <2>2, <2>3
<1>3. CASE pc' \in Busy
  <2>1. attempt' \in Attempts
    BY <1>0, <1>3 DEF UnderWay
  <2>2. (TypeOK /\ ClockInv /\ pc \in Busy /\ attempt \in Attempts => CallBounded)'
    BY ClockBound, PTL
  <2>3. TypeOK' /\ ClockInv' /\ pc' \in Busy' /\ attempt' \in Attempts' => CallBounded'
    BY <2>2
  <2> QED BY <1>0, <1>3, <2>1, <2>3 DEF Busy, Attempts
<1>4. Begin \/ pc' \in Busy \/ UNCHANGED <<attempt, elapsed, late, platform>>
  <2>1. Ending => UNCHANGED <<attempt, elapsed, late, platform>>
    BY EndingFacts
  <2> QED
    BY <2>1 DEF Next, Call, Ending, Spawn, SpawnFails, Sent, Communicated, Expire, Kill, Retry,
                Interrupt, Tick, SendTick, ChildStep, Busy, vars, session, time, answer, codex
<1> QED BY <1>1, <1>2, <1>3, <1>4

LEMMA OncePhaseNext == IInv /\ [Next]_vars => OneTerminalPhase'
<1> SUFFICES ASSUME IInv, [Next]_vars PROVE OneTerminalPhase'
  OBVIOUS
<1>0. TypeOK /\ OneTerminalPhase /\ UnderWay /\ UnderWay'
  BY UnderWayNext DEF IInv
<1>1. CASE pc' # "idle"
  BY <1>0, <1>1 DEF UnderWay, OneTerminalPhase
<1>2. CASE Begin /\ response' \in {Failed("session_provider_suppressed"), Failed("binary_resolution")}
  BY <1>2 DEF Begin, Failed, Unanswered, OneTerminalPhase
<1>3. CASE SpawnFails
  <2>1. ends' = 0
    BY <1>0, <1>3 DEF SpawnFails, UnderWay, Transition, Terminal
  <2>2. response'.class = "binary_resolution"
    BY <1>3 DEF SpawnFails, Respond, Failed, Unanswered
  <2> QED BY <2>1, <2>2 DEF OneTerminalPhase
<1>4. CASE Ending
  BY <1>4, EndingFacts DEF OneTerminalPhase
<1>5. CASE pc = "idle" /\ (ChildStep \/ UNCHANGED vars)
  BY <1>0, <1>5 DEF OneTerminalPhase, ChildStep, vars, session, answer
<1> QED BY <1>1, <1>2, <1>3, <1>4, <1>5, IdleAfter

LEMMA InitIInv == Init => IInv
<1> SUFFICES ASSUME Init PROVE IInv
  OBVIOUS
<1>1. response = Unanswered /\ ~response.ok /\ ~response.captured
  BY DEF Init, Unanswered
<1>2. \A a \in Attempts : child[a].state = "none"
  BY DEF Init, NoChild
<1>3. UnderWay /\ ChildInv /\ SignalInv /\ ClockInv
  BY <1>1, <1>2 DEF Init, UnderWay, ChildInv, SignalInv, ClockInv, Busy, Attempts
<1>4. HonestAnswer /\ AnswerInv /\ ChildEndedOrReported /\ OneTerminalPhase
  BY <1>1, <1>2 DEF Init, HonestAnswer, AnswerInv, ChildEndedOrReported, OneTerminalPhase
<1>5. CallBounded
  BY TicksAssumption DEF Init, CallBounded
<1> QED BY TypeInit, <1>3, <1>4, <1>5 DEF IInv

LEMMA Invariance == Spec => []IInv
<1>1. IInv /\ [Next]_vars => IInv'
  BY TypeNext, UnderWayNext, ChildNext, SignalNext, ClockNext, HonestNext, EndedNext,
     BoundedNext, OncePhaseNext DEF IInv
<1> QED BY InitIInv, <1>1, PTL DEF Spec

-----------------------------------------------------------------------------
\* Every reachable state has the declared types, whatever the timeouts and however
\* many calls a session makes.
THEOREM TypeCorrect == Spec => []TypeOK
<1>1. IInv => TypeOK
  BY DEF IInv
<1> QED BY Invariance, <1>1, PTL

\* A timeout is never turned into an answer: an answer comes from a child that ended
\* by itself, with success, and said something, on its output if not in its last
\* message.
THEOREM AnswersHonest == Spec => []HonestAnswer
<1>1. IInv => HonestAnswer
  BY DEF IInv
<1> QED BY Invariance, <1>1, PTL

\* A call that has responded leaves no child running unsignalled, and names the one
\* that outlived both signals, unless it was the fallback's.
THEOREM NoChildLeft == Spec => []ChildEndedOrReported
<1>1. IInv => ChildEndedOrReported
  BY DEF IInv
<1> QED BY Invariance, <1>1, PTL

\* No call on POSIX takes longer than a timeout for each attempt and one cleanup.  On
\* Windows the write of the prompt has no bound of its own: what it exceeds its
\* timeout by (late) is all that a call can take on top.
THEOREM AlwaysBounded == Spec => []CallBounded
<1>1. IInv => CallBounded
  BY DEF IInv
<1> QED BY Invariance, <1>1, PTL

\* The lifecycle of a call ends at most once, and ends if a child was started.
THEOREM TerminalOnce == Spec => []OneTerminalPhase
<1>1. IInv => OneTerminalPhase
  BY DEF IInv
<1> QED BY Invariance, <1>1, PTL

==============================================================================
