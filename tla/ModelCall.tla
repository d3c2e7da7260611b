------------------------------- MODULE ModelCall ------------------------------
(***************************************************************************)
(* The model calls of one ShellForgeAI session.                            *)
(*                                                                         *)
(* A call runs the codex program, at most twice: a first attempt that says *)
(* its model is unavailable is repeated with the fallback model.  The      *)
(* child writes its last message into a file of the attempt's temporary    *)
(* directory, exits when it likes or not at all, and may leave behind a    *)
(* process that holds its pipes open.  An attempt that takes too long is   *)
(* terminated, then killed, and fails whatever it has written.  A session  *)
(* one of whose calls failed starts no more.                               *)
(*                                                                         *)
(* On POSIX the prompt is an argument of the program.  On Windows it is    *)
(* written to its standard input, and that write has no limit.             *)
(*                                                                         *)
(* Time is counted in ticks and only passes while ShellForgeAI waits or    *)
(* writes; what it does in between takes none.  "Mutant" marks a plausible *)
(* bug of the definition after it.                                         *)
(***************************************************************************)
EXTENDS Naturals

CONSTANTS
    Timeout,  \* ticks: the request's timeout_seconds
    Grace,    \* ticks: what a terminated, then a killed child is given
    MaxCalls, \* bound: calls of the session
    MaxLate   \* bound: ticks a call writes beyond its timeouts

ASSUME TicksAssumption == Timeout \in Nat \ {0} /\ Grace \in Nat \ {0}
ASSUME CallsAssumption == MaxCalls \in Nat /\ MaxLate \in Nat

VARIABLES
    platform,  \* "posix" or "windows"
    calls,     \* calls so far
    pc,        \* where the call is
    attempt,   \* of this call: 0, 1 or 2
    elapsed,   \* ticks since the call began
    waited,    \* ticks since the present wait, with its write, began
    late,      \* history: ticks this call has written its prompt beyond a timeout
    phase,     \* lifecycle.phase
    child,     \* per attempt, the codex process
    capture,   \* per attempt, the last-message file
    reported,  \* attempts whose child the response names as remaining
    response,  \* of the last call
    failure,   \* session.provider_failure is set
    signalled, \* history: attempts whose child was sent a signal
    ends       \* history: terminal phases this call has entered

session == <<platform, calls, failure>>
time    == <<elapsed, waited, late>>
codex   == <<child, capture>>
answer  == <<phase, reported, response, ends>>
vars == <<session, pc, attempt, time, codex, answer, signalled>>

Attempts == 1..2
Terminal == {"completed", "timed_out", "failed"}
Phases   == {"preparing_context", "building_prompt", "starting_provider",
             "waiting_for_response", "cleaning_up_children", "provider_exited"} \cup Terminal

\* "held": its pipes are open.  "says": its output, nothing, some text, or text
\* that says the model is unavailable.
NoChild  == [state |-> "none", held |-> FALSE, rc |-> 0, says |-> "nothing"]
Started  == [NoChild EXCEPT !.state = "running", !.held = TRUE]
Children == [state : {"none", "running", "exited"}, held : BOOLEAN, rc : {0, 1},
             says : {"nothing", "text", "unavailable"}]

Classes    == {"none", "binary_resolution", "timeout", "output_capture_missing",
               "empty_response", "model", "session_provider_suppressed"}
Responses  == [ok : BOOLEAN, class : Classes, captured : BOOLEAN, by : {0} \cup Attempts]
Unanswered == [ok |-> FALSE, class |-> "none", captured |-> FALSE, by |-> 0]
Failed(class) == [Unanswered EXCEPT !.class = class]

TypeOK ==
    /\ platform \in {"posix", "windows"}
    /\ calls \in 0..MaxCalls
    /\ pc \in {"idle", "spawn", "send", "wait", "terminated", "killed", "capture", "ended"}
    /\ attempt \in {0} \cup Attempts
    /\ elapsed \in Nat /\ waited \in Nat /\ late \in 0..MaxLate
    /\ phase \in Phases
    /\ child \in [Attempts -> Children]
    /\ capture \in [Attempts -> {"absent", "empty", "message"}]
    /\ reported \subseteq Attempts /\ signalled \subseteq Attempts
    /\ response \in Responses
    /\ failure \in BOOLEAN
    /\ ends \in 0..2

Init ==
    /\ platform \in {"posix", "windows"}
    /\ calls = 0 /\ failure = FALSE
    /\ pc = "idle" /\ attempt = 0
    /\ elapsed = 0 /\ waited = 0 /\ late = 0
    /\ phase = "preparing_context" /\ ends = 0
    /\ child = [a \in Attempts |-> NoChild]
    /\ capture = [a \in Attempts |-> "absent"]
    /\ reported = {} /\ signalled = {}
    /\ response = Unanswered

-----------------------------------------------------------------------------
(* The child.                                                              *)
\* Nobody is left to write to the pipes: communicate() returns.
Done(a) == child[a].state = "exited" /\ ~child[a].held

WriteCapture(a) ==
    /\ child[a].state = "running"
    /\ capture' = [capture EXCEPT ![a] = IF @ = "absent" THEN "empty" ELSE "message"]
    /\ UNCHANGED child

Exit(a) ==
    /\ child[a].state = "running"
    /\ \E held \in BOOLEAN, rc \in {0, 1}, says \in {"nothing", "text", "unavailable"} :
          child' = [child EXCEPT ![a] = [state |-> "exited", held |-> held,
                                         rc |-> rc, says |-> says]]
    /\ UNCHANGED capture

LetGo(a) ==
    /\ child[a].state = "exited" /\ child[a].held
    /\ child' = [child EXCEPT ![a].held = FALSE]
    /\ UNCHANGED capture

-----------------------------------------------------------------------------
(* Beginning a call and an attempt.                                        *)
Respond(r) ==
    /\ response' = r
    /\ failure' = (failure \/ ~r.ok)
    /\ pc' = "idle"

\* Enter a phase of the lifecycle.
Transition(p) ==
    /\ phase' = p
    /\ ends' = IF p \in Terminal THEN ends + 1 ELSE ends

\* complete_for_session, then complete up to the first attempt; a program that is
\* not found ends the call in the phase it is in.
Begin ==
    /\ pc = "idle"
    /\ calls < MaxCalls
    /\ calls' = calls + 1
    /\ elapsed' = 0 /\ waited' = 0 /\ late' = 0
    /\ child' = [a \in Attempts |-> NoChild]
    /\ capture' = [a \in Attempts |-> "absent"]
    /\ phase' = "preparing_context" /\ ends' = 0
    /\ reported' = {} /\ signalled' = {}
    /\ UNCHANGED platform
    /\ \/ failure /\ attempt' = 0 /\ Respond(Failed("session_provider_suppressed"))
       \/ ~failure /\ attempt' = 0 /\ Respond(Failed("binary_resolution"))
       \/ /\ ~failure /\ attempt' = 1 /\ pc' = "spawn"
          /\ response' = Unanswered /\ UNCHANGED failure

\* communicate() begins, its timeout runs.
Spawn ==
    /\ pc = "spawn"
    /\ child' = [child EXCEPT ![attempt] = Started]
    /\ Transition("waiting_for_response")
    /\ waited' = 0
    /\ pc' = IF platform = "windows" THEN "send" ELSE "wait"
    /\ UNCHANGED <<session, attempt, elapsed, late, capture, reported, response, signalled>>

\* The child has read its prompt, or nobody is left to read it.
Sent ==
    /\ pc = "send"
    /\ pc' = "wait"
    /\ UNCHANGED <<session, attempt, time, codex, answer, signalled>>

\* The program is gone, or Popen raises: the phase stays where it is.
SpawnFails ==
    /\ pc = "spawn"
    /\ \E p \in {"building_prompt", "starting_provider"} : Transition(p)
    /\ Respond(Failed("binary_resolution"))
    /\ UNCHANGED <<platform, calls, attempt, time, codex, reported, signalled>>

-----------------------------------------------------------------------------
(* Waiting, with a limit, and ending what does not end.                    *)
\* Mutant: the cleanup waits as long as the call.
LimitLong == Timeout

Limit == IF pc = "wait" THEN Timeout ELSE Grace

Tick ==
    /\ pc \in {"wait", "terminated", "killed"}
    /\ waited < Limit
    /\ ~Done(attempt)
    /\ elapsed' = elapsed + 1 /\ waited' = waited + 1
    /\ UNCHANGED <<session, pc, attempt, late, codex, answer, signalled>>

\* The write waits for the child to read, however long that takes.
SendTick ==
    /\ pc = "send"
    /\ ~Done(attempt)
    /\ waited >= Timeout => late < MaxLate
    /\ elapsed' = elapsed + 1 /\ waited' = waited + 1
    /\ late' = IF waited < Timeout THEN late ELSE late + 1
    /\ UNCHANGED <<session, pc, attempt, codex, answer, signalled>>

Communicated ==
    /\ pc = "wait"
    /\ Done(attempt)
    /\ Transition("provider_exited")
    /\ pc' = "capture"
    /\ UNCHANGED <<session, attempt, time, codex, reported, response, signalled>>

Overdue == waited >= Limit /\ ~Done(attempt)

\* The file may be unreadable, which counts as absent.
Seen(a) == {capture[a], "absent"}

\* The timeout is raised again once the child was cleaned up.  The first attempt's
\* response has the cleanup's report and the file's; the second's has neither.
TimedOut(remaining) ==
    /\ Transition("timed_out")
    /\ reported' = IF attempt = 1 THEN remaining ELSE {}
    /\ \E seen \in Seen(attempt) :
          Respond([Failed("timeout") EXCEPT
                      !.captured = (attempt = 1 /\ seen = "message"), !.by = attempt])
    /\ UNCHANGED <<platform, calls, attempt, time, codex, signalled>>

\* The child is over, only its pipes are not: there is nothing to clean up.
ExpirePipes ==
    /\ pc = "wait" /\ Overdue
    /\ child[attempt].state = "exited"
    /\ TimedOut({})

\* Mutant: a child is terminated and trusted to end.
ExpireTrusting ==
    /\ pc = "wait" /\ Overdue
    /\ child[attempt].state = "running"
    /\ TimedOut({})

\* terminate(), and wait for it.
Expire ==
    /\ pc = "wait" /\ Overdue
    /\ child[attempt].state = "running"
    /\ signalled' = signalled \cup {attempt}
    /\ Transition("cleaning_up_children")
    /\ waited' = 0
    /\ pc' = "terminated"
    /\ UNCHANGED <<session, attempt, elapsed, late, codex, reported, response>>

\* kill(), and wait for it.  Not even that always ends a process.
Kill ==
    /\ pc = "terminated" /\ Overdue
    /\ waited' = 0
    /\ pc' = "killed"
    /\ UNCHANGED <<session, attempt, elapsed, late, codex, answer, signalled>>

\* Mutant: a child that ended in time for the cleanup is taken at its word.
CleanedForgiving ==
    /\ pc \in {"terminated", "killed"}
    /\ Done(attempt)
    /\ IF child[attempt].rc = 0
       THEN /\ Transition("provider_exited")
            /\ pc' = "capture"
            /\ UNCHANGED <<session, attempt, time, codex, reported, response, signalled>>
       ELSE TimedOut({})

Cleaned ==
    /\ pc \in {"terminated", "killed"}
    /\ Done(attempt)
    /\ TimedOut({})

GiveUp ==
    /\ pc = "killed" /\ Overdue
    /\ TimedOut({attempt})

-----------------------------------------------------------------------------
(* A child that ended by itself.                                           *)
Unavailable(a) == child[a].rc # 0 /\ child[a].says = "unavailable"

\* Without a last message the output is the answer.
HasText(seen) == seen = "message" \/ child[attempt].says # "nothing"

Class(seen) ==
    IF child[attempt].rc # 0 THEN "model"
    ELSE IF HasText(seen)    THEN "none"
    ELSE IF seen = "absent"  THEN "output_capture_missing"
    ELSE "empty_response"

\* Mutant: a failed attempt is closed before it is repeated.
RetryClosed ==
    /\ pc = "capture"
    /\ attempt = 1 /\ Unavailable(1)
    /\ Transition("failed")
    /\ attempt' = 2
    /\ pc' = "spawn"
    /\ UNCHANGED <<session, time, codex, reported, response, signalled>>

\* Unless the configuration or the request rules it out; with a timeout of its own.
Retry ==
    /\ pc = "capture"
    /\ attempt = 1 /\ Unavailable(1)
    /\ attempt' = 2
    /\ pc' = "spawn"
    /\ UNCHANGED <<session, time, codex, answer, signalled>>

\* Mutant: an answer has a terminal phase of its own.
AnswerReady ==
    /\ pc = "capture"
    /\ \E seen \in Seen(attempt) :
          LET class == Class(seen) IN
          Respond([ok |-> class = "none", class |-> class,
                   captured |-> (seen = "message"), by |-> attempt])
    /\ Transition(IF child[attempt].rc = 0 THEN "answered" ELSE "failed")
    /\ UNCHANGED <<platform, calls, attempt, time, codex, reported, signalled>>

\* The lifecycle is completed by the exit code alone.
Answer ==
    /\ pc = "capture"
    /\ \E seen \in Seen(attempt) :
          LET class == Class(seen) IN
          Respond([ok |-> class = "none", class |-> class,
                   captured |-> (seen = "message"), by |-> attempt])
    /\ Transition(IF child[attempt].rc = 0 THEN "completed" ELSE "failed")
    /\ UNCHANGED <<platform, calls, attempt, time, codex, reported, signalled>>

\* Ctrl-C, which does not end a write, goes through to the end of the session; the
\* child has a session of its own and is no longer tracked.
Interrupt ==
    /\ pc \in {"wait", "terminated", "killed"}
    /\ pc' = "ended"
    /\ UNCHANGED <<session, attempt, time, codex, answer, signalled>>

-----------------------------------------------------------------------------
Call ==
    \/ Begin \/ Spawn \/ SpawnFails \/ Sent \/ Communicated \/ ExpirePipes \/ Expire
    \/ Kill \/ Cleaned \/ GiveUp \/ Retry \/ Answer \/ Interrupt

ChildStep ==
    /\ \E a \in Attempts : WriteCapture(a) \/ Exit(a) \/ LetGo(a)
    /\ UNCHANGED <<session, pc, attempt, time, answer, signalled>>

Next == Call \/ Tick \/ SendTick \/ ChildStep

Spec == Init /\ [][Next]_vars

-----------------------------------------------------------------------------
(* An answer comes from the attempt it names, from a child that ended by   *)
(* itself with success and said something: what is cut off by a timeout is *)
(* never turned into an answer, whatever the child wrote or how it ended   *)
(* while it was being stopped, and a session that has failed gives no more *)
(* answers.  A capture is only claimed of an attempt that wrote one.       *)
(* Without a last message the program's output is the answer, against what *)
(* the documentation says: see MissingCaptureFails.                        *)
HonestAnswer ==
    LET a == response.by IN
    /\ response.ok =>
          /\ a = attempt /\ a \notin signalled /\ ~failure
          /\ child[a].state = "exited" /\ child[a].rc = 0
          /\ capture[a] = "message" \/ child[a].says # "nothing"
    /\ response.captured => a # 0 /\ capture[a] = "message"

(* docs/codex-integration.md:190: an exit 0 with a missing or an empty     *)
(* last-message file fails the invocation.                                 *)
MissingCaptureFails == response.ok => capture[response.by] = "message"

(* A call that responds leaves no child running but one that outlived both *)
(* signals, and the response names it, unless it was the fallback's.       *)
ChildEndedOrReported ==
    pc = "idle" => \A a \in Attempts : child[a].state = "running" =>
        /\ a \in signalled
        /\ a \in reported \/ a = 2

(* No call takes longer than one timeout per attempt and one cleanup, and  *)
(* on Windows the time for which a child that does not read its prompt     *)
(* keeps the write going after a timeout: nothing bounds that.  (The       *)
(* documentation calls the one timeout the end-to-end deadline of a call,  *)
(* docs/model-providers.md:97, the delivery of the prompt and the cleanup  *)
(* included, docs/codex-integration.md:233; the code bounds less.)         *)
CallBounded ==
    /\ elapsed <= attempt * Timeout + 2 * Grace + late
    /\ platform = "posix" => late = 0

(* A call enters one terminal phase at most, and one that had a child      *)
(* enters one before it responds: a failed first attempt is not the end of *)
(* its fallback.                                                           *)
OneTerminalPhase ==
    /\ ends <= 1
    /\ pc = "idle" /\ response.class \notin {"binary_resolution", "session_provider_suppressed"}
          /\ calls > 0 => ends = 1 /\ phase \in Terminal
=============================================================================
