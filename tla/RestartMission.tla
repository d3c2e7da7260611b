----------------------------- MODULE RestartMission ---------------------------
(***************************************************************************)
(* Restart missions: mission restart prepare, status, checklist and        *)
(* execute, over the one restart proposal of a lab container.              *)
(*                                                                         *)
(* A mission is a file.  prepare writes it anew; status, checklist and     *)
(* execute refresh it from the artifacts on disk; execute then passes it   *)
(* through the apply gate, which restarts and verifies the container and   *)
(* leaves a receipt, and records the result; apply --execute goes through  *)
(* the same gate and records nothing.  Mission commands read the file, or  *)
(* not, and write it back without a lock, and a write empties the file     *)
(* before it fills it.                                                     *)
(*                                                                         *)
(* The proposal, its rollback preview, the allowlist and the evidence may  *)
(* change between any two readings: each reading chooses what it finds.    *)
(* "Mutant" marks a plausible bug of the definition after it.              *)
(***************************************************************************)
EXTENDS DockerHost, FiniteSets

CONSTANTS
    Nobody,   \* none of Callers: an earlier invocation
    MaxKills  \* bound: invocations killed

ASSUME NobodyAssumption == Nobody \notin Callers
ASSUME KillsAssumption == MaxKills \in Nat

VARIABLES
    file,       \* the mission each invocation prepared
    kind,       \* what an invocation is
    mission,    \* the mission it works on
    pc,         \* where it is
    draft,      \* what it is about to write into the mission
    recording,  \* invocations that write their result, not a refreshed view
    pre,        \* what its inspection before the restart showed
    ok,         \* docker restart answered, and answered 0
    receipt,    \* the status of the execution receipt it wrote
    result,     \* what it is to record
    killed,
    fresh,      \* history: invocations whose mission nobody opened since they read it
    raced,      \* history: missions written from a stale reading
    cut,        \* history: missions one of whose writes was killed
    recorded    \* history: per mission, what was recorded last

mine    == <<kind, mission>>
gate    == <<pre, ok, receipt>>
history == <<fresh, raced, cut, recorded>>
vars == <<host, file, mine, pc, draft, recording, gate, result, killed, history>>

Missions  == Callers \cup {Nobody}
Outcomes  == {"none", "executed", "failed", "refused"}
Results   == [outcome : Outcomes, by : Missions]
NoResult  == [outcome |-> "none", by |-> Nobody]
Refused   == [outcome |-> "refused", by |-> Nobody]
Files     == [state : {"missing", "torn", "whole"}, ready : BOOLEAN, result : Results]
NoFile    == [state |-> "missing", ready |-> FALSE, result |-> NoResult]
TornFile  == [NoFile EXCEPT !.state = "torn"]

TypeOK ==
    /\ HostTypeOK
    /\ file \in [Missions -> Files]
    /\ kind \in [Callers -> {"none", "prepare", "status", "execute", "unconfirmed", "apply"}]
    /\ mission \in [Callers -> Missions]
    /\ pc \in [Callers -> {"ready", "open", "write", "check", "gate", "inspect", "restart",
                           "waiting", "verify", "record", "done"}]
    /\ draft \in [Callers -> Files]
    /\ recording \subseteq Callers /\ killed \subseteq Callers /\ fresh \subseteq Callers
    /\ pre \in [Callers -> Containers]
    /\ ok \in [Callers -> BOOLEAN]
    /\ receipt \in [Callers -> {"none", "refused", "failed", "warning", "success"}]
    /\ result \in [Callers -> Results]
    /\ raced \subseteq Missions /\ cut \subseteq Missions
    /\ recorded \in [Missions -> Results]

\* What the phases make of the artifacts, the proposal approved or not, the
\* rollback preview there or not, the plan ready or not.
Prepared == {[state |-> "whole", ready |-> b, result |-> NoResult] : b \in BOOLEAN}

\* An earlier invocation may have prepared a mission.
Init ==
    /\ HostInit
    /\ \E f \in {NoFile} \cup Prepared :
          file = [m \in Missions |-> IF m = Nobody THEN f ELSE NoFile]
    /\ kind = [i \in Callers |-> "none"]
    /\ mission = [i \in Callers |-> Nobody]
    /\ pc = [i \in Callers |-> "ready"]
    /\ draft = [i \in Callers |-> NoFile]
    /\ recording = {}
    /\ pre = [i \in Callers |-> Absent]
    /\ ok = [i \in Callers |-> FALSE]
    /\ receipt = [i \in Callers |-> "none"]
    /\ result = [i \in Callers |-> NoResult]
    /\ killed = {}
    /\ fresh = {}
    /\ raced = {} /\ cut = {}
    /\ recorded = [m \in Missions |-> NoResult]

-----------------------------------------------------------------------------
(* Reading a mission.                                                      *)
Whole(m) == file[m].state = "whole"
Goto(i, step) == pc' = [pc EXCEPT ![i] = step]

Refuse(i) ==
    /\ result' = [result EXCEPT ![i] = Refused]
    /\ Goto(i, "record")

Become(i, k, m) ==
    /\ pc[i] = "ready"
    /\ kind' = [kind EXCEPT ![i] = k]
    /\ mission' = [mission EXCEPT ![i] = m]

\* find_mission_for_proposal skips what it cannot parse.
FoundOrNew(i) ==
    LET found == {m \in Missions : Whole(m)} IN IF found = {} THEN {i} ELSE found

\* mission restart prepare: a mission found is written anew, whatever it says.
Prepare(i) ==
    /\ \E m \in FoundOrNew(i) : Become(i, "prepare", m)
    /\ \E f \in Prepared : draft' = [draft EXCEPT ![i] = f]
    /\ Goto(i, "open")
    /\ UNCHANGED <<host, file, recording, gate, result, history>>

\* Mutant: a failed execution is no terminal state.
TerminalExecuted(f) == f.result.outcome \in {"executed", "refused"}

Terminal(f) == f.result.outcome \in {"executed", "failed", "refused"}

\* _preserve_terminal_state.
Refreshed(f) == IF Terminal(f) THEN {[g EXCEPT !.result = f.result] : g \in Prepared}
                ELSE Prepared

\* mission restart status, checklist and execute: refresh_mission.
Refresh(i) ==
    /\ \E k \in {"status", "execute", "unconfirmed"}, m \in Missions :
          /\ Whole(m)
          /\ Become(i, k, m)
          /\ \E f \in Refreshed(file[m]) : draft' = [draft EXCEPT ![i] = f]
    /\ fresh' = fresh \cup {i}
    /\ Goto(i, "open")
    /\ UNCHANGED <<host, file, recording, gate, result, raced, cut, recorded>>

\* The mission, or its proposal, does not load: it is not ready.
RefreshFails(i) ==
    /\ \E k \in {"execute", "unconfirmed"}, m \in Missions :
          file[m].state # "missing" /\ Become(i, k, m)
    /\ Refuse(i)
    /\ UNCHANGED <<host, file, draft, recording, gate, history>>

\* apply --execute: straight to the gate, for no mission.
Apply(i) ==
    /\ Become(i, "apply", Nobody)
    /\ Goto(i, "gate")
    /\ UNCHANGED <<host, file, draft, recording, gate, result, history>>

-----------------------------------------------------------------------------
(* Writing it: open(..., "w"), then the text.                              *)
Open(i) ==
    /\ pc[i] = "open"
    /\ LET m == mission[i] IN
       /\ file' = [file EXCEPT ![m] = TornFile]
       /\ fresh' = fresh \ {j \in Callers : j # i /\ mission[j] = m}
       /\ raced' = IF file[m].state = "torn" \/ (kind[i] # "prepare" /\ i \notin fresh)
                   THEN raced \cup {m} ELSE raced
    /\ Goto(i, "write")
    /\ UNCHANGED <<host, mine, draft, recording, gate, result, cut, recorded>>

Write(i) ==
    /\ pc[i] = "write"
    /\ LET m == mission[i] IN
       /\ file' = [file EXCEPT ![m] = draft[i]]
       /\ recorded' = IF i \in recording \/ kind[i] = "prepare"
                      THEN [recorded EXCEPT ![m] = draft[i].result] ELSE recorded
    /\ Goto(i, IF i \in recording \/ kind[i] \in {"prepare", "status"} THEN "done" ELSE "check")
    /\ UNCHANGED <<host, mine, draft, recording, gate, result, fresh, raced, cut>>

-----------------------------------------------------------------------------
(* Readiness and the apply gate.                                           *)
\* The phases are those just written.
ExecuteReady(i) ==
    draft[i].ready /\ draft[i].result.outcome \in {"none", "executed"}

\* The proposal and the preview are read again, and may refuse a ready mission.
Check(i) ==
    /\ pc[i] = "check"
    /\ \/ kind[i] = "execute" /\ ExecuteReady(i) /\ Goto(i, "gate") /\ UNCHANGED result
       \/ Refuse(i)
    /\ UNCHANGED <<host, file, mine, draft, recording, gate, history>>

\* Preflight, the guard's report or the compiled actions refuse: no receipt.
GuardRefuses(i) ==
    /\ pc[i] = "gate"
    /\ Refuse(i)
    /\ UNCHANGED <<host, file, mine, draft, recording, gate, history>>

\* The gates and the preview are evaluated again: a refusal here has a receipt.
GateRefuses(i) ==
    /\ pc[i] = "gate"
    /\ receipt' = [receipt EXCEPT ![i] = "refused"]
    /\ result' = [result EXCEPT ![i] = [Refused EXCEPT !.by = i]]
    /\ Goto(i, "record")
    /\ UNCHANGED <<host, file, mine, draft, recording, pre, ok, history>>

GateAllows(i) ==
    /\ pc[i] = "gate"
    /\ Goto(i, "inspect")
    /\ UNCHANGED <<host, file, mine, draft, recording, gate, result, history>>

Inspect(i) ==
    /\ pc[i] = "inspect"
    /\ \E sight \in {container, Absent} : pre' = [pre EXCEPT ![i] = sight]
    /\ Goto(i, "restart")
    /\ UNCHANGED <<host, file, mine, draft, recording, ok, receipt, result, history>>

SendRestart(i) ==
    /\ pc[i] = "restart"
    /\ AskRestart(i)
    /\ Goto(i, "waiting")
    /\ UNCHANGED <<file, mine, draft, recording, gate, result, history>>

Restarted(i, succeeded) ==
    /\ ok' = [ok EXCEPT ![i] = succeeded]
    /\ Goto(i, "verify")
    /\ UNCHANGED <<host, file, mine, draft, recording, pre, receipt, result, history>>

CannotStart(i) == pc[i] = "restart" /\ Restarted(i, FALSE)

Answer(i) ==
    /\ pc[i] = "waiting"
    /\ request[i] \in {"done", "failed"}
    /\ Restarted(i, request[i] = "done")

\* Mutant: the limit holds only once the daemon has answered.
TimeoutAnswered(i) ==
    /\ pc[i] = "waiting"
    /\ request[i] # "held"
    /\ Restarted(i, FALSE)

\* 30 seconds are over; the daemon still has the request.
Timeout(i) == pc[i] = "waiting" /\ Restarted(i, FALSE)

-----------------------------------------------------------------------------
(* Verification, the receipt and the record.                               *)
StartedChanged(before, after) == before.found /\ before.started # after.started

\* Mutant: a container that is up is taken for restarted, whatever the command said.
VerificationUp(i, sight) ==
    IF ~sight.found THEN {"failed"}
    ELSE {"failed", "warning"} \cup
         (IF StartedChanged(pre[i], sight) THEN {"passed"} ELSE {})

\* A container may have stopped or be unhealthy, its health unknown or starting.
Verification(i, sight) ==
    IF ~ok[i] THEN {"skipped"}
    ELSE IF ~sight.found THEN {"failed"}
    ELSE {"failed", "warning"} \cup
         (IF StartedChanged(pre[i], sight) THEN {"passed"} ELSE {})

\* Mutant: a verification that was skipped has a status of its own.
ReceiptStatusSkipped(verdict) ==
    CASE verdict = "passed"  -> "success"
      [] verdict = "warning" -> "warning"
      [] verdict = "skipped" -> "skipped"
      [] OTHER               -> "failed"

ReceiptStatus(verdict) ==
    CASE verdict = "passed"  -> "success"
      [] verdict = "warning" -> "warning"
      [] OTHER               -> "failed"

WriteReceipt(i, verdict) ==
    /\ receipt' = [receipt EXCEPT ![i] = ReceiptStatus(verdict)]
    /\ result' = [result EXCEPT ![i] =
          [outcome |-> IF verdict \in {"passed", "warning"} THEN "executed" ELSE "failed",
           by |-> i]]

Verify(i) ==
    /\ pc[i] = "verify"
    /\ \E sight \in {container, Absent} : \E verdict \in Verification(i, sight) :
          WriteReceipt(i, verdict)
    /\ Goto(i, "record")
    /\ UNCHANGED <<host, file, mine, draft, recording, pre, ok, history>>

\* record_execution_result loads the mission again; one that does not load ends the
\* command, and the result is in the receipt alone, as that of apply.
Record(i) ==
    /\ pc[i] = "record"
    /\ IF kind[i] # "apply" /\ Whole(mission[i])
       THEN /\ draft' = [draft EXCEPT ![i] = [file[mission[i]] EXCEPT !.result = result[i]]]
            /\ recording' = recording \cup {i}
            /\ fresh' = fresh \cup {i}
            /\ Goto(i, "open")
       ELSE Goto(i, "done") /\ UNCHANGED <<draft, recording, fresh>>
    /\ UNCHANGED <<host, file, mine, gate, result, raced, cut, recorded>>

-----------------------------------------------------------------------------
Step(i) ==
    /\ \/ Open(i) \/ Write(i) \/ Check(i) \/ GuardRefuses(i) \/ GateRefuses(i)
       \/ GateAllows(i) \/ Inspect(i) \/ SendRestart(i) \/ CannotStart(i) \/ Answer(i) \/ Timeout(i) \/ Verify(i)
       \/ Record(i)
    /\ UNCHANGED killed

Begin(i) ==
    /\ Prepare(i) \/ Refresh(i) \/ RefreshFails(i) \/ Apply(i)
    /\ UNCHANGED killed

Kill(i) ==
    /\ Cardinality(killed) < MaxKills
    /\ pc[i] \notin {"ready", "done"}
    /\ killed' = killed \cup {i}
    /\ cut' = IF pc[i] = "write" THEN cut \cup {mission[i]} ELSE cut
    /\ Goto(i, "done")
    /\ UNCHANGED <<host, file, mine, draft, recording, gate, result, fresh, raced, recorded>>

Next ==
    \/ \E i \in Callers : Step(i)
    \/ \E i \in Callers : Begin(i)
    \/ \E i \in Callers : Kill(i)
    \/ HostStep /\ UNCHANGED <<file, mine, pc, draft, recording, gate, result,
                               killed, history>>

\* An invocation that has begun goes on; a command's timeout ends its wait.
Fairness == \A i \in Callers : WF_vars(Step(i))

Spec == Init /\ [][Next]_vars /\ Fairness

-----------------------------------------------------------------------------
(* A mission that names an execution names a receipt that is on disk and   *)
(* says the same; one that says executed names an invocation whose restart *)
(* the daemon carried out, and a receipt of success one whose restart came *)
(* after the start it had seen.  Whoever raced, was refused or was killed. *)
RecordedRestartHappened ==
    \A m \in Missions : LET r == file[m].result IN
        /\ r.outcome \in {"executed", "failed"} => r.by # Nobody
        /\ r.by # Nobody =>
              /\ r.outcome = "executed" => receipt[r.by] \in {"warning", "success"}
              /\ r.outcome = "failed" => receipt[r.by] = "failed"
              /\ r.outcome = "refused" => receipt[r.by] = "refused" /\ request[r.by] = "none"
              /\ r.outcome = "executed" => request[r.by] = "done"
              /\ receipt[r.by] = "success" => served[r.by] > pre[r.by].started

(* What was recorded last of a mission, an execution, a failure or a       *)
(* refusal, is what the mission says, through any number of status and     *)
(* checklist refreshes, until it is prepared anew.  Two things lose it: a  *)
(* write from a stale reading, and a write, be it a status refresh, that   *)
(* is killed when it has emptied the file; while it is empty a write is on *)
(* its way or was killed.  Both are against mission.py:585-588, by which a *)
(* status or checklist refresh never erases an execution.                  *)
ResultLostOnlyByRaceOrCut ==
    \A m \in Missions \ raced :
        /\ Whole(m) => file[m].result = recorded[m]
        /\ file[m].state = "torn" =>
              m \in cut \/ \E i \in Callers : pc[i] = "write" /\ mission[i] = m

(* Every mission command ends, also if the daemon never answers.           *)
MissionCommandsEnd ==
    \A i \in Callers : pc[i] # "ready" ~> pc[i] = "done"
=============================================================================
