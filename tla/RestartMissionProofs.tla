------------------------- MODULE RestartMissionProofs --------------------------
(***************************************************************************)
(* Proofs about RestartMission, for any number of invocations, labels,     *)
(* starts and kills: what a mission says of an execution is so, and only a *)
(* write from a stale reading, or one that is killed, loses it.            *)
(*                                                                         *)
(* A result travels from the gate through a draft into the mission and     *)
(* from there into refreshed drafts, so the invariant says of every result *)
(* there is, wherever it is, that it is true of the invocation it names    *)
(* (ResultInv); what it names is settled once its receipt is on disk       *)
(* (Settled).  A mission nobody raced for has one writer at a time, so a   *)
(* fresh view of it still says what was recorded last (WriterInv).         *)
(***************************************************************************)
EXTENDS RestartMission, TLAPS

-----------------------------------------------------------------------------
(* The Docker host, for any callers, labels and starts: starts are         *)
(* numbered in order, a request that was served has a start of its own.    *)

\* The container is the youngest start; a request that was served has a start of
\* its own, and only that one has.
HostInv ==
    /\ container.found => container.started = starts
    /\ \A i \in Callers : /\ request[i] = "done" => served[i] \in 1 .. starts
                          /\ request[i] # "done" => served[i] = 0

-----------------------------------------------------------------------------
(* What a container shows.                                                  *)
Records == [found : BOOLEAN, labels : LabelSets, started : 0..MaxStarts, dated : BOOLEAN]

LEMMA AbsentRecord == Absent \in Records /\ ~Absent.found /\ Absent.started = 0 /\ ~Absent.dated
  BY LabelsAssumption, StartsAssumption DEF Absent, Records

LEMMA ShownRecord ==
    ASSUME NEW l \in LabelSets, NEW s \in 1..MaxStarts
    PROVE  /\ Shown(l, s) \in Records /\ Shown(l, s) \in Containers
           /\ Shown(l, s).found /\ Shown(l, s).started = s /\ Shown(l, s).labels = l
<1>1. Shown(l, s) \in Containers
  BY DEF Containers
<1>2. s \in 0..MaxStarts
  BY StartsAssumption
<1> QED BY <1>1, <1>2 DEF Shown, Records

LEMMA RestartedRecord ==
    ASSUME NEW l, NEW s, NEW t
    PROVE  [Shown(l, s) EXCEPT !.started = t] = Shown(l, t)
<1>1. \A f, d : [[found |-> f, labels |-> l, started |-> s, dated |-> d] EXCEPT !.started = t]
                = [found |-> f, labels |-> l, started |-> t, dated |-> d]
  OBVIOUS
<1>2. [[found |-> TRUE, labels |-> l, started |-> s, dated |-> TRUE] EXCEPT !.started = t]
      = [found |-> TRUE, labels |-> l, started |-> t, dated |-> TRUE]
  BY <1>1, Zenon
<1> QED BY <1>2, Zenon DEF Shown

LEMMA ContainerRecord ==
    ASSUME NEW c \in Containers
    PROVE  /\ c \in Records /\ c \in Sights
           /\ ~c.found => c = Absent
           /\ c.found => c = Shown(c.labels, c.started) /\ c.labels \in LabelSets
                         /\ c.started \in 1..MaxStarts
<1>1. CASE c = Absent
  BY <1>1, AbsentRecord DEF Sights
<1>2. CASE \E l \in LabelSets, s \in 1..MaxStarts : c = Shown(l, s)
  <2>1. PICK l \in LabelSets, s \in 1..MaxStarts : c = Shown(l, s)
    BY <1>2
  <2> QED BY <2>1, ShownRecord DEF Sights
<1> QED BY <1>1, <1>2 DEF Containers

-----------------------------------------------------------------------------
LEMMA HostBegins ==
    ASSUME HostInit
    PROVE  HostTypeOK /\ HostInv
<1>1. PICK l \in LabelSets : container = Shown(l, 1)
  BY DEF HostInit
<1>2. 1 \in 1..MaxStarts /\ 1 \in 0..MaxStarts /\ 0 \in 0..MaxStarts
  BY StartsAssumption
<1>3. container \in Containers /\ container.found /\ container.started = 1
  BY <1>1, <1>2, ShownRecord
<1> QED BY <1>2, <1>3 DEF HostInit, HostTypeOK, HostInv

\* What the host's steps change.
LEMMA HostStepFacts ==
    ASSUME HostTypeOK, HostInv, HostStep
    PROVE  /\ HostTypeOK' /\ HostInv'
           /\ starts' \in {starts, starts + 1}
           /\ \A i \in Callers :
                 /\ request[i] = "done" => request'[i] = "done" /\ served'[i] = served[i]
                 /\ request'[i] = "done" /\ request[i] # "done" => served'[i] = starts + 1
                 /\ request[i] = "none" <=> request'[i] = "none"
           /\ \/ container' = container
              \/ container'.found => container'.started = starts + 1
<1>0. /\ container \in Containers /\ starts \in 0..MaxStarts /\ MaxStarts \in Nat \ {0}
      /\ request \in [Callers -> {"none", "held", "done", "failed"}]
      /\ served \in [Callers -> 0..MaxStarts]
  BY StartsAssumption DEF HostTypeOK
<1>1. CASE \E i \in Callers : DaemonRestarts(i)
  <2>1. PICK i \in Callers : DaemonRestarts(i)
    BY <1>1
  <2>2. container = Shown(container.labels, container.started) /\ container.labels \in LabelSets
    BY <1>0, <2>1, ContainerRecord DEF DaemonRestarts
  <2>3. starts + 1 \in 1..MaxStarts
    BY <1>0, <2>1 DEF DaemonRestarts
  <2>4. container' = Shown(container.labels, starts + 1)
    BY <2>1, <2>2, RestartedRecord DEF DaemonRestarts
  <2>5. container' \in Containers /\ container'.found /\ container'.started = starts + 1
    BY <2>2, <2>3, <2>4, ShownRecord
  <2>6. request' = [request EXCEPT ![i] = "done"] /\ served' = [served EXCEPT ![i] = starts + 1]
        /\ starts' = starts + 1 /\ request[i] = "held"
    BY <2>1 DEF DaemonRestarts
  <2>7. HostTypeOK'
    BY <1>0, <2>3, <2>5, <2>6 DEF HostTypeOK
  <2>8. HostInv'
    BY <1>0, <2>3, <2>5, <2>6 DEF HostInv
  <2> QED BY <1>0, <2>5, <2>6, <2>7, <2>8
<1>2. CASE \E i \in Callers : DaemonRefuses(i)
  BY <1>0, <1>2 DEF DaemonRefuses, HostTypeOK, HostInv
<1>3. CASE SomeoneStarts
  <2>1. starts + 1 \in 1..MaxStarts /\ starts' = starts + 1 /\ UNCHANGED <<request, served>>
    BY <1>0, <1>3 DEF SomeoneStarts
  <2>2. container' \in Containers /\ container'.found /\ container'.started = starts + 1
    BY <1>3, <2>1, ShownRecord DEF SomeoneStarts
  <2> QED BY <1>0, <2>1, <2>2 DEF HostTypeOK, HostInv
<1>4. CASE SomeoneRemoves
  <2>1. container' = Absent /\ UNCHANGED <<starts, request, served>> /\ Absent \in Containers
    BY <1>4 DEF SomeoneRemoves, Containers
  <2> QED BY <1>0, <2>1, AbsentRecord DEF HostTypeOK, HostInv
<1> QED BY <1>1, <1>2, <1>3, <1>4 DEF HostStep

-----------------------------------------------------------------------------
(* The invocations.                                                        *)

\* Before it sent its request, or recorded without one, an invocation has neither
\* asked for a restart nor left a receipt.
Early(i) ==
    \/ pc[i] \in {"ready", "check", "gate", "inspect", "restart"}
    \/ pc[i] \in {"open", "write"} /\ i \notin recording

GateInv ==
    \A i \in Callers :
        /\ Early(i) => request[i] = "none"
        /\ Early(i) \/ pc[i] \in {"waiting", "verify"} => receipt[i] = "none"
        /\ pre[i].started <= starts
        /\ request[i] = "done" => served[i] > pre[i].started
        /\ ok[i] => request[i] = "done"
        /\ i \in recording => pc[i] \in {"open", "write", "done"}

\* A result is true of the invocation it names, which has its receipt.
VouchedBy(r, receipts, requests, serves, pres) ==
    /\ r.outcome \in {"executed", "failed"} => r.by # Nobody
    /\ r.by # Nobody =>
          /\ r.outcome = "executed" => /\ receipts[r.by] \in {"warning", "success"}
                                       /\ requests[r.by] = "done"
          /\ r.outcome = "failed" => receipts[r.by] = "failed"
          /\ r.outcome = "refused" => receipts[r.by] = "refused" /\ requests[r.by] = "none"
          /\ r.outcome # "none"
          /\ receipts[r.by] = "success" => serves[r.by] > pres[r.by].started

Vouched(r) == VouchedBy(r, receipt, request, served, pre)

\* Every result there is, in a mission, about to be written, or to be recorded.
ResultInv ==
    /\ \A m \in Missions : Vouched(file[m].result)
    /\ \A i \in Callers : Vouched(draft[i].result) /\ Vouched(result[i])

\* A refreshed view, neither a new mission nor a result.
Refreshing(i) == kind[i] # "prepare" /\ i \notin recording

\* A mission that was not raced for has one writer at a time, and a refreshed view
\* of it that is still fresh, or on its way, says what was recorded last.
WriterInv ==
    \A i \in Callers : mission[i] \notin raced =>
        /\ pc[i] = "write" => file[mission[i]].state = "torn"
        /\ pc[i] = "write" =>
              \A j \in Callers \ {i} : pc[j] = "write" => mission[j] # mission[i]
        /\ pc[i] = "write" /\ Refreshing(i) => draft[i].result = recorded[mission[i]]
        /\ pc[i] = "open" /\ Refreshing(i) /\ i \in fresh =>
              Whole(mission[i]) /\ draft[i].result = recorded[mission[i]]

\* What is about to be written is a mission.
DraftInv == \A i \in Callers : pc[i] \in {"open", "write"} => draft[i].state = "whole"

IInv == /\ TypeOK /\ HostInv /\ GateInv /\ ResultInv /\ WriterInv /\ DraftInv
        /\ ResultLostOnlyByRaceOrCut

\* A step of an invocation, and one of the host.
Moves(i)  == Step(i) \/ Begin(i) \/ Kill(i)
HostMoves == HostStep /\ UNCHANGED <<file, mine, pc, draft, recording, gate, result,
                                     killed, history>>

-----------------------------------------------------------------------------
(* Missions and results.                                                    *)
LEMMA ResultRecords ==
    /\ NoResult \in Results /\ NoResult.outcome = "none" /\ NoResult.by = Nobody
    /\ Refused \in Results /\ Refused.outcome = "refused" /\ Refused.by = Nobody
    /\ \A i \in Callers : LET r == [Refused EXCEPT !.by = i] IN
          r \in Results /\ r.outcome = "refused" /\ r.by = i
  BY DEF NoResult, Refused, Results, Outcomes, Missions

LEMMA FileRecords ==
    /\ NoFile \in Files /\ NoFile.state = "missing" /\ NoFile.result = NoResult
    /\ TornFile \in Files /\ TornFile.state = "torn" /\ TornFile.result = NoResult
    /\ \A f \in Prepared : f \in Files /\ f.state = "whole" /\ f.result = NoResult
<1>1. NoResult \in Results
  BY ResultRecords
<1>2. NoFile \in Files /\ NoFile.state = "missing" /\ NoFile.result = NoResult
  BY <1>1 DEF NoFile, Files
<1>3. TornFile \in Files /\ TornFile.state = "torn" /\ TornFile.result = NoResult
  BY <1>1 DEF TornFile, NoFile, Files
<1>4. \A f \in Prepared : f \in Files /\ f.state = "whole" /\ f.result = NoResult
  BY <1>1 DEF Prepared, Files
<1> QED BY <1>2, <1>3, <1>4

LEMMA ResultPut ==
    ASSUME NEW f \in Files, NEW r \in Results
    PROVE  LET g == [f EXCEPT !.result = r] IN g \in Files /\ g.result = r /\ g.state = f.state
  BY DEF Files

\* A refreshed view says of an execution what the mission said.
LEMMA RefreshedKeeps ==
    ASSUME NEW f \in Files, Vouched(f.result), NEW g \in Refreshed(f)
    PROVE  g \in Files /\ g.result = f.result /\ g.state = "whole"
<1>1. f.result \in Results
  BY DEF Files
<1>2. CASE Terminal(f)
  <2>1. PICK h \in Prepared : g = [h EXCEPT !.result = f.result]
    BY <1>2 DEF Refreshed
  <2> QED BY <1>1, <2>1, FileRecords, ResultPut
<1>3. CASE ~Terminal(f)
  <2>1. g \in Prepared /\ g \in Files /\ g.result = NoResult /\ g.state = "whole"
    BY <1>3, FileRecords DEF Refreshed
  <2>2. f.result.outcome = "none" /\ f.result.by = Nobody
    BY <1>1, <1>3 DEF Terminal, Vouched, VouchedBy, Results, Outcomes
  <2>3. f.result = NoResult
    BY <1>1, <2>2 DEF NoResult, Results
  <2> QED BY <2>1, <2>3
<1> QED BY <1>2, <1>3

-----------------------------------------------------------------------------
LEMMA TypeParts ==
    ASSUME TypeOK
    PROVE  /\ container \in Containers /\ starts \in 0..MaxStarts /\ starts \in Nat
           /\ request \in [Callers -> {"none", "held", "done", "failed"}]
           /\ served \in [Callers -> 0..MaxStarts]
           /\ file \in [Missions -> Files]
           /\ kind \in [Callers -> {"none", "prepare", "status", "execute", "unconfirmed", "apply"}]
           /\ mission \in [Callers -> Missions]
           /\ pc \in [Callers -> {"ready", "open", "write", "check", "gate", "inspect", "restart",
                                  "waiting", "verify", "record", "done"}]
           /\ draft \in [Callers -> Files]
           /\ recording \subseteq Callers /\ killed \subseteq Callers /\ fresh \subseteq Callers
           /\ pre \in [Callers -> Containers]
           /\ ok \in [Callers -> BOOLEAN]
           /\ receipt \in [Callers -> {"none", "refused", "failed", "warning", "success"}]
           /\ result \in [Callers -> Results]
           /\ raced \subseteq Missions /\ cut \subseteq Missions
           /\ recorded \in [Missions -> Results]
  BY StartsAssumption DEF TypeOK, HostTypeOK

LEMMA InitIInv == Init => IInv
<1> SUFFICES ASSUME Init PROVE IInv
  OBVIOUS
<1>1. HostTypeOK /\ HostInv
  BY HostBegins DEF Init
<1>2. PICK f \in {NoFile} \cup Prepared :
          file = [m \in Missions |-> IF m = Nobody THEN f ELSE NoFile]
  BY DEF Init
<1>3. \A m \in Missions : file[m] \in Files /\ file[m].result = NoResult
  BY <1>2, FileRecords
<1>4. Absent \in Containers /\ Absent.started = 0
  BY AbsentRecord DEF Containers
<1>5. file \in [Missions -> Files]
  BY <1>2, FileRecords
<1>6. TypeOK
  <2>1. draft \in [Callers -> Files] /\ result \in [Callers -> Results]
        /\ recorded \in [Missions -> Results] /\ pre \in [Callers -> Containers]
        /\ mission \in [Callers -> Missions]
    BY <1>4, FileRecords, ResultRecords DEF Init, Missions
  <2> QED BY <1>1, <1>5, <2>1 DEF Init, TypeOK
<1>7. GateInv
  <2> SUFFICES ASSUME NEW i \in Callers
               PROVE  /\ request[i] = "none" /\ receipt[i] = "none" /\ ~ok[i]
                      /\ pre[i].started <= starts /\ i \notin recording
    BY DEF GateInv
  <2> QED BY <1>4 DEF Init, HostInit
<1>8. Vouched(NoResult)
  BY ResultRecords DEF Vouched, VouchedBy
<1>9. ResultInv
  BY <1>3, <1>8, FileRecords DEF Init, ResultInv
<1>10. WriterInv /\ DraftInv
  BY DEF Init, WriterInv, DraftInv
<1>11. ResultLostOnlyByRaceOrCut
  <2>1. \A m \in Missions : file[m].state # "torn"
    BY <1>2, FileRecords
  <2> QED BY <1>3, <2>1 DEF Init, ResultLostOnlyByRaceOrCut
<1> QED BY <1>1, <1>6, <1>7, <1>9, <1>10, <1>11 DEF IInv

-----------------------------------------------------------------------------
(* Types.                                                                   *)
LEMMA VerifyOutcome ==
    ASSUME NEW i \in Callers, NEW verdict \in {"passed", "warning", "failed", "skipped"}
    PROVE  /\ ReceiptStatus(verdict) \in {"success", "warning", "failed"}
           /\ ReceiptStatus(verdict) = "success" <=> verdict = "passed"
           /\ ReceiptStatus(verdict) = "warning" <=> verdict = "warning"
  BY DEF ReceiptStatus

LEMMA Verdicts ==
    ASSUME NEW i \in Callers, NEW sight, NEW verdict \in Verification(i, sight)
    PROVE  /\ verdict \in {"passed", "warning", "failed", "skipped"}
           /\ verdict \in {"passed", "warning"} => ok[i]
  BY DEF Verification

\* Begin: a command takes a mission and what it is to write into it.
LEMMA BeginType ==
    ASSUME IInv, NEW i \in Callers, Begin(i)
    PROVE  TypeOK'
<1>0. TypeOK /\ ResultInv
  BY DEF IInv
<1>1. UNCHANGED <<host, file, recording, gate, raced, cut, recorded, killed>>
  BY DEF Begin, Prepare, Refresh, RefreshFails, Apply, Refuse, history
<1>2. kind' \in [Callers -> {"none", "prepare", "status", "execute", "unconfirmed", "apply"}]
  BY <1>0, TypeParts DEF Begin, Prepare, Refresh, RefreshFails, Apply, Become
<1>3. mission' \in [Callers -> Missions]
  BY <1>0, TypeParts DEF Begin, Prepare, Refresh, RefreshFails, Apply, Become, FoundOrNew, Missions
<1>4. pc' \in [Callers -> {"ready", "open", "write", "check", "gate", "inspect", "restart",
                           "waiting", "verify", "record", "done"}]
  BY <1>0, TypeParts DEF Begin, Prepare, Refresh, RefreshFails, Apply, Refuse, Goto
<1>5. draft' \in [Callers -> Files]
  <2>1. CASE Prepare(i)
    BY <1>0, <2>1, TypeParts, FileRecords DEF Prepare
  <2>2. CASE Refresh(i)
    <3>1. PICK m \in Missions :
              \E f \in Refreshed(file[m]) : draft' = [draft EXCEPT ![i] = f]
      BY <2>2 DEF Refresh
    <3>2. PICK f \in Refreshed(file[m]) : draft' = [draft EXCEPT ![i] = f]
      BY <3>1
    <3>3. file[m] \in Files /\ Vouched(file[m].result)
      BY <1>0, TypeParts DEF ResultInv
    <3>4. f \in Files
      BY <3>2, <3>3, RefreshedKeeps
    <3> QED BY <1>0, <3>2, <3>4, TypeParts
  <2>3. CASE RefreshFails(i) \/ Apply(i)
    BY <1>0, <2>3, TypeParts DEF RefreshFails, Apply
  <2> QED BY <2>1, <2>2, <2>3 DEF Begin
<1>6. result' \in [Callers -> Results]
  BY <1>0, TypeParts, ResultRecords DEF Begin, Prepare, Refresh, RefreshFails, Apply, Refuse
<1>7. fresh' \subseteq Callers
  BY <1>0, TypeParts DEF Begin, Prepare, Refresh, RefreshFails, Apply, history
<1> QED
  BY <1>0, <1>1, <1>2, <1>3, <1>4, <1>5, <1>6, <1>7 DEF TypeOK, HostTypeOK, host, gate

LEMMA StepType ==
    ASSUME IInv, NEW i \in Callers, Step(i)
    PROVE  TypeOK'
<1> DEFINE PCs == {"ready", "open", "write", "check", "gate", "inspect", "restart",
                   "waiting", "verify", "record", "done"}
<1>0. TypeOK
  BY DEF IInv
<1>1. UNCHANGED <<container, starts, served, kind, mission, killed>>
  BY DEF Step, Open, Write, Check, GuardRefuses, GateRefuses, GateAllows, Inspect, SendRestart,
         AskRestart, CannotStart, Answer, Timeout, Restarted, Verify, Record, host, mine
<1>2. request' \in [Callers -> {"none", "held", "done", "failed"}]
  BY <1>0, TypeParts DEF Step, Open, Write, Check, GuardRefuses, GateRefuses, GateAllows, Inspect,
         SendRestart, AskRestart, CannotStart, Answer, Timeout, Restarted, Verify, Record, host
<1>3. pc' \in [Callers -> PCs]
  BY <1>0, TypeParts DEF Step, Open, Write, Check, GuardRefuses, GateRefuses, GateAllows, Inspect,
         SendRestart, CannotStart, Answer, Timeout, Restarted, Verify, Record, Refuse, Goto
<1>4. pre' \in [Callers -> Containers] /\ ok' \in [Callers -> BOOLEAN]
  <2>1. Absent \in Containers
    BY DEF Containers
  <2>2. CASE Inspect(i)
    BY <1>0, <2>1, <2>2, TypeParts DEF Inspect
  <2>3. CASE \E b \in BOOLEAN : Restarted(i, b)
    BY <1>0, <2>3, TypeParts DEF Restarted
  <2>4. CASE UNCHANGED <<pre, ok>>
    BY <1>0, <2>4, TypeParts
  <2> QED BY <2>2, <2>3, <2>4 DEF Step, Open, Write, Check, GuardRefuses, GateRefuses, GateAllows,
         SendRestart, CannotStart, Answer, Timeout, Verify, Record, gate
<1>5. receipt' \in [Callers -> {"none", "refused", "failed", "warning", "success"}]
      /\ result' \in [Callers -> Results]
  <2>1. CASE Verify(i)
    <3>0. PICK sight \in {container, Absent} :
              \E verdict \in Verification(i, sight) : WriteReceipt(i, verdict)
      BY <2>1 DEF Verify
    <3>1. PICK verdict \in Verification(i, sight) : WriteReceipt(i, verdict)
      BY <3>0
    <3>2. ReceiptStatus(verdict) \in {"success", "warning", "failed"}
      BY <3>1, Verdicts, VerifyOutcome
    <3>3. [outcome |-> IF verdict \in {"passed", "warning"} THEN "executed" ELSE "failed",
           by |-> i] \in Results
      BY DEF Results, Outcomes, Missions
    <3> QED BY <1>0, <3>1, <3>2, <3>3, TypeParts DEF WriteReceipt
  <2>2. CASE GateRefuses(i)
    BY <1>0, <2>2, TypeParts, ResultRecords DEF GateRefuses
  <2>3. CASE Check(i) \/ GuardRefuses(i)
    BY <1>0, <2>3, TypeParts, ResultRecords DEF Check, GuardRefuses, Refuse, gate
  <2>4. CASE UNCHANGED <<receipt, result>>
    BY <1>0, <2>4, TypeParts
  <2> QED BY <2>1, <2>2, <2>3, <2>4 DEF Step, Open, Write, GateAllows, Inspect, SendRestart,
         CannotStart, Answer, Timeout, Restarted, Record, gate
<1>6. /\ file' \in [Missions -> Files] /\ recorded' \in [Missions -> Results]
      /\ draft' \in [Callers -> Files] /\ recording' \subseteq Callers
      /\ fresh' \subseteq Callers /\ raced' \subseteq Missions /\ cut' \subseteq Missions
  <2>0. mission[i] \in Missions /\ draft[i] \in Files /\ draft[i].result \in Results
    BY <1>0, TypeParts DEF Files
  <2>1. CASE Open(i)
    BY <1>0, <2>0, <2>1, TypeParts, FileRecords DEF Open
  <2>2. CASE Write(i)
    BY <1>0, <2>0, <2>2, TypeParts DEF Write
  <2>3. CASE Record(i)
    <3>1. [file[mission[i]] EXCEPT !.result = result[i]] \in Files
      BY <1>0, <2>0, TypeParts, ResultPut
    <3> QED BY <1>0, <2>3, <3>1, TypeParts DEF Record
  <2>4. CASE UNCHANGED <<file, draft, recording, fresh, raced, cut, recorded>>
    BY <1>0, <2>4, TypeParts
  <2> QED BY <2>1, <2>2, <2>3, <2>4 DEF Step, Check, GuardRefuses, GateRefuses, GateAllows,
         Inspect, SendRestart, CannotStart, Answer, Timeout, Restarted, Verify, history
<1> QED BY <1>0, <1>1, <1>2, <1>3, <1>4, <1>5, <1>6 DEF TypeOK, HostTypeOK

LEMMA MoveType ==
    ASSUME IInv, NEW i \in Callers, Moves(i)
    PROVE  TypeOK'
<1>1. CASE Kill(i)
  <2>1. TypeOK
    BY DEF IInv
  <2> QED BY <1>1, <2>1, TypeParts DEF Kill, Goto, TypeOK, HostTypeOK, host, mine, gate, history
<1> QED BY <1>1, StepType, BeginType DEF Moves

-----------------------------------------------------------------------------
(* The gate.                                                                *)
\* What an invocation with a receipt has done stays as it is.
Settled ==
    \A j \in Callers :
        /\ request[j] = "done" => request'[j] = "done" /\ served'[j] = served[j]
        /\ receipt[j] # "none" =>
              /\ receipt'[j] = receipt[j] /\ pre'[j] = pre[j]
              /\ request[j] = "none" => request'[j] = "none"

\* Only i's own state changes.
Own(i) == \A j \in Callers \ {i} :
    /\ pc'[j] = pc[j] /\ request'[j] = request[j] /\ receipt'[j] = receipt[j]
    /\ pre'[j] = pre[j] /\ ok'[j] = ok[j] /\ kind'[j] = kind[j] /\ mission'[j] = mission[j]
    /\ draft'[j] = draft[j] /\ result'[j] = result[j]
    /\ (j \in recording') <=> (j \in recording)

LEMMA OwnSteps ==
    ASSUME TypeOK, NEW i \in Callers, Moves(i)
    PROVE  Own(i) /\ UNCHANGED <<container, starts, served>>
<1>0. /\ kind = [j \in Callers |-> kind[j]] /\ mission = [j \in Callers |-> mission[j]]
      /\ pc = [j \in Callers |-> pc[j]] /\ draft = [j \in Callers |-> draft[j]]
      /\ pre = [j \in Callers |-> pre[j]] /\ ok = [j \in Callers |-> ok[j]]
      /\ receipt = [j \in Callers |-> receipt[j]] /\ result = [j \in Callers |-> result[j]]
      /\ request = [j \in Callers |-> request[j]]
  BY DEF TypeOK, HostTypeOK
<1>1. CASE Begin(i)
  BY <1>0, <1>1 DEF Begin, Prepare, Refresh, RefreshFails, Apply, Become, Refuse, Goto, Own,
         host, gate
<1>2. CASE Kill(i)
  BY <1>0, <1>2 DEF Kill, Goto, Own, host, mine, gate
<1>3. CASE Open(i) \/ Write(i) \/ Check(i) \/ GuardRefuses(i) \/ GateRefuses(i) \/ GateAllows(i)
  BY <1>0, <1>3 DEF Open, Write, Check, GuardRefuses, GateRefuses, GateAllows, Refuse, Goto, Own,
         host, mine, gate
<1>4. CASE Inspect(i) \/ SendRestart(i) \/ (\E b \in BOOLEAN : Restarted(i, b))
  BY <1>0, <1>4 DEF Inspect, SendRestart, AskRestart, Restarted, Goto, Own, host, mine, gate
<1>5. CASE Verify(i) \/ Record(i)
  BY <1>0, <1>5 DEF Verify, WriteReceipt, Record, Goto, Own, host, mine, gate
<1> QED BY <1>1, <1>2, <1>3, <1>4, <1>5 DEF Moves, Step, CannotStart, Answer, Timeout

\* What i's own step does to its request, its receipt and what it saw.
GateStep(i) ==
    /\ Early(i)' => request'[i] = "none"
    /\ Early(i)' \/ pc'[i] \in {"waiting", "verify"} => receipt'[i] = "none"
    /\ pre'[i].started <= starts
    /\ request'[i] = "done" => request[i] = "done" /\ pre'[i] = pre[i]
    /\ request[i] = "done" => request'[i] = "done"
    /\ receipt[i] # "none" => /\ receipt'[i] = receipt[i] /\ pre'[i] = pre[i]
                              /\ request[i] = "none" => request'[i] = "none"
    /\ ok'[i] => request'[i] = "done"
    /\ i \in recording' => pc'[i] \in {"open", "write", "done"}

LEMMA ContainerSeen ==
    ASSUME TypeOK, HostInv, NEW sight \in {container, Absent}
    PROVE  sight.started <= starts
<1>1. container \in Containers /\ starts \in Nat
  BY TypeParts
<1>2. container.found => container.started = starts
  BY DEF HostInv
<1>3. Absent.started = 0
  BY AbsentRecord
<1>4. ~container.found => container = Absent
  BY <1>1, ContainerRecord
<1> QED BY <1>1, <1>2, <1>3, <1>4

LEMMA MoveGate ==
    ASSUME IInv, NEW i \in Callers, Moves(i)
    PROVE  GateStep(i)
<1>0. TypeOK /\ GateInv /\ HostInv
  BY DEF IInv
<1>1. /\ Early(i) => request[i] = "none"
      /\ Early(i) \/ pc[i] \in {"waiting", "verify"} => receipt[i] = "none"
      /\ pre[i].started <= starts
      /\ ok[i] => request[i] = "done"
      /\ i \in recording => pc[i] \in {"open", "write", "done"}
  BY <1>0 DEF GateInv
<1>2. CASE Begin(i)
  <2>1. pc[i] = "ready" /\ pc'[i] \in {"open", "gate", "record"}
        /\ UNCHANGED <<request, receipt, pre, ok, recording, starts>>
    BY <1>0, <1>2, TypeParts DEF Begin, Prepare, Refresh, RefreshFails, Apply, Become, Refuse, Goto,
           host, gate
  <2> QED BY <1>1, <2>1 DEF GateStep, Early
<1>3. CASE Kill(i)
  <2>1. pc'[i] = "done" /\ UNCHANGED <<request, receipt, pre, ok, recording, starts>>
    BY <1>0, <1>3, TypeParts DEF Kill, Goto, host, gate
  <2> QED BY <1>1, <2>1 DEF GateStep, Early
<1>4. CASE Open(i) \/ Write(i)
  <2>1. /\ UNCHANGED <<request, receipt, pre, ok, recording, starts>>
        /\ \/ pc[i] = "open" /\ pc'[i] = "write"
           \/ pc[i] = "write" /\ pc'[i] = "done"
           \/ pc[i] = "write" /\ i \notin recording /\ pc'[i] = "check"
    BY <1>0, <1>4, TypeParts DEF Open, Write, Goto, host, gate
  <2> QED BY <1>1, <2>1 DEF GateStep, Early
<1>5. CASE Check(i) \/ GuardRefuses(i) \/ GateAllows(i)
  <2>1. /\ UNCHANGED <<request, receipt, pre, ok, recording, starts>>
        /\ pc[i] \in {"check", "gate"} /\ pc'[i] \in {"gate", "inspect", "record"}
    BY <1>0, <1>5, TypeParts DEF Check, GuardRefuses, GateAllows, Refuse, Goto, host, gate
  <2> QED BY <1>1, <2>1 DEF GateStep, Early
<1>6. CASE GateRefuses(i)
  <2>1. /\ UNCHANGED <<request, pre, ok, recording, starts>>
        /\ pc[i] = "gate" /\ pc'[i] = "record"
    BY <1>0, <1>6, TypeParts DEF GateRefuses, Goto, host
  <2> QED BY <1>1, <2>1 DEF GateStep, Early
<1>7. CASE Inspect(i)
  <2>1. /\ UNCHANGED <<request, receipt, ok, recording, starts>>
        /\ pc[i] = "inspect" /\ pc'[i] = "restart" /\ pre'[i] \in {container, Absent}
    BY <1>0, <1>7, TypeParts DEF Inspect, Goto, host
  <2>2. pre'[i].started <= starts
    BY <1>0, <2>1, ContainerSeen
  <2> QED BY <1>1, <2>1, <2>2 DEF GateStep, Early
<1>8. CASE SendRestart(i)
  <2>1. /\ UNCHANGED <<receipt, pre, ok, recording, starts>>
        /\ pc[i] = "restart" /\ pc'[i] = "waiting" /\ request'[i] = "held"
    BY <1>0, <1>8, TypeParts DEF SendRestart, AskRestart, Goto, gate
  <2> QED BY <1>1, <2>1 DEF GateStep, Early
<1>9. CASE CannotStart(i) \/ Answer(i) \/ Timeout(i)
  <2>1. /\ UNCHANGED <<request, receipt, pre, recording, starts>>
        /\ pc[i] \in {"restart", "waiting"} /\ pc'[i] = "verify"
        /\ ok'[i] => request[i] = "done"
    BY <1>0, <1>9, TypeParts DEF CannotStart, Answer, Timeout, Restarted, Goto, host
  <2> QED BY <1>1, <2>1 DEF GateStep, Early
<1>10. CASE Verify(i)
  <2>1. /\ UNCHANGED <<request, pre, ok, recording, starts>>
        /\ pc[i] = "verify" /\ pc'[i] = "record"
    BY <1>0, <1>10, TypeParts DEF Verify, Goto, host
  <2> QED BY <1>1, <2>1 DEF GateStep, Early
<1>11. CASE Record(i)
  <2>1. /\ UNCHANGED <<request, receipt, pre, ok, starts>>
        /\ pc[i] = "record"
        /\ \/ pc'[i] = "open" /\ i \in recording'
           \/ pc'[i] = "done"
    BY <1>0, <1>11, TypeParts DEF Record, Goto, host, gate
  <2> QED BY <1>1, <2>1 DEF GateStep, Early
<1> QED
  BY <1>2, <1>3, <1>4, <1>5, <1>6, <1>7, <1>8, <1>9, <1>10, <1>11 DEF Moves, Step

LEMMA MoveGateInv ==
    ASSUME IInv, NEW i \in Callers, Moves(i)
    PROVE  HostInv' /\ GateInv' /\ Settled
<1>0. TypeOK /\ GateInv /\ HostInv
  BY DEF IInv
<1>1. GateStep(i)
  BY MoveGate
<1>2. Own(i) /\ UNCHANGED <<container, starts, served>>
  BY <1>0, OwnSteps
<1>3. HostInv'
  <2> SUFFICES ASSUME NEW j \in Callers
               PROVE  request'[j] = "done" <=> request[j] = "done"
    BY <1>0, <1>2 DEF HostInv
  <2> QED BY <1>1, <1>2 DEF GateStep, Own
<1>4. GateInv'
  <2> SUFFICES ASSUME NEW j \in Callers
               PROVE  /\ Early(j)' => request'[j] = "none"
                      /\ Early(j)' \/ pc'[j] \in {"waiting", "verify"} => receipt'[j] = "none"
                      /\ pre'[j].started <= starts'
                      /\ request'[j] = "done" => served'[j] > pre'[j].started
                      /\ ok'[j] => request'[j] = "done"
                      /\ j \in recording' => pc'[j] \in {"open", "write", "done"}
    BY DEF GateInv
  <2>1. CASE j = i
    BY <1>0, <1>1, <1>2, <2>1 DEF GateInv, GateStep
  <2>2. CASE j # i
    BY <1>0, <1>2, <2>2 DEF GateInv, Own, Early
  <2> QED BY <2>1, <2>2
<1>5. Settled
  BY <1>1, <1>2 DEF Settled, GateStep, Own
<1> QED BY <1>3, <1>4, <1>5

-----------------------------------------------------------------------------
(* Results.                                                                 *)
\* A result is true after the step.
Upheld(r) == VouchedBy(r, receipt', request', served', pre')

LEMMA VouchedStays ==
    ASSUME Settled, NEW r \in Results, Vouched(r)
    PROVE  Upheld(r)
<1>1. CASE r.by = Nobody
  BY <1>1 DEF Upheld, Vouched, VouchedBy
<1>2. CASE r.by \in Callers
  <2>1. r.outcome \in {"executed", "failed", "refused"} /\ r.by # Nobody
    BY <1>2, NobodyAssumption DEF Vouched, VouchedBy, Results, Outcomes
  <2>2. receipt[r.by] # "none"
    BY <2>1 DEF Vouched, VouchedBy
  <2>3. receipt'[r.by] = receipt[r.by] /\ pre'[r.by] = pre[r.by]
    BY <1>2, <2>2 DEF Settled
  <2>4. receipt[r.by] = "success" => request[r.by] = "done"
    BY <2>1 DEF Vouched, VouchedBy
  <2> QED BY <1>2, <2>1, <2>2, <2>3, <2>4 DEF Upheld, Vouched, VouchedBy, Settled
<1> QED BY <1>1, <1>2 DEF Results, Missions

LEMMA NobodyVouches ==
    /\ Vouched(NoResult) /\ Vouched(Refused)
    /\ Upheld(NoResult) /\ Upheld(Refused)
  BY ResultRecords DEF Upheld, Vouched, VouchedBy

\* The gate's refusal and a verification make results that are true.
LEMMA MadeResult ==
    ASSUME IInv, NEW i \in Callers, GateRefuses(i) \/ Verify(i)
    PROVE  Upheld(result'[i])
<1>0. TypeOK /\ GateInv
  BY DEF IInv
<1>1. CASE GateRefuses(i)
  <2>1. receipt'[i] = "refused" /\ UNCHANGED request /\ pc[i] = "gate"
        /\ result'[i] = [Refused EXCEPT !.by = i]
    BY <1>0, <1>1, TypeParts DEF GateRefuses, host
  <2>2. request'[i] = "none"
    BY <1>0, <2>1 DEF GateInv, Early
  <2>3. result'[i].outcome = "refused" /\ result'[i].by = i
    BY <2>1, ResultRecords
  <2> QED BY <2>1, <2>2, <2>3 DEF Upheld, VouchedBy
<1>2. CASE Verify(i)
  <2>1. PICK sight \in {container, Absent} :
            \E verdict \in Verification(i, sight) : WriteReceipt(i, verdict)
    BY <1>2 DEF Verify
  <2>2. PICK verdict \in Verification(i, sight) : WriteReceipt(i, verdict)
    BY <2>1
  <2>3. UNCHANGED <<request, served, pre>>
    BY <1>2 DEF Verify, host
  <2>4. verdict \in {"passed", "warning", "failed", "skipped"}
        /\ (verdict \in {"passed", "warning"} => ok[i])
    BY <2>2, Verdicts
  <2>5. receipt'[i] = ReceiptStatus(verdict)
        /\ result'[i].outcome = (IF verdict \in {"passed", "warning"} THEN "executed" ELSE "failed")
        /\ result'[i].by = i
    BY <1>0, <2>2, TypeParts DEF WriteReceipt
  <2>6. /\ receipt'[i] \in {"success", "warning", "failed"}
        /\ receipt'[i] = "success" <=> verdict = "passed"
        /\ receipt'[i] = "warning" <=> verdict = "warning"
    BY <2>4, <2>5, VerifyOutcome
  <2>7. ok[i] => request'[i] = "done" /\ served'[i] > pre'[i].started
    BY <1>0, <2>3 DEF GateInv
  <2>8. i # Nobody
    BY NobodyAssumption
  <2> QED BY <2>4, <2>5, <2>6, <2>7, <2>8 DEF Upheld, VouchedBy
<1> QED BY <1>1, <1>2

LEMMA MoveResult ==
    ASSUME IInv, NEW i \in Callers, Moves(i)
    PROVE  ResultInv'
<1>0. TypeOK /\ ResultInv /\ Settled /\ Own(i)
  BY MoveGateInv, OwnSteps DEF IInv
<1>1. \A m \in Missions : /\ file[m] \in Files /\ Vouched(file[m].result)
                         /\ Upheld(file[m].result)
  <2> TAKE m \in Missions
  <2>1. file[m] \in Files /\ file[m].result \in Results /\ Vouched(file[m].result)
    BY <1>0, TypeParts DEF ResultInv, Files
  <2> QED BY <1>0, <2>1, VouchedStays
<1>2. \A j \in Callers : Upheld(draft[j].result) /\ Upheld(result[j])
  <2> TAKE j \in Callers
  <2>1. draft[j].result \in Results /\ result[j] \in Results
        /\ Vouched(draft[j].result) /\ Vouched(result[j])
    BY <1>0, TypeParts DEF ResultInv, Files
  <2> QED BY <1>0, <2>1, VouchedStays
<1>3. \A m \in Missions : Upheld(file'[m].result)
  <2>1. CASE Open(i)
    <3>1. mission[i] \in Missions /\ file' = [file EXCEPT ![mission[i]] = TornFile]
      BY <1>0, <2>1, TypeParts DEF Open
    <3> QED BY <1>0, <1>1, <3>1, TypeParts, FileRecords, NobodyVouches
  <2>2. CASE Write(i)
    <3>1. mission[i] \in Missions /\ file' = [file EXCEPT ![mission[i]] = draft[i]]
      BY <1>0, <2>2, TypeParts DEF Write
    <3> QED BY <1>0, <1>1, <1>2, <3>1, TypeParts
  <2>3. CASE UNCHANGED file
    BY <1>1, <2>3
  <2> QED BY <2>1, <2>2, <2>3 DEF Moves, Begin, Prepare, Refresh, RefreshFails, Apply, Kill, Step,
         Check, GuardRefuses, GateRefuses, GateAllows, Inspect, SendRestart, CannotStart, Answer,
         Timeout, Restarted, Verify, Record
<1>4. Upheld(draft'[i].result)
  <2>1. CASE Prepare(i)
    <3>1. PICK f \in Prepared : draft' = [draft EXCEPT ![i] = f]
      BY <2>1 DEF Prepare
    <3>2. draft'[i].result = NoResult
      BY <1>0, <3>1, TypeParts, FileRecords
    <3> QED BY <3>2, NobodyVouches
  <2>2. CASE Refresh(i)
    <3>1. PICK m \in Missions :
              \E f \in Refreshed(file[m]) : draft' = [draft EXCEPT ![i] = f]
      BY <2>2 DEF Refresh
    <3>2. PICK f \in Refreshed(file[m]) : draft' = [draft EXCEPT ![i] = f]
      BY <3>1
    <3>3. f.result = file[m].result
      BY <1>1, <3>2, RefreshedKeeps
    <3>4. draft'[i] = f
      BY <1>0, <3>2, TypeParts
    <3> QED BY <1>1, <3>3, <3>4
  <2>3. CASE Record(i)
    <3>1. CASE UNCHANGED draft
      BY <1>2, <3>1
    <3>2. CASE draft' = [draft EXCEPT ![i] = [file[mission[i]] EXCEPT !.result = result[i]]]
      <4>1. file[mission[i]] \in Files /\ result[i] \in Results
        BY <1>0, <1>1, TypeParts
      <4>2. [file[mission[i]] EXCEPT !.result = result[i]].result = result[i]
        BY <4>1, ResultPut
      <4>3. draft'[i].result = result[i]
        BY <1>0, <3>2, <4>2, TypeParts
      <4> QED BY <1>2, <4>3
    <3> QED BY <2>3, <3>1, <3>2 DEF Record
  <2>4. CASE UNCHANGED draft
    BY <1>2, <2>4
  <2> QED BY <2>1, <2>2, <2>3, <2>4 DEF Moves, Begin, RefreshFails, Apply, Kill, Step, Open, Write,
         Check, GuardRefuses, GateRefuses, GateAllows, Inspect, SendRestart, CannotStart, Answer,
         Timeout, Restarted, Verify
<1>5. Upheld(result'[i])
  <2>1. CASE GateRefuses(i) \/ Verify(i)
    BY <2>1, MadeResult
  <2>2. CASE Refuse(i)
    <3>1. result'[i] = Refused
      BY <1>0, <2>2, TypeParts DEF Refuse
    <3> QED BY <3>1, NobodyVouches
  <2>3. CASE UNCHANGED result
    BY <1>2, <2>3
  <2> QED BY <2>1, <2>2, <2>3 DEF Moves, Begin, Prepare, Refresh, RefreshFails, Apply, Kill, Step,
         Open, Write, Check, GuardRefuses, GateAllows, Inspect, SendRestart, CannotStart, Answer,
         Timeout, Restarted, Record
<1>6. \A j \in Callers : Upheld(draft'[j].result) /\ Upheld(result'[j])
  <2> TAKE j \in Callers
  <2>1. CASE j # i
    <3>1. draft'[j] = draft[j] /\ result'[j] = result[j]
      BY <1>0, <2>1 DEF Own
    <3> QED BY <1>2, <3>1
  <2> QED BY <1>4, <1>5, <2>1
<1> QED BY <1>3, <1>6 DEF ResultInv, Vouched, Upheld

-----------------------------------------------------------------------------
(* Writers.                                                                 *)
\* What the invariant says of one invocation.
WriterOf(i) == mission[i] \notin raced =>
    /\ pc[i] = "write" => file[mission[i]].state = "torn"
    /\ pc[i] = "write" =>
          \A j \in Callers \ {i} : pc[j] = "write" => mission[j] # mission[i]
    /\ pc[i] = "write" /\ Refreshing(i) => draft[i].result = recorded[mission[i]]
    /\ pc[i] = "open" /\ Refreshing(i) /\ i \in fresh =>
          Whole(mission[i]) /\ draft[i].result = recorded[mission[i]]

LEMMA WriterOfAll == WriterInv <=> \A i \in Callers : WriterOf(i)
  BY DEF WriterInv, WriterOf

LEMMA OpenKeepsWriters ==
    ASSUME IInv, NEW i \in Callers, Open(i)
    PROVE  WriterInv' /\ DraftInv' /\ ResultLostOnlyByRaceOrCut'
<1> DEFINE m == mission[i]
<1>0. TypeOK /\ (\A j \in Callers : WriterOf(j)) /\ DraftInv /\ ResultLostOnlyByRaceOrCut
  BY WriterOfAll DEF IInv
<1>1. /\ m \in Missions /\ pc[i] = "open" /\ pc' = [pc EXCEPT ![i] = "write"]
      /\ file' = [file EXCEPT ![m] = TornFile]
      /\ fresh' = fresh \ {j \in Callers : j # i /\ mission[j] = m}
      /\ raced' = IF file[m].state = "torn" \/ (kind[i] # "prepare" /\ i \notin fresh)
                  THEN raced \cup {m} ELSE raced
      /\ UNCHANGED <<kind, mission, draft, recording, cut, recorded>>
  BY <1>0, TypeParts DEF Open, Goto, mine
<1>2. file'[m].state = "torn" /\ \A n \in Missions \ {m} : file'[n] = file[n]
  BY <1>0, <1>1, TypeParts, FileRecords
<1>3. raced \subseteq raced'
  BY <1>1
<1>4. m \notin raced' => file[m].state # "torn" /\ (kind[i] = "prepare" \/ i \in fresh)
  BY <1>1
<1>5. ASSUME NEW j \in Callers PROVE WriterOf(j)'
  <2>0. mission[j] \in Missions /\ mission'[j] = mission[j] /\ (Refreshing(j)' <=> Refreshing(j))
    BY <1>0, <1>1, TypeParts DEF Refreshing
  <2>1. CASE j = i
    <3>1. ASSUME m \notin raced', NEW k \in Callers \ {i}, pc[k] = "write" PROVE mission[k] # m
      BY <1>0, <1>3, <1>4, <3>1 DEF WriterOf
    <3>2. pc'[i] = "write" /\ \A k \in Callers \ {i} : pc'[k] = pc[k]
      BY <1>0, <1>1, TypeParts
    <3>3. m \notin raced' /\ Refreshing(i) => draft[i].result = recorded[m]
      BY <1>0, <1>1, <1>3, <1>4 DEF WriterOf, Refreshing
    <3> QED BY <1>1, <1>2, <2>0, <2>1, <3>1, <3>2, <3>3 DEF WriterOf
  <2>2. CASE j # i /\ mission[j] = m
    <3>1. m \notin raced' => pc[j] # "write" /\ j \notin fresh'
      BY <1>0, <1>1, <1>3, <1>4, <2>2 DEF WriterOf
    <3>2. pc'[j] = pc[j]
      BY <1>0, <1>1, <2>2, TypeParts
    <3> QED BY <2>0, <2>2, <3>1, <3>2 DEF WriterOf
  <2>3. CASE j # i /\ mission[j] # m
    <3>1. pc'[j] = pc[j] /\ file'[mission[j]] = file[mission[j]]
          /\ draft'[j] = draft[j] /\ recorded' = recorded /\ (j \in fresh' => j \in fresh)
      BY <1>0, <1>1, <1>2, <2>0, <2>3, TypeParts
    <3>2. \A k \in Callers : pc'[k] = "write" => pc[k] = "write" \/ k = i
      BY <1>0, <1>1, TypeParts
    <3> QED BY <1>0, <1>1, <1>3, <2>0, <2>3, <3>1, <3>2 DEF WriterOf, Whole
  <2> QED BY <2>1, <2>2, <2>3
<1>6. ResultLostOnlyByRaceOrCut'
  <2> SUFFICES ASSUME NEW n \in Missions, n \notin raced'
               PROVE  /\ Whole(n)' => file'[n].result = recorded'[n]
                      /\ file'[n].state = "torn" =>
                            n \in cut' \/ \E k \in Callers : pc'[k] = "write" /\ mission'[k] = n
    BY DEF ResultLostOnlyByRaceOrCut
  <2>1. CASE n = m
    <3>1. pc'[i] = "write" /\ mission'[i] = m
      BY <1>0, <1>1, TypeParts
    <3> QED BY <1>2, <2>1, <3>1 DEF Whole
  <2>2. CASE n # m
    <3>1. \A k \in Callers : pc[k] = "write" => pc'[k] = "write"
      BY <1>0, <1>1, TypeParts
    <3> QED BY <1>0, <1>1, <1>2, <1>3, <2>2, <3>1 DEF ResultLostOnlyByRaceOrCut, Whole
  <2> QED BY <2>1, <2>2
<1>7. WriterInv'
  BY <1>5 DEF WriterInv, WriterOf
<1>8. DraftInv'
  BY <1>0, <1>1, TypeParts DEF DraftInv
<1> QED BY <1>6, <1>7, <1>8

LEMMA WriteKeepsWriters ==
    ASSUME IInv, NEW i \in Callers, Write(i)
    PROVE  WriterInv' /\ DraftInv' /\ ResultLostOnlyByRaceOrCut'
<1> DEFINE m == mission[i]
<1>0. TypeOK /\ (\A j \in Callers : WriterOf(j)) /\ DraftInv /\ ResultLostOnlyByRaceOrCut
  BY WriterOfAll DEF IInv
<1>1. /\ m \in Missions /\ pc[i] = "write" /\ pc'[i] \in {"check", "done"}
      /\ \A k \in Callers \ {i} : pc'[k] = pc[k]
      /\ file' = [file EXCEPT ![m] = draft[i]]
      /\ recorded' = IF ~Refreshing(i) THEN [recorded EXCEPT ![m] = draft[i].result]
                     ELSE recorded
      /\ UNCHANGED <<kind, mission, draft, recording, fresh, raced, cut>>
  BY <1>0, TypeParts DEF Write, Goto, Refreshing, mine
<1>2. file'[m] = draft[i] /\ \A n \in Missions \ {m} : file'[n] = file[n]
  BY <1>0, <1>1, TypeParts
<1>3. \A n \in Missions \ {m} : recorded'[n] = recorded[n]
  BY <1>0, <1>1, TypeParts
<1>4. m \notin raced => file[m].state = "torn" /\ recorded'[m] = draft[i].result
  BY <1>0, <1>1, TypeParts DEF WriterOf
<1>5. ASSUME NEW j \in Callers PROVE WriterOf(j)'
  <2>0. mission[j] \in Missions /\ mission'[j] = mission[j] /\ (Refreshing(j)' <=> Refreshing(j))
    BY <1>0, <1>1, TypeParts DEF Refreshing
  <2>1. CASE j = i
    BY <1>1, <2>1 DEF WriterOf
  <2>2. CASE j # i /\ mission[j] = m
    <3>1. m \notin raced => pc[j] # "write"
      BY <1>0, <1>1, <2>2 DEF WriterOf
    <3>2. m \notin raced => ~(pc[j] = "open" /\ Refreshing(j) /\ j \in fresh)
      BY <1>0, <1>4, <2>2 DEF WriterOf, Whole
    <3> QED BY <1>1, <2>0, <2>2, <3>1, <3>2 DEF WriterOf
  <2>3. CASE j # i /\ mission[j] # m
    <3>1. pc'[j] = pc[j] /\ file'[mission[j]] = file[mission[j]]
          /\ recorded'[mission[j]] = recorded[mission[j]]
      BY <1>1, <1>2, <1>3, <2>0, <2>3
    <3>2. \A k \in Callers : pc'[k] = "write" => pc[k] = "write"
      BY <1>1
    <3> QED BY <1>0, <1>1, <2>0, <3>1, <3>2 DEF WriterOf, Whole
  <2> QED BY <2>1, <2>2, <2>3
<1>6. ResultLostOnlyByRaceOrCut'
  <2> SUFFICES ASSUME NEW n \in Missions, n \notin raced'
               PROVE  /\ Whole(n)' => file'[n].result = recorded'[n]
                      /\ file'[n].state = "torn" =>
                            n \in cut' \/ \E k \in Callers : pc'[k] = "write" /\ mission'[k] = n
    BY DEF ResultLostOnlyByRaceOrCut
  <2>1. CASE n = m
    <3>1. file'[m].state = "whole"
      BY <1>0, <1>1, <1>2 DEF DraftInv
    <3> QED BY <1>1, <1>2, <1>4, <2>1, <3>1
  <2>2. CASE n # m
    <3>1. \A k \in Callers : pc[k] = "write" /\ mission[k] = n => pc'[k] = "write"
      BY <1>1, <2>2
    <3> QED BY <1>0, <1>1, <1>2, <1>3, <2>2, <3>1 DEF ResultLostOnlyByRaceOrCut, Whole
  <2> QED BY <2>1, <2>2
<1>7. WriterInv'
  BY <1>5 DEF WriterInv, WriterOf
<1>8. DraftInv'
  BY <1>0, <1>1 DEF DraftInv
<1> QED BY <1>6, <1>7, <1>8

\* Every other step of i leaves the missions alone; if it is to write, it is to
\* write a new mission, a result, or what it has just read.
Quiet(i) ==
    /\ UNCHANGED <<file, raced, recorded>>
    /\ cut \subseteq cut' /\ (pc[i] = "write" => mission[i] \in cut')
    /\ fresh \subseteq fresh' /\ fresh' \subseteq fresh \cup {i}
    /\ pc'[i] # "write"
    /\ pc'[i] = "open" => draft'[i].state = "whole"
    /\ pc'[i] = "open" =>
          \/ ~Refreshing(i)'
          \/ Whole(mission'[i]) /\ mission'[i] \in Missions
                /\ draft'[i].result = file[mission'[i]].result

LEMMA QuietSteps ==
    ASSUME IInv, NEW i \in Callers, Moves(i), ~Open(i), ~Write(i)
    PROVE  Quiet(i)
<1>0. TypeOK /\ ResultInv
  BY DEF IInv
<1>1. CASE Prepare(i)
  <2>1. pc'[i] = "open" /\ kind'[i] = "prepare" /\ UNCHANGED <<file, raced, cut, recorded, fresh>>
        /\ pc[i] = "ready"
    BY <1>0, <1>1, TypeParts DEF Prepare, Become, Goto, history
  <2>2. draft'[i].state = "whole"
    BY <1>0, <1>1, TypeParts, FileRecords DEF Prepare
  <2> QED BY <2>1, <2>2 DEF Quiet, Refreshing
<1>2. CASE Refresh(i)
  <2>1. PICK m \in Missions :
            /\ Whole(m) /\ mission' = [mission EXCEPT ![i] = m]
            /\ \E f \in Refreshed(file[m]) : draft' = [draft EXCEPT ![i] = f]
    BY <1>2 DEF Refresh, Become
  <2>2. PICK f \in Refreshed(file[m]) : draft' = [draft EXCEPT ![i] = f]
    BY <2>1
  <2>3. file[m] \in Files /\ Vouched(file[m].result)
    BY <1>0, TypeParts DEF ResultInv
  <2>4. draft'[i].result = file[m].result /\ draft'[i].state = "whole" /\ mission'[i] = m
    BY <1>0, <2>1, <2>2, <2>3, RefreshedKeeps, TypeParts
  <2>5. pc'[i] = "open" /\ fresh' = fresh \cup {i} /\ UNCHANGED <<file, raced, cut, recorded>>
        /\ pc[i] = "ready"
    BY <1>0, <1>2, TypeParts DEF Refresh, Become, Goto
  <2> QED BY <2>1, <2>4, <2>5 DEF Quiet
<1>3. CASE RefreshFails(i) \/ Apply(i) \/ Check(i) \/ GuardRefuses(i) \/ GateRefuses(i)
           \/ GateAllows(i) \/ Inspect(i)
  <2>1. pc'[i] \notin {"open", "write"} /\ UNCHANGED <<file, raced, cut, recorded, fresh>>
        /\ pc[i] # "write"
    BY <1>0, <1>3, TypeParts DEF RefreshFails, Apply, Check, GuardRefuses, GateRefuses,
           GateAllows, Inspect, Refuse, Become, Goto, history
  <2> QED BY <2>1 DEF Quiet
<1>4. CASE SendRestart(i) \/ CannotStart(i) \/ Answer(i) \/ Timeout(i) \/ Verify(i)
  <2>1. pc'[i] \notin {"open", "write"} /\ UNCHANGED <<file, raced, cut, recorded, fresh>>
        /\ pc[i] # "write"
    BY <1>0, <1>4, TypeParts DEF SendRestart, CannotStart, Answer, Timeout, Restarted, Verify,
           Goto, history
  <2> QED BY <2>1 DEF Quiet
<1>5. CASE Record(i)
  <2>1. \/ (pc'[i] = "open" /\ i \in recording' /\ fresh' = fresh \cup {i})
        \/ (pc'[i] = "done" /\ fresh' = fresh)
    BY <1>0, <1>5, TypeParts DEF Record, Goto
  <2>2. UNCHANGED <<file, raced, cut, recorded>> /\ pc[i] = "record"
    BY <1>5 DEF Record
  <2>3. pc'[i] = "open" => draft'[i].state = "whole"
    <3>1. CASE kind[i] # "apply" /\ Whole(mission[i])
      <4>1. draft'[i] = [file[mission[i]] EXCEPT !.result = result[i]]
        BY <1>0, <1>5, <3>1, TypeParts DEF Record
      <4>2. file[mission[i]] \in Files /\ result[i] \in Results
        BY <1>0, TypeParts
      <4> QED BY <3>1, <4>1, <4>2, ResultPut DEF Whole
    <3>2. CASE ~(kind[i] # "apply" /\ Whole(mission[i]))
      BY <1>0, <1>5, <3>2, TypeParts DEF Record, Goto
    <3> QED BY <3>1, <3>2
  <2> QED BY <2>1, <2>2, <2>3 DEF Quiet, Refreshing
<1>6. CASE Kill(i)
  <2>1. pc'[i] = "done" /\ UNCHANGED <<file, raced, recorded, fresh>>
        /\ cut' = IF pc[i] = "write" THEN cut \cup {mission[i]} ELSE cut
    BY <1>0, <1>6, TypeParts DEF Kill, Goto
  <2> QED BY <2>1 DEF Quiet
<1> QED BY <1>1, <1>2, <1>3, <1>4, <1>5, <1>6 DEF Moves, Begin, Step

LEMMA QuietKeepsWriters ==
    ASSUME IInv, NEW i \in Callers, Moves(i), Quiet(i)
    PROVE  WriterInv' /\ DraftInv' /\ ResultLostOnlyByRaceOrCut'
<1>0. TypeOK /\ (\A j \in Callers : WriterOf(j)) /\ DraftInv /\ ResultLostOnlyByRaceOrCut /\ Own(i)
  BY WriterOfAll, OwnSteps DEF IInv
<1>1. ASSUME NEW j \in Callers PROVE WriterOf(j)'
  <2>1. CASE j = i
    BY <1>0, <2>1 DEF WriterOf, Quiet, ResultLostOnlyByRaceOrCut, Whole
  <2>2. CASE j # i
    <3>1. /\ pc'[j] = pc[j] /\ mission'[j] = mission[j] /\ draft'[j] = draft[j]
          /\ (Refreshing(j)' <=> Refreshing(j)) /\ (j \in fresh' <=> j \in fresh)
          /\ UNCHANGED <<file, raced, recorded>> /\ pc'[i] # "write"
      BY <1>0, <2>2 DEF Own, Quiet, Refreshing
    <3>2. \A k \in Callers : pc'[k] = "write" =>
              k # i /\ pc[k] = "write" /\ mission'[k] = mission[k]
      BY <1>0, <3>1 DEF Own
    <3> QED BY <1>0, <3>1, <3>2 DEF WriterOf, Whole
  <2> QED BY <2>1, <2>2
<1>2. ResultLostOnlyByRaceOrCut'
  <2>1. \A k \in Callers : pc[k] = "write" =>
            mission[k] \in cut' \/ (pc'[k] = "write" /\ mission'[k] = mission[k])
    BY <1>0 DEF Own, Quiet
  <2> QED BY <1>0, <2>1 DEF ResultLostOnlyByRaceOrCut, Quiet, Whole
<1>3. WriterInv'
  BY <1>1 DEF WriterInv, WriterOf
<1>4. DraftInv'
  BY <1>0 DEF DraftInv, Own, Quiet
<1> QED BY <1>2, <1>3, <1>4

LEMMA MoveNext ==
    ASSUME IInv, NEW i \in Callers, Moves(i)
    PROVE  IInv'
<1>1. TypeOK' /\ HostInv' /\ GateInv' /\ ResultInv'
  BY MoveType, MoveGateInv, MoveResult
<1>2. WriterInv' /\ DraftInv' /\ ResultLostOnlyByRaceOrCut'
  BY OpenKeepsWriters, WriteKeepsWriters, QuietSteps, QuietKeepsWriters
<1> QED BY <1>1, <1>2 DEF IInv

\* The host's steps leave the invocations, and what settled ones did, alone.
LEMMA HostNext ==
    ASSUME IInv, HostMoves
    PROVE  IInv'
<1>0. /\ TypeOK /\ HostTypeOK /\ HostInv /\ GateInv /\ ResultInv /\ HostStep
      /\ UNCHANGED <<file, kind, mission, pc, draft, recording, pre, ok, receipt, result, killed,
                     fresh, raced, cut, recorded>>
  BY DEF IInv, TypeOK, HostMoves, mine, gate, history
<1>1. TypeOK' /\ HostInv'
  BY <1>0, HostStepFacts DEF TypeOK
<1>2. starts \in Nat /\ starts' \in {starts, starts + 1}
  BY <1>0, HostStepFacts, TypeParts
<1>3. Settled
  BY <1>0, HostStepFacts DEF Settled
<1>4. GateInv'
  <2> SUFFICES ASSUME NEW i \in Callers
               PROVE  /\ Early(i) => request'[i] = "none"
                      /\ pre[i].started <= starts'
                      /\ request'[i] = "done" => served'[i] > pre[i].started
                      /\ ok[i] => request'[i] = "done"
    BY <1>0 DEF GateInv, Early
  <2>1. pre[i].started \in Nat /\ pre[i].started <= starts
    <3>1. pre[i] \in Containers
      BY <1>0, TypeParts
    <3> QED BY <1>0, <3>1, ContainerRecord, StartsAssumption DEF Records, GateInv
  <2>2. CASE request[i] = "done"
    BY <1>0, <1>2, <1>3, <2>1, <2>2 DEF GateInv, Settled
  <2>3. CASE request[i] # "done"
    <3>1. request[i] = "none" => request'[i] = "none"
      BY <1>0, HostStepFacts
    <3>2. request'[i] = "done" => served'[i] = starts + 1
      BY <1>0, <2>3, HostStepFacts
    <3> QED BY <1>0, <1>2, <2>1, <2>3, <3>1, <3>2 DEF GateInv
  <2> QED BY <2>2, <2>3
<1>5. ResultInv'
  <2>1. \A r \in Results : Vouched(r) => Upheld(r)
    BY <1>3, VouchedStays
  <2>2. \A m \in Missions : Upheld(file'[m].result)
    BY <1>0, <2>1, TypeParts DEF ResultInv, Files
  <2>3. \A i \in Callers : Upheld(draft'[i].result) /\ Upheld(result'[i])
    BY <1>0, <2>1, TypeParts DEF ResultInv, Files
  <2> QED BY <2>2, <2>3 DEF ResultInv, Vouched, Upheld
<1>6. WriterInv' /\ DraftInv' /\ ResultLostOnlyByRaceOrCut'
  BY <1>0 DEF IInv, DraftInv, WriterInv, ResultLostOnlyByRaceOrCut, Refreshing, Whole
<1> QED BY <1>1, <1>4, <1>5, <1>6 DEF IInv

LEMMA NextIInv == IInv /\ [Next]_vars => IInv'
<1> SUFFICES ASSUME IInv, [Next]_vars PROVE IInv'
  OBVIOUS
<1>1. CASE \E i \in Callers : Moves(i)
  BY <1>1, MoveNext
<1>2. CASE HostMoves
  BY <1>2, HostNext
<1>3. CASE UNCHANGED vars
  BY <1>3 DEF vars, host, mine, gate, history, IInv, TypeOK, HostTypeOK, HostInv, GateInv, Early,
         ResultInv, Vouched, VouchedBy, WriterInv, DraftInv, ResultLostOnlyByRaceOrCut, Refreshing, Whole
<1> QED BY <1>1, <1>2, <1>3 DEF Next, Moves, HostMoves

-----------------------------------------------------------------------------
(* Every reachable state has the declared types: mission_file, the gate's  *)
(* receipts and the daemon's requests.                                     *)
THEOREM TypeCorrect == Spec => []TypeOK
<1>1. IInv => TypeOK
  BY DEF IInv
<1> QED BY <1>1, InitIInv, NextIInv, PTL DEF Spec

(* What a mission says of an execution is backed by the receipt of the     *)
(* invocation it names and, when it says executed, by the daemon's restart *)
(* for it: record_execution_result never writes what did not happen.       *)
THEOREM RecordsTrue == Spec => []RecordedRestartHappened
<1>1. IInv => RecordedRestartHappened
  BY DEF IInv, ResultInv, Vouched, VouchedBy, RecordedRestartHappened
<1> QED BY <1>1, InitIInv, NextIInv, PTL DEF Spec

(* The last record of a mission stays, through any refreshes, unless it is *)
(* prepared anew, somebody writes it from a stale reading or a write of it *)
(* is killed half-way: _preserve_terminal_state suffices without races and *)
(* kills, and only then.                                                   *)
THEOREM ResultsKept == Spec => []ResultLostOnlyByRaceOrCut
<1>1. IInv => ResultLostOnlyByRaceOrCut
  BY DEF IInv
<1> QED BY <1>1, InitIInv, NextIInv, PTL DEF Spec

-----------------------------------------------------------------------------
(* Whose execution a mission names.                                        *)
\* A result of mission m comes from an execute command on m itself.
OriginBy(r, m, missions, kinds) ==
    r.by # Nobody => missions[r.by] = m /\ kinds[r.by] = "execute"
Origin(r, m) == OriginBy(r, m, mission, kind)

\* The same of every result, in a mission or about to be written into it; an
\* invocation makes a result of its own only, past the gate.
OriginInv ==
    /\ \A m \in Missions : Origin(file[m].result, m)
    /\ \A i \in Callers :
          /\ pc[i] \in {"open", "write"} => Origin(draft[i].result, mission[i])
          /\ result[i].by \in {i, Nobody}
          /\ pc[i] \in {"gate", "inspect", "restart", "waiting", "verify"} \/ result[i].by = i
                => kind[i] \in {"execute", "apply"}

OriginAfter(r, m) == OriginBy(r, m, mission', kind')

LEMMA OriginBegins == Init => OriginInv
<1> SUFFICES ASSUME Init PROVE OriginInv
  OBVIOUS
<1>1. PICK f \in {NoFile} \cup Prepared :
          file = [m \in Missions |-> IF m = Nobody THEN f ELSE NoFile]
  BY DEF Init
<1>2. \A m \in Missions : file[m].result = NoResult
  BY <1>1, FileRecords
<1> QED BY <1>2, ResultRecords, NobodyAssumption DEF Init, OriginInv, Origin, OriginBy

\* An invocation that is named keeps its mission and its kind.
LEMMA OriginStays ==
    ASSUME IInv, NEW i \in Callers, Moves(i), NEW r \in Results, Vouched(r),
           NEW m, Origin(r, m)
    PROVE  OriginAfter(r, m)
<1>0. TypeOK /\ GateInv /\ Own(i)
  BY OwnSteps DEF IInv
<1>1. CASE r.by = Nobody
  BY <1>1 DEF OriginAfter, OriginBy
<1>2. CASE r.by \in Callers
  <2>1. r.outcome \in {"executed", "failed", "refused"} /\ r.by # Nobody
    BY <1>2, NobodyAssumption DEF Vouched, VouchedBy, Results, Outcomes
  <2>2. receipt[r.by] # "none"
    BY <2>1 DEF Vouched, VouchedBy
  <2>3. pc[r.by] # "ready"
    BY <1>0, <1>2, <2>2 DEF GateInv, Early
  <2>4. mission'[r.by] = mission[r.by] /\ kind'[r.by] = kind[r.by]
    <3>1. CASE r.by = i
      <4>1. ~Begin(i)
        BY <2>3, <3>1 DEF Begin, Prepare, Refresh, RefreshFails, Apply, Become
      <4>2. UNCHANGED mine
        BY <4>1 DEF Moves, Kill, Step, Open, Write, Check, GuardRefuses, GateRefuses, GateAllows, Inspect,
           SendRestart, CannotStart, Answer, Timeout, Restarted, Verify, Record
      <4> QED BY <4>2 DEF mine
    <3>2. CASE r.by # i
      BY <1>0, <1>2, <3>2 DEF Own
    <3> QED BY <3>1, <3>2
  <2> QED BY <2>4 DEF Origin, OriginAfter, OriginBy
<1> QED BY <1>1, <1>2 DEF Results, Missions

LEMMA NobodysOrigin ==
    ASSUME NEW m
    PROVE  OriginAfter(NoResult, m) /\ OriginAfter(Refused, m)
  BY ResultRecords DEF OriginAfter, OriginBy

LEMMA OriginMove ==
    ASSUME IInv, OriginInv, NEW i \in Callers, Moves(i)
    PROVE  OriginInv'
<1>0. TypeOK /\ ResultInv /\ Own(i)
  BY OwnSteps DEF IInv
<1>1. \A m \in Missions : file[m] \in Files /\ Vouched(file[m].result) /\ OriginAfter(file[m].result, m)
  <2> TAKE m \in Missions
  <2>1. file[m] \in Files /\ file[m].result \in Results /\ Vouched(file[m].result)
    BY <1>0, TypeParts DEF ResultInv, Files
  <2> QED BY <2>1, OriginStays DEF OriginInv
<1>2. \A j \in Callers : pc[j] \in {"open", "write"} => OriginAfter(draft[j].result, mission[j])
  <2> TAKE j \in Callers
  <2>1. draft[j].result \in Results /\ Vouched(draft[j].result)
    BY <1>0, TypeParts DEF ResultInv, Files
  <2> QED BY <2>1, OriginStays DEF OriginInv
<1>3. \A m \in Missions : OriginAfter(file'[m].result, m)
  <2>1. CASE Open(i)
    <3>1. mission[i] \in Missions /\ file' = [file EXCEPT ![mission[i]] = TornFile]
      BY <1>0, <2>1, TypeParts DEF Open
    <3> QED BY <1>0, <1>1, <3>1, TypeParts, FileRecords, NobodysOrigin
  <2>2. CASE Write(i)
    <3>1. mission[i] \in Missions /\ file' = [file EXCEPT ![mission[i]] = draft[i]] /\ pc[i] = "write"
      BY <1>0, <2>2, TypeParts DEF Write
    <3> QED BY <1>0, <1>1, <1>2, <3>1, TypeParts
  <2>3. CASE UNCHANGED file
    BY <1>1, <2>3
  <2> QED BY <2>1, <2>2, <2>3 DEF Moves, Begin, Prepare, Refresh, RefreshFails, Apply, Kill, Step,
         Check, GuardRefuses, GateRefuses, GateAllows, Inspect, SendRestart, CannotStart, Answer,
         Timeout, Restarted, Verify, Record
<1>4. pc'[i] \in {"open", "write"} => OriginAfter(draft'[i].result, mission'[i])
  <2>1. CASE Prepare(i)
    <3>1. PICK f \in Prepared : draft' = [draft EXCEPT ![i] = f]
      BY <2>1 DEF Prepare
    <3>2. draft'[i].result = NoResult
      BY <1>0, <3>1, TypeParts, FileRecords
    <3> QED BY <3>2, NobodysOrigin
  <2>2. CASE Refresh(i)
    <3>1. PICK m \in Missions : /\ mission' = [mission EXCEPT ![i] = m]
                                /\ \E f \in Refreshed(file[m]) : draft' = [draft EXCEPT ![i] = f]
      BY <2>2 DEF Refresh, Become
    <3>2. PICK f \in Refreshed(file[m]) : draft' = [draft EXCEPT ![i] = f]
      BY <3>1
    <3>3. f.result = file[m].result
      BY <1>1, <3>2, RefreshedKeeps
    <3>4. draft'[i] = f /\ mission'[i] = m
      BY <1>0, <3>1, <3>2, TypeParts
    <3> QED BY <1>1, <3>3, <3>4
  <2>3. CASE Record(i)
    <3>1. CASE pc'[i] = "open"
      <4>1. /\ kind[i] # "apply" /\ UNCHANGED <<kind, mission>>
            /\ draft' = [draft EXCEPT ![i] = [file[mission[i]] EXCEPT !.result = result[i]]]
        BY <1>0, <2>3, <3>1, TypeParts DEF Record, Goto, mine
      <4>2. file[mission[i]] \in Files /\ result[i] \in Results
        BY <1>0, <1>1, TypeParts
      <4>3. [file[mission[i]] EXCEPT !.result = result[i]].result = result[i]
        BY <4>2, ResultPut
      <4>4. draft'[i].result = result[i]
        BY <1>0, <4>1, <4>3, TypeParts
      <4>5. result[i].by \in {i, Nobody} /\ (result[i].by = i => kind[i] \in {"execute", "apply"})
        BY DEF OriginInv
      <4> QED BY <4>1, <4>4, <4>5 DEF OriginAfter, OriginBy
    <3>2. CASE pc'[i] # "open"
      BY <1>0, <2>3, <3>2, TypeParts DEF Record, Goto
    <3> QED BY <3>1, <3>2
  <2>4. CASE Open(i)
    BY <1>0, <1>2, <2>4 DEF Open, mine
  <2>5. CASE ~(Prepare(i) \/ Refresh(i) \/ Record(i) \/ Open(i))
    <3>1. pc'[i] \notin {"open", "write"}
      BY <1>0, <2>5, TypeParts DEF Moves, Begin, RefreshFails, Apply, Kill, Step, Write, Refuse, Goto,
         Check, GuardRefuses, GateRefuses, GateAllows, Inspect, SendRestart, CannotStart, Answer,
         Timeout, Restarted, Verify
    <3> QED BY <3>1
  <2> QED BY <2>1, <2>2, <2>3, <2>4, <2>5
<1>5. /\ result'[i].by \in {i, Nobody}
      /\ pc'[i] \in {"gate", "inspect", "restart", "waiting", "verify"} \/ result'[i].by = i
            => kind'[i] \in {"execute", "apply"}
  <2>0. /\ result[i].by \in {i, Nobody} /\ i # Nobody
        /\ pc[i] \in {"gate", "inspect", "restart", "waiting", "verify"} \/ result[i].by = i
              => kind[i] \in {"execute", "apply"}
    BY NobodyAssumption DEF OriginInv
  <2>1. CASE GateRefuses(i)
    <3>1. /\ result' = [result EXCEPT ![i] = [Refused EXCEPT !.by = i]] /\ UNCHANGED kind
          /\ pc[i] = "gate"
      BY <2>1 DEF GateRefuses, mine
    <3>2. result'[i].by = i
      BY <1>0, <3>1, TypeParts, ResultRecords
    <3> QED BY <2>0, <3>1, <3>2
  <2>2. CASE Verify(i)
    <3>1. PICK sight \in {container, Absent} :
              \E verdict \in Verification(i, sight) : WriteReceipt(i, verdict)
      BY <2>2 DEF Verify
    <3>2. PICK verdict \in Verification(i, sight) : WriteReceipt(i, verdict)
      BY <3>1
    <3>3. result'[i].by = i /\ UNCHANGED kind /\ pc[i] = "verify"
      BY <1>0, <2>2, <3>2, TypeParts DEF WriteReceipt, Verify, mine
    <3> QED BY <2>0, <3>3
  <2>3. CASE Refuse(i)
    <3>1. result'[i] = Refused /\ pc'[i] = "record"
      BY <1>0, <2>3, TypeParts DEF Refuse, Goto
    <3> QED BY <2>0, <3>1, ResultRecords
  <2>4. CASE Begin(i) /\ ~Refuse(i)
    <3>1. pc[i] = "ready" /\ UNCHANGED result
          /\ (pc'[i] = "open" \/ (pc'[i] = "gate" /\ kind'[i] = "apply"))
      BY <1>0, <2>4, TypeParts DEF Begin, Prepare, Refresh, RefreshFails, Apply, Become, Goto
    <3>2. result[i].by = Nobody
      <4>1. receipt[i] = "none"
        BY <3>1 DEF IInv, GateInv, Early
      <4>2. Vouched(result[i]) /\ result[i] \in Results
        BY <1>0, TypeParts DEF ResultInv
      <4> QED BY <2>0, <4>1, <4>2 DEF Vouched, VouchedBy, Results, Outcomes
    <3> QED BY <2>0, <3>1, <3>2
  <2>5. CASE Check(i) /\ ~Refuse(i)
    <3>1. kind[i] = "execute" /\ UNCHANGED <<kind, result>>
      BY <2>5 DEF Check, mine
    <3> QED BY <2>0, <3>1
  <2>6. CASE ~(GateRefuses(i) \/ Verify(i) \/ Refuse(i) \/ Begin(i) \/ Check(i))
    <3>1. UNCHANGED <<kind, result>>
      BY <2>6 DEF Moves, Kill, Step, Open, Write, GuardRefuses, GateAllows, Inspect, SendRestart,
         CannotStart, Answer, Timeout, Restarted, Record, mine
    <3>2. pc'[i] \in {"gate", "inspect", "restart", "waiting", "verify"} =>
             pc[i] \in {"gate", "inspect", "restart", "waiting", "verify"}
      BY <1>0, <2>6, TypeParts DEF Moves, Kill, Step, Open, Write, GuardRefuses, GateAllows, Inspect,
         SendRestart, CannotStart, Answer, Timeout, Restarted, Record, Goto
    <3> QED BY <2>0, <3>1, <3>2
  <2> QED BY <2>1, <2>2, <2>3, <2>4, <2>5, <2>6
<1>6. ASSUME NEW j \in Callers
      PROVE  /\ pc'[j] \in {"open", "write"} => OriginAfter(draft'[j].result, mission'[j])
             /\ result'[j].by \in {j, Nobody}
             /\ pc'[j] \in {"gate", "inspect", "restart", "waiting", "verify"} \/ result'[j].by = j
                   => kind'[j] \in {"execute", "apply"}
  <2>1. CASE j = i
    BY <1>4, <1>5, <2>1
  <2>2. CASE j # i
    BY <1>0, <1>2, <2>2 DEF Own, OriginInv
  <2> QED BY <2>1, <2>2
<1> QED BY <1>3, <1>6 DEF OriginInv, Origin, OriginAfter

\* Two requests that were served brought about two different starts.
ServedApart ==
    \A i, j \in Callers : i # j /\ request[i] = "done" /\ request[j] = "done"
        => served[i] # served[j]

LEMMA ServedApartKept ==
    ASSUME IInv, ServedApart, [Next]_vars
    PROVE  ServedApart'
<1>0. /\ TypeOK /\ HostInv /\ starts \in Nat
      /\ request \in [Callers -> {"none", "held", "done", "failed"}]
      /\ served \in [Callers -> 0..MaxStarts]
  BY TypeParts DEF IInv
<1>1. ASSUME NEW k \in Callers, DaemonRestarts(k) PROVE ServedApart'
  <2>1. request' = [request EXCEPT ![k] = "done"] /\ served' = [served EXCEPT ![k] = starts + 1]
    BY <1>1 DEF DaemonRestarts
  <2>2. \A i \in Callers \ {k} :
           /\ request'[i] = request[i] /\ served'[i] = served[i]
           /\ request'[i] = "done" => served'[i] <= starts
    BY <1>0, <2>1 DEF HostInv
  <2>3. served'[k] = starts + 1
    BY <1>0, <2>1
  <2> QED BY <1>0, <2>2, <2>3 DEF ServedApart
<1>2. ASSUME NEW k \in Callers, DaemonRefuses(k) PROVE ServedApart'
  BY <1>0, <1>2 DEF DaemonRefuses, ServedApart
<1>3. ASSUME NEW i \in Callers, Moves(i) PROVE ServedApart'
  <2>1. Own(i) /\ UNCHANGED served
    BY <1>0, <1>3, OwnSteps
  <2>2. request'[i] = "done" => request[i] = "done"
    BY <1>3, MoveGate DEF GateStep
  <2> QED BY <2>1, <2>2 DEF ServedApart, Own
<1>4. CASE UNCHANGED <<request, served>>
  BY <1>4 DEF ServedApart
<1> QED
  BY <1>1, <1>2, <1>3, <1>4 DEF Next, Moves, HostStep, SomeoneStarts, SomeoneRemoves, vars, host

By(m)       == file[m].result.by
Executed(m) == file[m].result.outcome = "executed"
MissionsApart ==
    \A m \in Missions : By(m) # Nobody =>
        /\ mission[By(m)] = m /\ kind[By(m)] = "execute"
        /\ \A n \in Missions \ {m} :
              /\ By(n) # By(m)
              /\ Executed(m) /\ Executed(n) => served[By(m)] # served[By(n)]

LEMMA OriginsApart ==
    ASSUME IInv, OriginInv, ServedApart
    PROVE  MissionsApart
<1>0. TypeOK /\ ResultInv
  BY DEF IInv
<1>1. \A m \in Missions : By(m) # Nobody => mission[By(m)] = m /\ kind[By(m)] = "execute"
  BY DEF OriginInv, Origin, OriginBy, By
<1>2. \A m \in Missions : By(m) \in Missions
  BY <1>0, TypeParts DEF By, Files, Results
<1>3. \A m \in Missions : Executed(m) => By(m) \in Callers /\ request[By(m)] = "done"
  <2> TAKE m \in Missions
  <2>1. Vouched(file[m].result)
    BY <1>0 DEF ResultInv
  <2> QED BY <1>2, <2>1 DEF Vouched, VouchedBy, Missions, By, Executed
<1>4. ASSUME NEW m \in Missions, NEW n \in Missions \ {m}, By(m) # Nobody
      PROVE  /\ By(n) # By(m)
             /\ Executed(m) /\ Executed(n) => served[By(m)] # served[By(n)]
  <2>1. By(n) # By(m)
    BY <1>1, <1>4
  <2> QED BY <1>3, <2>1 DEF ServedApart
<1> QED BY <1>1, <1>4 DEF MissionsApart

(* A mission only ever names an execution of its own: a confirmed mission    *)
(* restart execute on this very mission, never one of another mission and    *)
(* never an apply --execute, whoever refreshed, raced or was killed.  So no  *)
(* two missions claim the same execution, and two that both say executed     *)
(* stand for two different restarts of the container.                        *)
THEOREM ExecutionsApart == Spec => []MissionsApart
<1>1. Init => OriginInv /\ ServedApart
  BY OriginBegins DEF Init, HostInit, ServedApart
<1>2. IInv /\ OriginInv /\ ServedApart /\ [Next]_vars => OriginInv' /\ ServedApart'
  <2> SUFFICES ASSUME IInv, OriginInv, ServedApart, [Next]_vars PROVE OriginInv' /\ ServedApart'
    OBVIOUS
  <2>1. ASSUME NEW i \in Callers, Moves(i) PROVE OriginInv'
    BY <2>1, OriginMove
  <2>2. ASSUME UNCHANGED <<file, kind, mission, pc, draft, result>> PROVE OriginInv'
    BY <2>2 DEF OriginInv, Origin, OriginBy
  <2>3. OriginInv'
    BY <2>1, <2>2 DEF Next, Moves, vars, mine
  <2> QED BY <2>3, ServedApartKept
<1>3. IInv /\ OriginInv /\ ServedApart => MissionsApart
  BY OriginsApart
<1>4. Spec => []IInv
  BY InitIInv, NextIInv, PTL DEF Spec
<1> QED BY <1>1, <1>2, <1>3, <1>4, PTL DEF Spec

-----------------------------------------------------------------------------
(* How many steps of its own an invocation has at most left.               *)
StepsLeft(i) ==
    CASE pc[i] = "ready"   -> 12
      [] pc[i] = "open"    -> IF i \in recording THEN 2 ELSE 11
      [] pc[i] = "write"   -> IF i \in recording THEN 1 ELSE 10
      [] pc[i] = "check"   -> 9
      [] pc[i] = "gate"    -> 8
      [] pc[i] = "inspect" -> 7
      [] pc[i] = "restart" -> 6
      [] pc[i] = "waiting" -> 5
      [] pc[i] = "verify"  -> 4
      [] pc[i] = "record"  -> 3
      [] OTHER             -> 0

LEMMA StepsBounded ==
    ASSUME NEW i \in Callers
    PROVE  StepsLeft(i) \in 0..12
  BY DEF StepsLeft

\* Whatever an invocation does is a step nearer to its end.
LEMMA MoveRunsDown ==
    ASSUME TypeOK, NEW i \in Callers, Moves(i)
    PROVE  StepsLeft(i)' < StepsLeft(i)
<1>0. pc \in [Callers -> {"ready", "open", "write", "check", "gate", "inspect", "restart",
                          "waiting", "verify", "record", "done"}]
  BY TypeParts
<1>1. CASE Open(i)
  BY <1>0, <1>1 DEF Open, Goto, StepsLeft
<1>2. CASE Write(i)
  BY <1>0, <1>2 DEF Write, Goto, StepsLeft
<1>3. CASE Check(i)
  BY <1>0, <1>3 DEF Check, Refuse, Goto, StepsLeft
<1>4. CASE GuardRefuses(i) \/ GateRefuses(i) \/ GateAllows(i)
  BY <1>0, <1>4 DEF GuardRefuses, GateRefuses, GateAllows, Refuse, Goto, StepsLeft
<1>5. CASE Inspect(i) \/ SendRestart(i)
  BY <1>0, <1>5 DEF Inspect, SendRestart, Goto, StepsLeft
<1>6. CASE CannotStart(i) \/ Answer(i) \/ Timeout(i)
  BY <1>0, <1>6 DEF CannotStart, Answer, Timeout, Restarted, Goto, StepsLeft
<1>7. CASE Verify(i)
  BY <1>0, <1>7 DEF Verify, Goto, StepsLeft
<1>8. CASE Record(i)
  <2>1. pc[i] = "record" /\ (pc' = [pc EXCEPT ![i] = "done"]
                             \/ (pc' = [pc EXCEPT ![i] = "open"] /\ recording' = recording \cup {i}))
    BY <1>8 DEF Record, Goto
  <2> QED BY <1>0, <2>1 DEF StepsLeft
<1>9. CASE Kill(i)
  BY <1>0, <1>9 DEF Kill, Goto, StepsLeft
<1>10. CASE Begin(i)
  <2>1. pc[i] = "ready" /\ UNCHANGED recording
    BY <1>10 DEF Begin, Prepare, Refresh, RefreshFails, Apply, Become
  <2>2. pc'[i] \in {"open", "record", "gate"}
    BY <1>0, <1>10 DEF Begin, Prepare, Refresh, RefreshFails, Apply, Refuse, Goto
  <2> QED BY <2>1, <2>2 DEF StepsLeft
<1> QED BY <1>1, <1>2, <1>3, <1>4, <1>5, <1>6, <1>7, <1>8, <1>9, <1>10 DEF Moves, Step

\* The others' steps, and the container's, leave it its own.
LEMMA OthersLeave ==
    ASSUME TypeOK, NEW i \in Callers, NEW j \in Callers, i # j, Moves(j)
    PROVE  pc'[i] = pc[i] /\ StepsLeft(i)' = StepsLeft(i)
<1>1. pc'[i] = pc[i]
  BY OwnSteps DEF Own
<1>2. i \in recording' <=> i \in recording
  BY DEF Moves, Kill, Begin, Prepare, Refresh, RefreshFails, Apply, Step, Open, Write, Check,
     GuardRefuses, GateRefuses, GateAllows, Inspect, SendRestart, CannotStart, Answer, Timeout,
     Restarted, Verify, Record
<1> QED BY <1>1, <1>2 DEF StepsLeft

(* A mission command makes at most 12 steps of its own, whatever the daemon  *)
(* answers, the missions say and the other invocations do to them: nothing   *)
(* that anybody does gives an invocation a step more, and each of its own    *)
(* uses one up.                                                              *)
THEOREM StepsRunDown ==
    Spec => [][\A i \in Callers :
                  /\ StepsLeft(i) \in 0..12
                  /\ StepsLeft(i)' <= StepsLeft(i)
                  /\ pc'[i] # pc[i] => StepsLeft(i)' < StepsLeft(i)]_vars
<1>1. IInv /\ [Next]_vars =>
        [\A i \in Callers :
            /\ StepsLeft(i) \in 0..12
            /\ StepsLeft(i)' <= StepsLeft(i)
            /\ pc'[i] # pc[i] => StepsLeft(i)' < StepsLeft(i)]_vars
  <2> SUFFICES ASSUME IInv, Next, NEW i \in Callers
               PROVE  /\ StepsLeft(i) \in 0..12
                      /\ StepsLeft(i)' <= StepsLeft(i)
                      /\ pc'[i] # pc[i] => StepsLeft(i)' < StepsLeft(i)
    OBVIOUS
  <2>0. TypeOK /\ StepsLeft(i) \in 0..12 /\ StepsLeft(i)' \in 0..12
    BY StepsBounded DEF IInv, StepsLeft
  <2>1. CASE Moves(i)
    BY <2>0, <2>1, MoveRunsDown
  <2>2. ASSUME NEW j \in Callers \ {i}, Moves(j)
        PROVE  pc'[i] = pc[i] /\ StepsLeft(i)' = StepsLeft(i)
    BY <2>0, <2>2, OthersLeave
  <2>3. CASE UNCHANGED <<pc, recording>>
    BY <2>0, <2>3 DEF StepsLeft
  <2> QED BY <2>0, <2>1, <2>2, <2>3 DEF Next, Moves
<1> QED BY <1>1, InitIInv, NextIInv, PTL DEF Spec
=============================================================================
