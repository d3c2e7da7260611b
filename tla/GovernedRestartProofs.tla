------------------------- MODULE GovernedRestartProofs -------------------------
(***************************************************************************)
(* Proofs about GovernedRestart, for any number of invocations of any      *)
(* lanes, any labels, starts and kills.                                    *)
(*                                                                         *)
(* Starts are numbered, so "restarted between the two inspections" is an   *)
(* inequality between the start a request brought about and those the      *)
(* inspections showed.  IInv keeps these numbers in order: what was seen   *)
(* or served is never younger than the youngest start, and the container   *)
(* is as young as that.                                                    *)
(***************************************************************************)
EXTENDS GovernedRestart, TLAPS

-----------------------------------------------------------------------------
(* The Docker host, for any callers, labels and starts: starts are         *)
(* numbered in order, a request that was served has a start of its own.    *)

\* The container is the youngest start; a request that was served has a start of
\* its own, and only that one has.
HostInv ==
    /\ container.found => container.started = starts
    /\ \A i \in Callers : /\ request[i] = "done" => served[i] \in 1 .. starts
                          /\ request[i] # "done" => served[i] = 0

-----------------------------------------------------------------------------
(* What a container shows.                                                  *)
Records == [found : BOOLEAN, labels : LabelSets, started : 0..MaxStarts, dated : BOOLEAN]

LEMMA AbsentRecord == Absent \in Records /\ ~Absent.found /\ Absent.started = 0 /\ ~Absent.dated
  BY LabelsAssumption, StartsAssumption DEF Absent, Records

LEMMA ShownRecord ==
    ASSUME NEW l \in LabelSets, NEW s \in 1..MaxStarts
    PROVE  /\ Shown(l, s) \in Records /\ Shown(l, s) \in Containers
           /\ Shown(l, s).found /\ Shown(l, s).started = s /\ Shown(l, s).labels = l
<1>1. Shown(l, s) \in Containers
  BY DEF Containers
<1>2. s \in 0..MaxStarts
  BY StartsAssumption
<1> QED BY <1>1, <1>2 DEF Shown, Records

LEMMA RestartedRecord ==
    ASSUME NEW l, NEW s, NEW t
    PROVE  [Shown(l, s) EXCEPT !.started = t] = Shown(l, t)
<1>1. \A f, d : [[found |-> f, labels |-> l, started |-> s, dated |-> d] EXCEPT !.started = t]
                = [found |-> f, labels |-> l, started |-> t, dated |-> d]
  OBVIOUS
<1>2. [[found |-> TRUE, labels |-> l, started |-> s, dated |-> TRUE] EXCEPT !.started = t]
      = [found |-> TRUE, labels |-> l, started |-> t, dated |-> TRUE]
  BY <1>1, Zenon
<1> QED BY <1>2, Zenon DEF Shown

LEMMA ContainerRecord ==
    ASSUME NEW c \in Containers
    PROVE  /\ c \in Records /\ c \in Sights
           /\ ~c.found => c = Absent
           /\ c.found => c = Shown(c.labels, c.started) /\ c.labels \in LabelSets
                         /\ c.started \in 1..MaxStarts
<1>1. CASE c = Absent
  BY <1>1, AbsentRecord DEF Sights
<1>2. CASE \E l \in LabelSets, s \in 1..MaxStarts : c = Shown(l, s)
  <2>1. PICK l \in LabelSets, s \in 1..MaxStarts : c = Shown(l, s)
    BY <1>2
  <2> QED BY <2>1, ShownRecord DEF Sights
<1> QED BY <1>1, <1>2 DEF Containers

LEMMA SightRecord ==
    ASSUME NEW c \in Sights
    PROVE  c \in Records /\ (~c.found => c.started = 0)
<1>1. CASE c \in Containers
  BY <1>1, ContainerRecord, AbsentRecord
<1>2. CASE \E d \in Containers : c = [d EXCEPT !.dated = FALSE]
  <2>1. PICK d \in Containers : c = [d EXCEPT !.dated = FALSE]
    BY <1>2
  <2>2. d \in Records /\ (~d.found => d.started = 0)
    BY ContainerRecord, AbsentRecord
  <2> QED BY <2>1, <2>2 DEF Records
<1> QED BY <1>1, <1>2 DEF Sights

-----------------------------------------------------------------------------
LEMMA HostBegins ==
    ASSUME HostInit
    PROVE  HostTypeOK /\ HostInv
<1>1. PICK l \in LabelSets : container = Shown(l, 1)
  BY DEF HostInit
<1>2. 1 \in 1..MaxStarts /\ 1 \in 0..MaxStarts /\ 0 \in 0..MaxStarts
  BY StartsAssumption
<1>3. container \in Containers /\ container.found /\ container.started = 1
  BY <1>1, <1>2, ShownRecord
<1> QED BY <1>2, <1>3 DEF HostInit, HostTypeOK, HostInv

\* What the host's steps change.
LEMMA HostStepFacts ==
    ASSUME HostTypeOK, HostInv, HostStep
    PROVE  /\ HostTypeOK' /\ HostInv'
           /\ starts' \in {starts, starts + 1}
           /\ \A i \in Callers :
                 /\ request[i] = "done" => request'[i] = "done" /\ served'[i] = served[i]
                 /\ request'[i] = "done" /\ request[i] # "done" => served'[i] = starts + 1
                 /\ request[i] = "none" <=> request'[i] = "none"
           /\ \/ container' = container
              \/ container'.found => container'.started = starts + 1
<1>0. /\ container \in Containers /\ starts \in 0..MaxStarts /\ MaxStarts \in Nat \ {0}
      /\ request \in [Callers -> {"none", "held", "done", "failed"}]
      /\ served \in [Callers -> 0..MaxStarts]
  BY StartsAssumption DEF HostTypeOK
<1>1. CASE \E i \in Callers : DaemonRestarts(i)
  <2>1. PICK i \in Callers : DaemonRestarts(i)
    BY <1>1
  <2>2. container = Shown(container.labels, container.started) /\ container.labels \in LabelSets
    BY <1>0, <2>1, ContainerRecord DEF DaemonRestarts
  <2>3. starts + 1 \in 1..MaxStarts
    BY <1>0, <2>1 DEF DaemonRestarts
  <2>4. container' = Shown(container.labels, starts + 1)
    BY <2>1, <2>2, RestartedRecord DEF DaemonRestarts
  <2>5. container' \in Containers /\ container'.found /\ container'.started = starts + 1
    BY <2>2, <2>3, <2>4, ShownRecord
  <2>6. request' = [request EXCEPT ![i] = "done"] /\ served' = [served EXCEPT ![i] = starts + 1]
        /\ starts' = starts + 1 /\ request[i] = "held"
    BY <2>1 DEF DaemonRestarts
  <2>7. HostTypeOK'
    BY <1>0, <2>3, <2>5, <2>6 DEF HostTypeOK
  <2>8. HostInv'
    BY <1>0, <2>3, <2>5, <2>6 DEF HostInv
  <2> QED BY <1>0, <2>5, <2>6, <2>7, <2>8
<1>2. CASE \E i \in Callers : DaemonRefuses(i)
  BY <1>0, <1>2 DEF DaemonRefuses, HostTypeOK, HostInv
<1>3. CASE SomeoneStarts
  <2>1. starts + 1 \in 1..MaxStarts /\ starts' = starts + 1 /\ UNCHANGED <<request, served>>
    BY <1>0, <1>3 DEF SomeoneStarts
  <2>2. container' \in Containers /\ container'.found /\ container'.started = starts + 1
    BY <1>3, <2>1, ShownRecord DEF SomeoneStarts
  <2> QED BY <1>0, <2>1, <2>2 DEF HostTypeOK, HostInv
<1>4. CASE SomeoneRemoves
  <2>1. container' = Absent /\ UNCHANGED <<starts, request, served>> /\ Absent \in Containers
    BY <1>4 DEF SomeoneRemoves, Containers
  <2> QED BY <1>0, <2>1, AbsentRecord DEF HostTypeOK, HostInv
<1> QED BY <1>1, <1>2, <1>3, <1>4 DEF HostStep

-----------------------------------------------------------------------------
(* The invocations.                                                        *)

\* An invocation sees nothing younger than the container, and sees it as it was;
\* it asks once, after its first inspection passed its gate.
SightInv ==
    \A i \in Callers :
        /\ pre[i].started <= starts
        /\ request[i] = "done" => served[i] > pre[i].started
        /\ pre[i].found /\ container.found /\ container.started <= pre[i].started
              => container.labels = pre[i].labels
        /\ pc[i] \in {"ready", "inspect", "restart"} => request[i] = "none"
        /\ pc[i] = "restart" \/ request[i] # "none" => Gate(i, pre[i]) /\ lane[i] # "proof"

\* What an invocation makes of the daemon's answer.
AnswerInv ==
    \A i \in Callers :
        /\ rc[i] = 0 /\ lane[i] # "proof" => request[i] = "done"
        /\ pc[i] \notin {"write", "done"} => post[i] = Absent
        /\ rc[i] = 0 /\ lane[i] # "proof" /\ post[i].found => served[i] <= post[i].started
        /\ pc[i] # "done" => receipt[i] = NoReceipt
        /\ receipt[i].passed /\ lane[i] # "proof" => rc[i] = 0
        /\ pc[i] = "done" /\ i \notin killed /\ ~receipt[i].written => request[i] = "none"

IInv == TypeOK /\ HostInv /\ SightInv /\ AnswerInv

-----------------------------------------------------------------------------
(* What inspections show.                                                   *)
LEMMA InspectionShows ==
    ASSUME container \in Containers, NEW i \in Callers, NEW sight \in Inspection(i)
    PROVE  /\ sight \in Sights
           /\ sight.found => container.found /\ sight.started = container.started
                             /\ sight.labels = container.labels
           /\ ~sight.found => sight.started = 0
<1>1. sight \in {container, Scene, Absent}
  BY DEF Inspection, InspectRemediation, InspectScene, InspectExact
<1>2. CASE sight = container
  BY <1>2, ContainerRecord, AbsentRecord
<1>3. CASE sight = Absent
  BY <1>3, AbsentRecord DEF Sights, Containers
<1>4. CASE sight = Scene
  <2>1. container \in Records
    BY ContainerRecord
  <2>2. Scene.found = container.found /\ Scene.started = container.started
        /\ Scene.labels = container.labels
    BY <2>1 DEF Scene, Records
  <2>3. Scene \in Sights
    BY DEF Scene, Sights
  <2> QED BY <1>4, <2>2, <2>3, ContainerRecord, AbsentRecord
<1> QED BY <1>1, <1>2, <1>3, <1>4

-----------------------------------------------------------------------------
LEMMA InitIInv == Init => IInv
<1> SUFFICES ASSUME Init PROVE IInv
  OBVIOUS
<1>1. HostTypeOK /\ HostInv
  BY HostBegins DEF Init
<1>2. Absent \in Sights
  BY DEF Sights, Containers
<1>3. TypeOK
  <2>1. basis \in [Callers -> Callers] /\ lane \in [Callers -> LanesRun]
    BY DEF Init
  <2>2. pre \in [Callers -> Sights] /\ post \in [Callers -> Sights]
    BY <1>2 DEF Init
  <2>3. rc \in [Callers -> Results] /\ receipt \in [Callers -> Receipts]
    BY DEF Init, Results, Receipts
  <2> QED BY <1>1, <2>1, <2>2, <2>3 DEF Init, TypeOK
<1>4. SightInv
  <2> SUFFICES ASSUME NEW i \in Callers
               PROVE  /\ pre[i].started <= starts /\ ~pre[i].found
                      /\ request[i] = "none" /\ pc[i] = "ready"
    BY DEF SightInv
  <2> QED BY AbsentRecord DEF Init, HostInit
<1>5. AnswerInv
  <2> SUFFICES ASSUME NEW i \in Callers
               PROVE  /\ rc[i] # 0 /\ post[i] = Absent /\ pc[i] = "ready"
                      /\ receipt[i] = NoReceipt /\ ~receipt[i].passed
    BY DEF AnswerInv
  <2> QED BY DEF Init, NoReceipt, Pending
<1> QED BY <1>1, <1>3, <1>4, <1>5 DEF IInv

\* A step of the daemon or of somebody else.
HostMoves == HostStep /\ UNCHANGED <<plans, invocations>>

-----------------------------------------------------------------------------
(* The host's steps leave what the invocations know true.                   *)
LEMMA HostNext == IInv /\ HostMoves => IInv'
<1> SUFFICES ASSUME IInv, HostMoves PROVE IInv'
  OBVIOUS
<1>0. /\ TypeOK /\ HostTypeOK /\ HostInv /\ SightInv /\ AnswerInv /\ HostStep
      /\ UNCHANGED <<plans, lane, basis, pc, pre, post, rc, receipt, killed>>
  BY DEF IInv, TypeOK, HostMoves, invocations
<1>1. TypeOK' /\ HostInv'
  BY <1>0, HostStepFacts DEF TypeOK
<1>2. starts \in Nat /\ starts' \in {starts, starts + 1}
  BY <1>0, HostStepFacts, StartsAssumption DEF HostTypeOK
<1>3. SightInv'
  <2> SUFFICES ASSUME NEW i \in Callers
               PROVE  /\ pre[i].started <= starts'
                      /\ request'[i] = "done" => served'[i] > pre[i].started
                      /\ pre[i].found /\ container'.found /\ container'.started <= pre[i].started
                            => container'.labels = pre[i].labels
                      /\ pc[i] \in {"ready", "inspect", "restart"} => request'[i] = "none"
                      /\ pc[i] = "restart" \/ request'[i] # "none"
                            => Gate(i, pre[i]) /\ lane[i] # "proof"
    BY <1>0 DEF SightInv, Gate, CurrentGate, RemediationGate
  <2>1. pre[i].started \in Nat
    <3>1. pre[i] \in Sights
      BY <1>0 DEF TypeOK
    <3> QED BY <3>1, SightRecord, StartsAssumption DEF Records
  <2>2. pre[i].started <= starts
    BY <1>0 DEF SightInv
  <2>3. request'[i] = "done" => served'[i] > pre[i].started
    <3>1. CASE request[i] = "done"
      BY <1>0, <3>1, HostStepFacts DEF SightInv
    <3>2. CASE request[i] # "done"
      BY <1>0, <1>2, <2>1, <2>2, <3>2, HostStepFacts
    <3> QED BY <3>1, <3>2
  <2>4. container' = container \/ (container'.found => container'.started = starts + 1)
    BY <1>0, HostStepFacts
  <2>5. request[i] = "none" <=> request'[i] = "none"
    BY <1>0, HostStepFacts
  <2> QED BY <1>0, <1>2, <2>1, <2>2, <2>3, <2>4, <2>5 DEF SightInv
<1>4. AnswerInv'
  <2> SUFFICES ASSUME NEW i \in Callers
               PROVE  /\ rc[i] = 0 /\ lane[i] # "proof" => request'[i] = "done"
                      /\ rc[i] = 0 /\ lane[i] # "proof" /\ post[i].found
                            => served'[i] <= post[i].started
                      /\ pc[i] = "done" /\ i \notin killed /\ ~receipt[i].written
                            => request'[i] = "none"
    BY <1>0 DEF AnswerInv
  <2>1. /\ request[i] = "done" => request'[i] = "done" /\ served'[i] = served[i]
        /\ request[i] = "none" <=> request'[i] = "none"
    BY <1>0, HostStepFacts
  <2> QED BY <1>0, <2>1 DEF AnswerInv
<1> QED BY <1>1, <1>3, <1>4 DEF IInv


-----------------------------------------------------------------------------
(* The invocations' own steps.                                              *)
\* Only i's own state changes, and of the host at most its request.
Own(i) == \A j \in Callers \ {i} :
    /\ pc'[j] = pc[j] /\ pre'[j] = pre[j] /\ post'[j] = post[j] /\ rc'[j] = rc[j]
    /\ receipt'[j] = receipt[j] /\ request'[j] = request[j]

Moves(i) == Step(i) \/ Kill(i) \/ (Begin(i) /\ UNCHANGED <<plans, lane, basis, killed>>)

LEMMA OwnSteps ==
    ASSUME TypeOK, NEW i \in Callers, Moves(i)
    PROVE  Own(i) /\ UNCHANGED <<container, starts, served, lane, basis>>
<1>0. /\ pc = [j \in Callers |-> pc[j]] /\ pre = [j \in Callers |-> pre[j]]
      /\ post = [j \in Callers |-> post[j]] /\ rc = [j \in Callers |-> rc[j]]
      /\ receipt = [j \in Callers |-> receipt[j]] /\ request = [j \in Callers |-> request[j]]
  BY DEF TypeOK, HostTypeOK
<1>1. CASE InspectFirst(i) /\ UNCHANGED <<plans, lane, basis, killed>>
  BY <1>0, <1>1 DEF InspectFirst, Goto, Own, host
<1>2. CASE SendRestart(i) /\ UNCHANGED <<plans, lane, basis, killed>>
  BY <1>0, <1>2 DEF SendRestart, AskRestart, Goto, Own, host
<1>3. CASE CannotStart(i) /\ UNCHANGED <<plans, lane, basis, killed>>
  BY <1>0, <1>3 DEF CannotStart, Goto, Own, host
<1>4. CASE Answer(i) /\ UNCHANGED <<plans, lane, basis, killed>>
  BY <1>0, <1>4 DEF Answer, Goto, Own, host
<1>5. CASE Timeout(i) /\ UNCHANGED <<plans, lane, basis, killed>>
  BY <1>0, <1>5 DEF Timeout, Goto, Own, host
<1>6. CASE InspectAgain(i) /\ UNCHANGED <<plans, lane, basis, killed>>
  BY <1>0, <1>6 DEF InspectAgain, Goto, Own, host
<1>7. CASE WriteReceipt(i) /\ UNCHANGED <<plans, lane, basis, killed>>
  BY <1>0, <1>7 DEF WriteReceipt, Goto, Own, host
<1>8. CASE Begin(i) /\ UNCHANGED <<plans, lane, basis, killed>>
  BY <1>0, <1>8 DEF Begin, Goto, Own, host
<1>9. CASE Kill(i)
  BY <1>0, <1>9 DEF Kill, Goto, Own, host
<1> QED
  BY <1>1, <1>2, <1>3, <1>4, <1>5, <1>6, <1>7, <1>8, <1>9 DEF Step, Moves

LEMMA TypeStep ==
    ASSUME TypeOK, NEW i \in Callers, Moves(i)
    PROVE  TypeOK'
<1> DEFINE PCs == {"ready", "inspect", "restart", "waiting", "verify", "write", "done"}
<1>0. /\ container \in Containers /\ starts \in 0..MaxStarts
      /\ request \in [Callers -> {"none", "held", "done", "failed"}]
      /\ served \in [Callers -> 0..MaxStarts]
      /\ plans \subseteq {"preflight", "plan"}
      /\ lane \in [Callers -> LanesRun] /\ basis \in [Callers -> Callers]
      /\ pc \in [Callers -> PCs]
      /\ pre \in [Callers -> Sights] /\ post \in [Callers -> Sights]
      /\ rc \in [Callers -> Results] /\ receipt \in [Callers -> Receipts]
      /\ killed \subseteq Callers
  BY DEF TypeOK, HostTypeOK
<1>1. UNCHANGED <<container, starts, served, lane, basis>>
  BY OwnSteps
<1>2. plans' = plans /\ (killed' = killed \/ killed' = killed \cup {i})
  BY DEF Moves, Step, Kill
<1>3. \A sight \in Inspection(i) : sight \in Sights
  BY <1>0, InspectionShows
<1>4. \A n \in {0, 1, 124, 127} : n \in Results
  BY DEF Results
<1>5. /\ request' \in [Callers -> {"none", "held", "done", "failed"}]
      /\ pc' \in [Callers -> PCs]
      /\ pre' \in [Callers -> Sights] /\ post' \in [Callers -> Sights]
      /\ rc' \in [Callers -> Results] /\ receipt' \in [Callers -> Receipts]
  <2>1. CASE InspectFirst(i)
    <3>1. pc' \in [Callers -> PCs] /\ pre' \in [Callers -> Sights]
      BY <1>0, <1>3, <2>1 DEF InspectFirst, Goto
    <3>2. rc' \in [Callers -> Results]
      BY <1>0, <1>4, <2>1 DEF InspectFirst
    <3> QED BY <1>0, <2>1, <3>1, <3>2 DEF InspectFirst, host
  <2>2. CASE SendRestart(i)
    BY <1>0, <2>2 DEF SendRestart, AskRestart, Goto
  <2>3. CASE CannotStart(i)
    BY <1>0, <1>4, <2>3 DEF CannotStart, Goto, host
  <2>4. CASE Answer(i)
    BY <1>0, <1>4, <2>4 DEF Answer, Goto, host
  <2>5. CASE Timeout(i)
    BY <1>0, <1>4, <2>5 DEF Timeout, Goto, host
  <2>6. CASE InspectAgain(i)
    BY <1>0, <1>3, <2>6 DEF InspectAgain, Goto, host
  <2>7. CASE WriteReceipt(i)
    <3>1. PICK changed \in Changed(i) :
             receipt' = [receipt EXCEPT ![i] =
                 [passed |-> Passed(i, changed), changed |-> changed, written |-> TRUE]]
      BY <2>7 DEF WriteReceipt
    <3>2. changed \in BOOLEAN
      BY DEF Changed, RecipeChanged, RollbackChanged, RemediationChanged, BothStarted, CountGrew
    <3>3. Passed(i, changed) \in BOOLEAN
      BY <3>2, Zenon DEF Passed, CommandOk
    <3>4. \A p, c \in BOOLEAN : [passed |-> p, changed |-> c, written |-> TRUE] \in Receipts
      BY DEF Receipts
    <3>5. receipt' \in [Callers -> Receipts]
      BY <1>0, <3>1, <3>2, <3>3, <3>4
    <3> QED BY <1>0, <2>7, <3>5 DEF WriteReceipt, Goto, host
  <2>8. CASE Begin(i)
    BY <1>0, <2>8 DEF Begin, Goto, host
  <2>9. CASE Kill(i)
    BY <1>0, <2>9 DEF Kill, Goto, host
  <2> QED BY <2>1, <2>2, <2>3, <2>4, <2>5, <2>6, <2>7, <2>8, <2>9 DEF Moves, Step
<1> QED
  BY <1>0, <1>1, <1>2, <1>5 DEF TypeOK, HostTypeOK

LEMMA HostKept ==
    ASSUME TypeOK, HostInv, SightInv, NEW i \in Callers, Moves(i)
    PROVE  /\ HostInv'
           /\ \A j \in Callers : request'[j] # request[j]
                 => pc[j] = "restart" /\ request[j] = "none" /\ request'[j] = "held"
<1>1. UNCHANGED <<container, starts, served>>
  BY OwnSteps
<1>2. \A j \in Callers : request'[j] # request[j]
         => pc[j] = "restart" /\ request[j] = "none" /\ request'[j] = "held"
  <2>1. CASE SendRestart(i)
    BY <2>1 DEF SendRestart, AskRestart, SightInv, TypeOK, HostTypeOK
  <2>2. CASE UNCHANGED request
    BY <2>2
  <2> QED
    BY <2>1, <2>2 DEF Moves, Step, InspectFirst, CannotStart, Answer, Timeout, InspectAgain,
                      WriteReceipt, Begin, Kill, host
<1> QED BY <1>1, <1>2 DEF HostInv

LEMMA SightKept ==
    ASSUME TypeOK, HostInv, SightInv, NEW i \in Callers, Moves(i)
    PROVE  SightInv'
<1> SUFFICES ASSUME NEW j \in Callers
             PROVE  /\ pre'[j].started <= starts
                    /\ request'[j] = "done" => served[j] > pre'[j].started
                    /\ pre'[j].found /\ container.found /\ container.started <= pre'[j].started
                          => container.labels = pre'[j].labels
                    /\ pc'[j] \in {"ready", "inspect", "restart"} => request'[j] = "none"
                    /\ pc'[j] = "restart" \/ request'[j] # "none"
                          => Gate(j, pre'[j]) /\ lane[j] # "proof"
  BY OwnSteps DEF SightInv, Gate, CurrentGate, RemediationGate
<1>0. /\ pc \in [Callers -> {"ready", "inspect", "restart", "waiting", "verify", "write", "done"}]
      /\ pre \in [Callers -> Sights]
      /\ request \in [Callers -> {"none", "held", "done", "failed"}]
      /\ container \in Containers
  BY DEF TypeOK, HostTypeOK
<1>1. /\ pre[j].started <= starts
      /\ request[j] = "done" => served[j] > pre[j].started
      /\ pre[j].found /\ container.found /\ container.started <= pre[j].started
            => container.labels = pre[j].labels
      /\ pc[j] \in {"ready", "inspect", "restart"} => request[j] = "none"
      /\ pc[j] = "restart" \/ request[j] # "none" => Gate(j, pre[j]) /\ lane[j] # "proof"
  BY DEF SightInv
<1>2. CASE j # i
  BY <1>1, <1>2, OwnSteps DEF Own
<1>3. CASE j = i /\ InspectFirst(i)
  <2>1. request'[i] = request[i] /\ request[i] = "none"
    BY <1>1, <1>3 DEF InspectFirst, host
  <2>2. PICK sight \in Inspection(i) :
           \/ Gate(i, sight) /\ pre'[i] = sight
              /\ pc'[i] = IF lane[i] = "proof" THEN "verify" ELSE "restart"
           \/ pc'[i] = "done" /\ pre'[i] = pre[i]
    BY <1>0, <1>3 DEF InspectFirst, Goto
  <2>3. CASE pc'[i] = "done" /\ pre'[i] = pre[i]
    BY <1>1, <1>3, <2>1, <2>3
  <2>4. CASE Gate(i, sight) /\ pre'[i] = sight
             /\ pc'[i] = IF lane[i] = "proof" THEN "verify" ELSE "restart"
    <3>1. /\ sight.found => container.found /\ sight.started = container.started
                            /\ sight.labels = container.labels
          /\ ~sight.found => sight.started = 0
      BY <1>0, InspectionShows
    <3>2. starts \in Nat
      BY StartsAssumption DEF TypeOK, HostTypeOK
    <3> QED BY <1>3, <2>1, <2>4, <3>1, <3>2 DEF HostInv
  <2> QED BY <2>2, <2>3, <2>4
<1>4. CASE j = i /\ SendRestart(i)
  BY <1>0, <1>1, <1>4 DEF SendRestart, AskRestart, Goto
<1>5. CASE j = i /\ (CannotStart(i) \/ Answer(i) \/ Timeout(i) \/ InspectAgain(i) \/ WriteReceipt(i))
  BY <1>0, <1>1, <1>5 DEF CannotStart, Answer, Timeout, InspectAgain, WriteReceipt, Goto, host
<1>6. CASE j = i /\ (Begin(i) \/ Kill(i))
  BY <1>0, <1>1, <1>6 DEF Begin, Kill, Goto, host
<1> QED BY <1>2, <1>3, <1>4, <1>5, <1>6 DEF Moves, Step

LEMMA AnswerKept ==
    ASSUME TypeOK, HostInv, SightInv, AnswerInv, NEW i \in Callers, Moves(i)
    PROVE  AnswerInv'
<1> SUFFICES ASSUME NEW j \in Callers
             PROVE  /\ rc'[j] = 0 /\ lane[j] # "proof" => request'[j] = "done"
                    /\ pc'[j] \notin {"write", "done"} => post'[j] = Absent
                    /\ rc'[j] = 0 /\ lane[j] # "proof" /\ post'[j].found
                          => served[j] <= post'[j].started
                    /\ pc'[j] # "done" => receipt'[j] = NoReceipt
                    /\ receipt'[j].passed /\ lane[j] # "proof" => rc'[j] = 0
                    /\ pc'[j] = "done" /\ j \notin killed' /\ ~receipt'[j].written
                          => request'[j] = "none"
  BY OwnSteps DEF AnswerInv
<1>0. /\ pc \in [Callers -> {"ready", "inspect", "restart", "waiting", "verify", "write", "done"}]
      /\ post \in [Callers -> Sights] /\ rc \in [Callers -> Results]
      /\ receipt \in [Callers -> Receipts]
      /\ request \in [Callers -> {"none", "held", "done", "failed"}]
      /\ container \in Containers
  BY DEF TypeOK, HostTypeOK
<1>1. /\ rc[j] = 0 /\ lane[j] # "proof" => request[j] = "done"
      /\ pc[j] \notin {"write", "done"} => post[j] = Absent
      /\ rc[j] = 0 /\ lane[j] # "proof" /\ post[j].found => served[j] <= post[j].started
      /\ pc[j] # "done" => receipt[j] = NoReceipt
      /\ receipt[j].passed /\ lane[j] # "proof" => rc[j] = 0
      /\ pc[j] = "done" /\ j \notin killed /\ ~receipt[j].written => request[j] = "none"
  BY DEF AnswerInv
<1>2. killed \subseteq killed'
  BY DEF Moves, Step, Kill
<1>3. pc[j] \in {"ready", "inspect", "restart"} => request[j] = "none"
  BY DEF SightInv
<1>4. ~NoReceipt.passed /\ ~NoReceipt.written
  BY DEF NoReceipt
<1>5. CASE j # i
  BY <1>1, <1>2, <1>5, OwnSteps DEF Own
<1>6. CASE j = i /\ InspectFirst(i)
  BY <1>0, <1>1, <1>3, <1>4, <1>6 DEF InspectFirst, Goto, host
<1>7. CASE j = i /\ SendRestart(i)
  BY <1>0, <1>1, <1>3, <1>4, <1>7 DEF SendRestart, AskRestart, Goto
<1>8. CASE j = i /\ CannotStart(i)
  BY <1>0, <1>1, <1>3, <1>4, <1>8 DEF CannotStart, Goto, host
<1>9. CASE j = i /\ Answer(i)
  <2>1. post'[i] = Absent /\ ~Absent.found
    BY <1>1, <1>9, AbsentRecord DEF Answer
  <2> QED BY <1>0, <1>1, <1>4, <1>9, <2>1 DEF Answer, Goto, host
<1>10. CASE j = i /\ Timeout(i)
  BY <1>0, <1>1, <1>4, <1>10 DEF Timeout, Goto, host
<1>11. CASE j = i /\ InspectAgain(i)
  <2>1. post'[i] \in Inspection(i)
    BY <1>0, <1>11 DEF InspectAgain
  <2>2. post'[i].found => container.found /\ post'[i].started = container.started
    BY <1>0, <2>1, InspectionShows
  <2>3. request[i] = "done" => served[i] <= starts
    BY DEF HostInv
  <2> QED
    BY <1>0, <1>1, <1>4, <1>11, <2>2, <2>3 DEF InspectAgain, Goto, HostInv, host
<1>12. CASE j = i /\ WriteReceipt(i)
  <2>1. PICK changed \in Changed(i) :
           receipt'[i] = [passed |-> Passed(i, changed), changed |-> changed, written |-> TRUE]
    BY <1>0, <1>12 DEF WriteReceipt
  <2>2. receipt'[i].written /\ (receipt'[i].passed => Passed(i, changed))
    BY <2>1
  <2>3. receipt'[i].passed /\ lane[i] # "proof" => rc[i] = 0
    BY <2>2 DEF Passed, CommandOk
  <2> QED BY <1>0, <1>1, <1>12, <2>2, <2>3 DEF WriteReceipt, Goto, host
<1>13. CASE j = i /\ Begin(i)
  BY <1>0, <1>1, <1>3, <1>4, <1>13 DEF Begin, Goto, host
<1>14. CASE j = i /\ Kill(i)
  BY <1>0, <1>1, <1>4, <1>14 DEF Kill, Goto, host
<1> QED
  BY <1>5, <1>6, <1>7, <1>8, <1>9, <1>10, <1>11, <1>12, <1>13, <1>14 DEF Moves, Step

-----------------------------------------------------------------------------
LEMMA PlansKept ==
    ASSUME IInv, SavePreflight \/ WritePlan, UNCHANGED <<host, invocations>>
    PROVE  IInv'
<1>0. /\ UNCHANGED <<container, starts, request, served>>
      /\ UNCHANGED <<lane, basis, pc, pre, post, rc, receipt, killed>>
  BY DEF host, invocations
<1>1. TypeOK'
  <2>1. plans' \subseteq {"preflight", "plan"}
    BY DEF IInv, TypeOK, SavePreflight, WritePlan
  <2> QED BY <1>0, <2>1 DEF IInv, TypeOK, HostTypeOK
<1>2. HostInv'
  BY <1>0 DEF IInv, HostInv
<1>3. SightInv'
  BY <1>0 DEF IInv, SightInv, Gate, CurrentGate, RemediationGate
<1>4. AnswerInv'
  BY <1>0 DEF IInv, AnswerInv
<1> QED BY <1>1, <1>2, <1>3, <1>4 DEF IInv

LEMMA MoveKept ==
    ASSUME IInv, NEW i \in Callers, Moves(i)
    PROVE  IInv'
<1>1. TypeOK /\ HostInv /\ SightInv /\ AnswerInv
  BY DEF IInv
<1> QED BY <1>1, TypeStep, HostKept, SightKept, AnswerKept DEF IInv

LEMMA Invariance == Spec => []IInv
<1>1. IInv /\ [Next]_vars => IInv'
  <2> SUFFICES ASSUME IInv, [Next]_vars PROVE IInv'
    OBVIOUS
  <2>1. CASE \E i \in Callers : Moves(i)
    BY <2>1, MoveKept
  <2>2. CASE (SavePreflight \/ WritePlan) /\ UNCHANGED <<host, invocations>>
    BY <2>2, PlansKept
  <2>3. CASE HostMoves
    BY <2>3, HostNext
  <2>4. CASE UNCHANGED vars
    <3>1. /\ UNCHANGED <<container, starts, request, served, plans>>
          /\ UNCHANGED <<lane, basis, pc, pre, post, rc, receipt, killed>>
      BY <2>4 DEF vars, host, invocations
    <3> QED
      BY <3>1 DEF IInv, TypeOK, HostTypeOK, HostInv, SightInv, AnswerInv, Gate, CurrentGate,
                  RemediationGate
  <2> QED BY <2>1, <2>2, <2>3, <2>4 DEF Next, Moves, HostMoves
<1> QED BY InitIInv, <1>1, PTL DEF Spec

-----------------------------------------------------------------------------
(* Every variable keeps its type, whatever the daemon and the callers do.  *)
THEOREM TypeCorrect == Spec => []TypeOK
<1>1. IInv => TypeOK
  BY DEF IInv
<1> QED BY <1>1, Invariance, PTL

(* A receipt that counts as passed (recipes verify --receipt, remediation  *)
(* verify-receipt, rollback-validate) stands for a restart by this very    *)
(* invocation: the daemon's answer 0 comes only of its own request, the    *)
(* gate was asked before and the last inspection after it.                 *)
THEOREM PassedIsOwn == Spec => []PassedMeansRestarted
<1>1. IInv => PassedMeansRestarted
  <2> SUFFICES ASSUME IInv, NEW i \in Callers, PassedOnRecord(i)
               PROVE  /\ served[i] > pre[i].started
                      /\ post[i].found => served[i] <= post[i].started
    BY DEF PassedMeansRestarted
  <2>1. receipt[i].passed /\ lane[i] # "proof"
    BY DEF PassedOnRecord, VerifyPassed, RecipeReceiptValid
  <2>2. rc[i] = 0 /\ request[i] = "done"
    BY <2>1 DEF IInv, AnswerInv
  <2> QED BY <2>1, <2>2 DEF IInv, AnswerInv, SightInv
<1> QED BY <1>1, Invariance, PTL

(* No invocation that sent a request ends without a receipt, unless it was *)
(* killed: the timeout and every answer lead to the writing of one.        *)
THEOREM RestartsAccounted == Spec => []EveryRestartAccounted
<1>1. IInv => EveryRestartAccounted
  BY DEF IInv, AnswerInv, EveryRestartAccounted
<1> QED BY <1>1, Invariance, PTL

(* Between the gate and the daemon labels can change only with the         *)
(* container: an ineligible container is restarted only if it is younger   *)
(* than the one the gate let through.                                      *)
THEOREM EligibleWhenRead == Spec => RestartedWhileEligible
<1> DEFINE Wanted(i) == IF lane[i] = "remediation" THEN RemediationEligible ELSE RecipeEligible
<1>1. ASSUME IInv, [Next]_vars, NEW i \in Callers, served[i] = 0, served'[i] # 0,
             lane[i] # "rollback"
      PROVE  container.started > pre[i].started \/ container.labels \in Wanted(i)
  <2>0. /\ TypeOK /\ HostTypeOK /\ SightInv /\ served \in [Callers -> 0..MaxStarts]
        /\ container \in Containers /\ pre[i] \in Sights /\ MaxStarts \in Nat
    BY <1>1, StartsAssumption DEF IInv, TypeOK, HostTypeOK
  <2>1. \A j \in Callers : ~Moves(j)
    BY <1>1, <2>0, OwnSteps
  <2>2. \E j \in Callers : DaemonRestarts(j)
    BY <1>1, <2>1 DEF Next, Moves, vars, host, HostStep, DaemonRefuses, SomeoneStarts, SomeoneRemoves
  <2>3. DaemonRestarts(i)
    BY <1>1, <2>0, <2>2 DEF DaemonRestarts
  <2>4. container.found /\ request[i] = "held"
    BY <2>3 DEF DaemonRestarts
  <2>5. Gate(i, pre[i]) /\ lane[i] # "proof"
    BY <2>0, <2>4 DEF SightInv
  <2>6. lane[i] \in {"recipe", "recovery", "remediation"}
    BY <1>1, <2>0, <2>5, LanesAssumption DEF TypeOK, Lanes
  <2>7. container.started \in 1..MaxStarts /\ pre[i].started \in 0..MaxStarts
        /\ (~pre[i].found => pre[i].started = 0)
    BY <2>0, <2>4, ContainerRecord, SightRecord DEF Records
  <2>8. CASE pre[i].found /\ container.started <= pre[i].started
    <3>1. container.labels = pre[i].labels
      BY <2>0, <2>4, <2>8 DEF SightInv
    <3>2. pre[i].labels \in Wanted(i)
      BY <2>5, <2>6 DEF Gate, CurrentGate, RemediationGate
    <3> QED BY <3>1, <3>2
  <2>9. CASE ~(pre[i].found /\ container.started <= pre[i].started)
    BY <2>0, <2>7, <2>9
  <2> QED BY <2>8, <2>9
<1>2. IInv /\ [Next]_vars
      => [\A i \in Callers : served[i] = 0 /\ served'[i] # 0 /\ lane[i] # "rollback" =>
            \/ container.started > pre[i].started
            \/ container.labels \in (IF lane[i] = "remediation" THEN RemediationEligible
                                     ELSE RecipeEligible)]_vars
  BY <1>1
<1> QED BY <1>2, Invariance, PTL DEF Spec, RestartedWhileEligible
-----------------------------------------------------------------------------
\* Two requests that were served brought about two different starts.
ServedApart ==
    \A i, j \in Callers : i # j /\ request[i] = "done" /\ request[j] = "done"
        => served[i] # served[j]

LEMMA ServedApartKept ==
    ASSUME IInv, ServedApart, [Next]_vars
    PROVE  ServedApart'
<1>0. /\ TypeOK /\ HostInv /\ starts \in Nat
      /\ request \in [Callers -> {"none", "held", "done", "failed"}]
      /\ served \in [Callers -> 0..MaxStarts]
  BY StartsAssumption DEF IInv, TypeOK, HostTypeOK
<1>1. ASSUME NEW k \in Callers, DaemonRestarts(k) PROVE ServedApart'
  <2>1. request' = [request EXCEPT ![k] = "done"] /\ served' = [served EXCEPT ![k] = starts + 1]
    BY <1>1 DEF DaemonRestarts
  <2>2. \A i \in Callers \ {k} :
           /\ request'[i] = request[i] /\ served'[i] = served[i]
           /\ request'[i] = "done" => served'[i] <= starts
    BY <1>0, <2>1 DEF HostInv
  <2>3. served'[k] = starts + 1
    BY <1>0, <2>1
  <2> QED BY <1>0, <2>2, <2>3 DEF ServedApart
<1>2. ASSUME NEW k \in Callers, DaemonRefuses(k) PROVE ServedApart'
  BY <1>0, <1>2 DEF DaemonRefuses, ServedApart
<1>3. ASSUME NEW i \in Callers, Moves(i) PROVE ServedApart'
  <2>1. Own(i) /\ UNCHANGED served /\ (request'[i] = request[i] \/ request'[i] # "done")
    <3>1. Own(i) /\ UNCHANGED served
      BY <1>0, <1>3, OwnSteps
    <3>2. request'[i] = request[i] \/ request'[i] # "done"
      BY <1>0, <1>3 DEF Moves, Step, Begin, Kill, InspectFirst, SendRestart, AskRestart, CannotStart, Answer,
         Timeout, InspectAgain, WriteReceipt, host
    <3> QED BY <3>1, <3>2
  <2> QED BY <2>1 DEF ServedApart, Own
<1>4. CASE UNCHANGED <<request, served>>
  BY <1>4 DEF ServedApart
<1> QED
  BY <1>1, <1>2, <1>3, <1>4 DEF Next, Moves, HostStep, SomeoneStarts, SomeoneRemoves, vars, host

(* No two receipts claim the same restart: whatever invocations ran side by  *)
(* side on the container, each that counts as passed stands for a start of   *)
(* its own, which no other receipt that counts as passed stands for.         *)
THEOREM RestartsApart ==
    Spec => [](\A i, j \in Callers :
                  i # j /\ PassedOnRecord(i) /\ PassedOnRecord(j) => served[i] # served[j])
<1> DEFINE Apart == \A i, j \in Callers :
                       i # j /\ PassedOnRecord(i) /\ PassedOnRecord(j) => served[i] # served[j]
<1>1. Init => ServedApart
  BY DEF Init, HostInit, ServedApart
<1>2. IInv /\ ServedApart /\ [Next]_vars => ServedApart'
  BY ServedApartKept
<1>3. IInv /\ ServedApart => Apart
  <2>1. IInv => \A i \in Callers : PassedOnRecord(i) => request[i] = "done"
    BY DEF IInv, AnswerInv, PassedOnRecord, VerifyPassed, RecipeReceiptValid
  <2> QED BY <2>1 DEF ServedApart
<1> QED BY <1>1, <1>2, <1>3, Invariance, PTL DEF Spec

-----------------------------------------------------------------------------
\* How many steps an invocation may still take.
StepsLeft(i) ==
    CASE pc[i] = "ready"   -> 6
      [] pc[i] = "inspect" -> 5
      [] pc[i] = "restart" -> 4
      [] pc[i] = "waiting" -> 3
      [] pc[i] = "verify"  -> 2
      [] pc[i] = "write"   -> 1
      [] OTHER             -> 0

(* An invocation takes at most six steps of its own and never returns to an  *)
(* earlier one, and nobody else, the daemon included, gives it another.      *)
THEOREM StepsRunDown ==
    Spec => [][\A i \in Callers : /\ StepsLeft(i)' <= StepsLeft(i)
                                 /\ Moves(i) => StepsLeft(i)' < StepsLeft(i)]_vars
<1> DEFINE Down(i) == /\ StepsLeft(i)' <= StepsLeft(i)
                      /\ Moves(i) => StepsLeft(i)' < StepsLeft(i)
<1>1. ASSUME IInv, Next, NEW i \in Callers PROVE Down(i)
  <2>0. TypeOK /\ pc \in [Callers -> {"ready", "inspect", "restart", "waiting", "verify", "write", "done"}]
    BY <1>1 DEF IInv, TypeOK
  <2>1. CASE Moves(i)
    <3>1. CASE Begin(i) \/ InspectFirst(i) \/ SendRestart(i) \/ CannotStart(i)
      BY <2>0, <3>1 DEF Begin, InspectFirst, SendRestart, CannotStart, Goto, StepsLeft
    <3>2. CASE Answer(i) \/ Timeout(i) \/ InspectAgain(i) \/ WriteReceipt(i)
      BY <2>0, <3>2 DEF Answer, Timeout, InspectAgain, WriteReceipt, Goto, StepsLeft
    <3>3. CASE Kill(i)
      BY <2>0, <3>3 DEF Kill, Goto, StepsLeft
    <3> QED BY <2>1, <3>1, <3>2, <3>3 DEF Moves, Step
  <2>2. CASE ~Moves(i)
    <3>1. pc'[i] = pc[i]
      <4>1. ASSUME NEW j \in Callers, Moves(j) PROVE pc'[i] = pc[i]
        BY <2>0, <2>2, <4>1, OwnSteps DEF Own
      <4>2. CASE UNCHANGED invocations
        BY <4>2 DEF invocations
      <4> QED BY <1>1, <4>1, <4>2 DEF Next, Moves
    <3>2. StepsLeft(i)' = StepsLeft(i) /\ StepsLeft(i) \in 0..6
      BY <3>1 DEF StepsLeft
    <3> QED BY <2>2, <3>2
  <2> QED BY <2>1, <2>2
<1>2. IInv /\ [Next]_vars => [\A i \in Callers : /\ StepsLeft(i)' <= StepsLeft(i)
                                                /\ Moves(i) => StepsLeft(i)' < StepsLeft(i)]_vars
  BY <1>1
<1> QED BY <1>2, Invariance, PTL DEF Spec

(* An invocation asks the daemon for a restart at most once: after a timeout, *)
(* a refusal or an answer it never sends the request again, and only the      *)
(* daemon changes what has become of it.                                      *)
THEOREM AskedOnce ==
    Spec => [][\A i \in Callers : request[i] # "none" =>
                  \/ request'[i] = request[i]
                  \/ request[i] = "held" /\ HostStep /\ request'[i] \in {"done", "failed"}]_vars
<1> DEFINE Once(i) == request[i] # "none" =>
                        \/ request'[i] = request[i]
                        \/ request[i] = "held" /\ HostStep /\ request'[i] \in {"done", "failed"}
<1>1. ASSUME IInv, Next, NEW i \in Callers PROVE Once(i)
  <2>0. /\ TypeOK /\ SightInv
        /\ request \in [Callers -> {"none", "held", "done", "failed"}]
    BY <1>1 DEF IInv, TypeOK, HostTypeOK
  <2>1. CASE Moves(i)
    <3>1. CASE SendRestart(i)
      BY <2>0, <3>1 DEF SendRestart, SightInv
    <3>2. CASE ~SendRestart(i)
      <4>1. UNCHANGED host
        BY <2>1, <3>2 DEF Moves, Step, Begin, Kill, InspectFirst, CannotStart, Answer, Timeout,
           InspectAgain, WriteReceipt
      <4> QED BY <4>1 DEF host
    <3> QED BY <3>1, <3>2
  <2>2. ASSUME NEW j \in Callers \ {i}, Moves(j) PROVE request'[i] = request[i]
    BY <2>0, <2>2, OwnSteps DEF Own
  <2>3. CASE HostStep
    BY <2>0, <2>3 DEF HostStep, DaemonRestarts, DaemonRefuses, SomeoneStarts, SomeoneRemoves
  <2>4. CASE UNCHANGED host
    BY <2>4 DEF host
  <2> QED BY <1>1, <2>1, <2>2, <2>3, <2>4 DEF Next, Moves
<1>2. IInv /\ [Next]_vars => [\A i \in Callers : Once(i)]_vars
  BY <1>1
<1> QED BY <1>2, Invariance, PTL DEF Spec
================================================================================
