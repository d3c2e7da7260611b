---------------------------- MODULE GovernedRestart ---------------------------
(***************************************************************************)
(* The disposable-restart lanes of ShellForgeAI on one container.          *)
(*                                                                         *)
(*   "recipe"       recipes execute, from a saved preflight                *)
(*   "recovery"     recipes receipt recovery-execute, from a receipt       *)
(*   "proof"        remediation execute with the proof executor            *)
(*   "remediation"  remediation execute --executor docker-disposable       *)
(*   "rollback"     remediation rollback-execute, from a receipt           *)
(*                                                                         *)
(* An invocation checks the artifact it was given, inspects the container, *)
(* restarts it, inspects it again and writes a receipt.  Every docker call *)
(* may fail, the daemon may answer late or never, the container may be     *)
(* made anew or removed between two steps and invocations may be killed.   *)
(* How receipts get to disk is in EvidenceBundles; here one is written as  *)
(* a whole.  "Mutant" marks a plausible bug of the definition after it.    *)
(***************************************************************************)
EXTENDS DockerHost, FiniteSets

CONSTANTS
    LanesRun,  \* the lanes invocations are drawn from
    MaxKills   \* bound: invocations killed

Lanes == {"recipe", "recovery", "proof", "remediation", "rollback"}

\* "governed": shellforgeai.disposable and shellforgeai.allow_restart;
\* "battle": another disposable label and shellforgeai.allow_restart.
ASSUME EligibleAssumption == LabelSets \subseteq {"governed", "battle", "none"}

ASSUME LanesAssumption == LanesRun \subseteq Lanes /\ MaxKills \in Nat

VARIABLES
    plans,    \* artifacts that await execution: "preflight", "plan"
    lane,     \* what an invocation is
    basis,    \* the invocation whose receipt it was given
    pc,       \* where it is
    pre, post,  \* what its two inspections showed
    rc,       \* what docker restart answered: 0, or why not
    receipt,  \* the receipt it wrote
    killed

invocations == <<lane, basis, pc, pre, post, rc, receipt, killed>>
vars == <<host, plans, invocations>>

NoReceipt == [passed |-> FALSE, changed |-> FALSE, written |-> FALSE]
Receipts  == [passed : BOOLEAN, changed : BOOLEAN, written : {TRUE}] \cup {NoReceipt}
Pending   == 1000
Results   == {0, 1, 124, 127, Pending}

TypeOK ==
    /\ HostTypeOK
    /\ plans \subseteq {"preflight", "plan"}
    /\ lane \in [Callers -> LanesRun]
    /\ basis \in [Callers -> Callers]
    /\ pc \in [Callers -> {"ready", "inspect", "restart", "waiting", "verify", "write", "done"}]
    /\ pre \in [Callers -> Sights] /\ post \in [Callers -> Sights]
    /\ rc \in [Callers -> Results]
    /\ receipt \in [Callers -> Receipts]
    /\ killed \subseteq Callers

Init ==
    /\ HostInit
    /\ plans = {}
    /\ lane \in [Callers -> LanesRun]
    /\ basis \in {b \in [Callers -> Callers] :
                 \A i \in Callers : lane[i] \in {"recovery", "rollback"} \/ b[i] = i}
    /\ pc = [i \in Callers |-> "ready"]
    /\ pre = [i \in Callers |-> Absent]
    /\ post = [i \in Callers |-> Absent]
    /\ rc = [i \in Callers |-> Pending]
    /\ receipt = [i \in Callers |-> NoReceipt]
    /\ killed = {}

-----------------------------------------------------------------------------
(* Labels, artifacts and receipts.                                         *)
RecipeEligible      == {"governed"}
RemediationEligible == {"governed", "battle"}

\* recipes preflight --save, ready for execution.
SavePreflight ==
    /\ container.labels \in RecipeEligible
    /\ plans' = plans \cup {"preflight"}

\* remediation plan.
WritePlan ==
    /\ container.labels \in RemediationEligible
    /\ plans' = plans \cup {"plan"}

\* recipes receipt validate: receipts of failed runs validate too.
RecipeReceiptValid(i) == lane[i] \in {"recipe", "recovery"} /\ receipt[i].written

\* verify --receipt, from what the receipt says.
VerifyPassed(i) == RecipeReceiptValid(i) /\ receipt[i].passed

\* remediation receipt validate: a proof always does; a restart that failed does
\* when the container was seen to restart all the same.
RemediationReceiptValid(i) ==
    /\ receipt[i].written
    /\ \/ lane[i] = "proof"
       \/ lane[i] = "remediation" /\ receipt[i].changed

\* remediation rollback-validate: also of the receipts rollbacks leave.
RollbackValid(i) ==
    \/ RemediationReceiptValid(i)
    \/ lane[i] = "rollback" /\ receipt[i].written /\ receipt[i].passed

Goto(i, step) == pc' = [pc EXCEPT ![i] = step]

RecipeAdmitted       == "preflight" \in plans
RecoveryAdmitted(i)  == RecipeReceiptValid(basis[i])
RemediationAdmitted  == "plan" \in plans
RollbackAdmitted(i)  == RollbackValid(basis[i])

Admitted(i) ==
    CASE lane[i] = "recipe"   -> RecipeAdmitted
      [] lane[i] = "recovery" -> RecoveryAdmitted(i)
      [] lane[i] = "rollback" -> RollbackAdmitted(i)
      [] OTHER                -> RemediationAdmitted

\* The artifact is loaded and validated; a refusal leaves nothing.
Begin(i) ==
    /\ pc[i] = "ready"
    /\ Admitted(i)
    /\ Goto(i, "inspect")
    /\ UNCHANGED <<host, pre, post, rc, receipt>>

-----------------------------------------------------------------------------
(* Inspection.                                                             *)
\* The triage scene shows labels and no start time.
Scene == [container EXCEPT !.dated = FALSE]

InspectExact       == {container, Absent}
InspectRemediation == {container, Scene, Absent}
InspectScene       == {Scene, Absent}

Inspection(i) ==
    CASE lane[i] = "remediation" -> InspectRemediation
      [] lane[i] = "proof"       -> InspectScene
      [] OTHER                   -> InspectExact

CurrentGate(sight)     == sight.found /\ sight.labels \in RecipeEligible
RemediationGate(sight) == sight.labels \in RemediationEligible

\* Mutant: the gate trusts the receipt in every lane.
GateTrusting(i, sight) == lane[i] = "recipe" => CurrentGate(sight)

\* A rollback trusts the receipt: its gate looks at nothing.
Gate(i, sight) ==
    CASE lane[i] \in {"recipe", "recovery"} -> CurrentGate(sight)
      [] lane[i] = "remediation"            -> RemediationGate(sight)
      [] OTHER                              -> TRUE

-----------------------------------------------------------------------------
InspectFirst(i) ==
    /\ pc[i] = "inspect"
    /\ \E sight \in Inspection(i) :
          \/ /\ Gate(i, sight)
             /\ pre' = [pre EXCEPT ![i] = sight]
             /\ Goto(i, IF lane[i] = "proof" THEN "verify" ELSE "restart")
          \/ /\ ~Gate(i, sight)
             /\ Goto(i, "done")
             /\ UNCHANGED pre
    /\ rc' = [rc EXCEPT ![i] = IF lane[i] = "proof" THEN 0 ELSE @]
    /\ UNCHANGED <<host, post, receipt>>

SendRestart(i) ==
    /\ pc[i] = "restart"
    /\ AskRestart(i)
    /\ Goto(i, "waiting")
    /\ UNCHANGED <<pre, post, rc, receipt>>

\* The docker client does not start: a result like any other, but for an OSError
\* of the recipe lanes other than FileNotFoundError, which ends the command.
CannotStart(i) ==
    /\ pc[i] = "restart"
    /\ \/ Goto(i, "verify") /\ rc' = [rc EXCEPT ![i] = 127]
       \/ lane[i] \in {"recipe", "recovery"} /\ Goto(i, "done") /\ UNCHANGED rc
    /\ UNCHANGED <<host, pre, post, receipt>>

Answer(i) ==
    /\ pc[i] = "waiting"
    /\ request[i] \in {"done", "failed"}
    /\ rc' = [rc EXCEPT ![i] = IF request[i] = "done" THEN 0 ELSE 1]
    /\ Goto(i, "verify")
    /\ UNCHANGED <<host, pre, post, receipt>>

\* Mutant: only recipes execute limits the wait.
TimeoutOnce(i) ==
    /\ pc[i] = "waiting"
    /\ lane[i] = "recipe"
    /\ rc' = [rc EXCEPT ![i] = 124]
    /\ Goto(i, "verify")
    /\ UNCHANGED <<host, pre, post, receipt>>

\* Mutant: the timeout is not caught.
TimeoutEscapes(i) ==
    /\ pc[i] = "waiting"
    /\ lane[i] \in {"recipe", "recovery"}
    /\ Goto(i, "done")
    /\ UNCHANGED <<host, pre, post, rc, receipt>>

\* Mutant: the child is reported by the signal that ended it.
TimeoutSignal(i) ==
    /\ pc[i] = "waiting"
    /\ lane[i] \in {"recipe", "recovery"}
    /\ rc' = [rc EXCEPT ![i] = 137]
    /\ Goto(i, "verify")
    /\ UNCHANGED <<host, pre, post, receipt>>

\* 30 seconds are over; the daemon still has the request.  The remediation lanes
\* wait without a limit.
Timeout(i) ==
    /\ pc[i] = "waiting"
    /\ lane[i] \in {"recipe", "recovery"}
    /\ rc' = [rc EXCEPT ![i] = 124]
    /\ Goto(i, "verify")
    /\ UNCHANGED <<host, pre, post, receipt>>

InspectAgain(i) ==
    /\ pc[i] = "verify"
    /\ \E sight \in Inspection(i) : post' = [post EXCEPT ![i] = sight]
    /\ Goto(i, "write")
    /\ UNCHANGED <<host, pre, rc, receipt>>

-----------------------------------------------------------------------------
(* Verification and the receipt.                                           *)
CommandOk(i) == rc[i] = 0

BothStarted(i) ==
    pre[i].dated /\ post[i].dated /\ pre[i].started # post[i].started

RecipeChanged(i) == BothStarted(i) /\ CurrentGate(post[i])

\* The scene's restart count, which the restart policy raises on its own, against
\* the one inspection that does not show it.
CountGrew(i) == IF post[i].found /\ ~post[i].dated THEN BOOLEAN ELSE {FALSE}

RemediationChanged(i) == {BothStarted(i) \/ grew : grew \in CountGrew(i)}

\* An inspection that failed counts as a start time of its own.
RollbackChanged(i) == pre[i].started # post[i].started

Changed(i) ==
    CASE lane[i] \in {"recipe", "recovery"} -> {RecipeChanged(i)}
      [] lane[i] = "rollback"               -> {RollbackChanged(i)}
      [] OTHER                              -> RemediationChanged(i)

\* Mutant: a restart that is seen is taken for the one asked for.
PassedSeen(i, changed) == lane[i] = "proof" \/ changed

Passed(i, changed) == lane[i] = "proof" \/ (CommandOk(i) /\ changed)

WriteReceipt(i) ==
    /\ pc[i] = "write"
    /\ \E changed \in Changed(i) :
          receipt' = [receipt EXCEPT ![i] =
              [passed |-> Passed(i, changed), changed |-> changed, written |-> TRUE]]
    /\ Goto(i, "done")
    /\ UNCHANGED <<host, pre, post, rc>>

Step(i) ==
    /\ \/ InspectFirst(i) \/ SendRestart(i) \/ CannotStart(i) \/ Answer(i) \/ Timeout(i)
       \/ InspectAgain(i) \/ WriteReceipt(i)
    /\ UNCHANGED <<plans, lane, basis, killed>>

\* A killed invocation leaves its request with the daemon.
Kill(i) ==
    /\ Cardinality(killed) < MaxKills
    /\ pc[i] \notin {"ready", "done"}
    /\ killed' = killed \cup {i}
    /\ Goto(i, "done")
    /\ UNCHANGED <<host, plans, lane, basis, pre, post, rc, receipt>>

Next ==
    \/ \E i \in Callers : Step(i)
    \/ \E i \in Callers : Begin(i) /\ UNCHANGED <<plans, lane, basis, killed>>
    \/ \E i \in Callers : Kill(i)
    \/ (SavePreflight \/ WritePlan) /\ UNCHANGED <<host, invocations>>
    \/ HostStep /\ UNCHANGED <<plans, invocations>>

Spec == Init /\ [][Next]_vars

-----------------------------------------------------------------------------
PassedOnRecord(i) ==
    \/ VerifyPassed(i)
    \/ lane[i] \in {"remediation", "rollback"} /\ receipt[i].passed

(* A receipt of a passed restart means that the daemon restarted the       *)
(* container for this very invocation, between its two inspections, and    *)
(* not that somebody else did.                                             *)
PassedMeansRestarted ==
    \A i \in Callers : PassedOnRecord(i) =>
        /\ served[i] > pre[i].started
        /\ post[i].found => served[i] <= post[i].started

(* In every lane but rollback the daemon restarts a container whose labels *)
(* do not allow it only if it was made anew since the invocation read      *)
(* them.                                                                   *)
RestartedWhileEligible ==
    [][\A i \in Callers : served[i] = 0 /\ served'[i] # 0 /\ lane[i] # "rollback" =>
          \/ container.started > pre[i].started
          \/ container.labels \in (IF lane[i] = "remediation" THEN RemediationEligible
                                   ELSE RecipeEligible)]_vars

(* An invocation that asked for a restart and was not killed ends with a   *)
(* receipt, whatever the daemon answered, late or never.                   *)
EveryRestartAccounted ==
    \A i \in Callers :
        pc[i] = "done" /\ request[i] # "none" /\ i \notin killed => receipt[i].written

(* The daemon cannot hold an invocation of the recipe lanes: whatever it    *)
(* does or does not do, the next step is the invocation's own.  (It has at *)
(* most six, so it ends.)                                                  *)
TimedLanesNeverStuck ==
    \A i \in Callers :
        lane[i] \in {"recipe", "recovery"} /\ pc[i] \notin {"ready", "done"} =>
            ENABLED Step(i)

(* docs/safety.md: "rollback-execute is disposable-only ... blocks         *)
(* production/unlabeled targets".                                          *)
RollbackBlocksUnlabeled ==
    \A i \in Callers :
        lane[i] = "rollback" /\ request[i] # "none" /\ pre[i].found =>
            pre[i].labels \in RemediationEligible
=============================================================================
