----------------------------- MODULE ArchiveChain -----------------------------
(***************************************************************************)
(* The Docker01 artifact archive and its source-action evidence chain,      *)
(* scripts/docker01_artifact_archive_plan.py: plan, dry-run receipt,        *)
(* copy-only archive bundle, eligibility review, source-action dry run, its *)
(* validation, review packet, decision receipt, readiness gate and status   *)
(* report.                                                                  *)
(*                                                                          *)
(* Every command reads the evidence directories the earlier ones wrote,     *)
(* works out a status and writes a directory of its own: the main document, *)
(* the documents beside it, and last a manifest and the checksums of them   *)
(* all.  A directory that is there already is rewritten in place; nothing   *)
(* is locked.  Operators follow the runbook in the same directories, go     *)
(* back to a command or skip ahead, and are killed between two writes; the  *)
(* candidates change and vanish meanwhile.                                  *)
(*                                                                          *)
(* A candidate's content stands for its size and time, which the plan id    *)
(* hashes.  What a command reads it reads in one step.                      *)
(***************************************************************************)
EXTENDS Naturals, FiniteSets

CONSTANTS
    Operators,    \* people or jobs running the commands
    Visitors,     \* bound: of them, those who run one command and leave
    Candidates,   \* the paths the discovery patterns match
    None,         \* no file, no plan id, no command left
    Torn,         \* a file being written, or whose writer was killed
    Mixed,        \* a payload two creators wrote at the same time
    MaxChanges,   \* bound: changes and removals of candidates
    MaxJumps,     \* bound: commands run out of the runbook's order
    MaxKills      \* bound: commands killed

ASSUME BoundsAssumption ==
    MaxChanges \in Nat /\ MaxJumps \in Nat /\ MaxKills \in Nat
ASSUME VisitorsAssumption == Visitors \subseteq Operators
ASSUME NamesAssumption ==
    /\ Cardinality({None, Torn, Mixed}) = 3
    /\ {None, Torn, Mixed} \cap Nat = {}
    /\ \A n \in {None, Torn, Mixed} : n \notin Nat \X Nat

Stages == {"plan", "receipt", "review", "dryrun", "validation", "packet",
           "decision", "gate", "report"}

\* The order of ARCHIVE_SOURCE_ACTION_RUNBOOK.md.
After == [plan |-> "receipt", receipt |-> "bundle", bundle |-> "review",
          review |-> "dryrun", dryrun |-> "validation", validation |-> "packet",
          packet |-> "decision", decision |-> "gate", gate |-> "report",
          report |-> None]

Commands == DOMAIN After
Versions == 1 .. MaxChanges + 1
PlanIds  == [Candidates -> {0} \cup Versions]
Levels   == {"bad", "partial", "ready"}

\* What a command works out.  level folds the statuses: "bad" is failed and
\* not_ready, "ready" each command's own word for success; worst is the worst
\* standing of a candidate; choice is the operator's decision.
Documents == [id: PlanIds \cup {None}, level: Levels, cands: SUBSET Candidates,
              worst: {"clean", "warned", "blocked"}, choice: {"none", "ready", "other"}]

\* What a copy holds: <<the version it began with, the version it ended with>>,
\* the second 0 when the candidate vanished while it was read.
Copies   == Versions \X ({0} \cup Versions)
Payloads == Copies \cup {None, Torn, Mixed}

VARIABLES
    source,    \* the candidates' current versions, 0 for a missing one
    clock,     \* the youngest version, and the changes so far
    body,      \* body[s]: the documents of stage s's directory
    sealed,    \* sealed[s]: its manifest and checksums match them
    made,      \* the archive directory has its payload directory
    payload,   \* payload[c]: the copy of c in it
    entries,   \* its manifest and checksums
    filed,     \* its archive receipt: the plan id it names
    at, pc,    \* each operator's next command and its step
    held,      \* $PLAN_ID: the plan id the operator supplies
    draft,     \* the result to be written
    todo, sums,\* a creator's candidates to copy, and the hashes it has taken
    reached,   \* history: <<s, id>>: a document of s for id with its best status was written
    jumps, kills

archive   == <<made, payload, entries, filed>>
evidence  == <<body, sealed>>
operators == <<at, pc, held, draft, todo, sums>>
world     == <<source, clock>>
budgets   == <<jumps, kills>>
vars      == <<world, evidence, archive, operators, reached, budgets>>

EntryDocuments == [id: PlanIds, cands: SUBSET Candidates, sums: [Candidates -> Payloads]]
Steps == {"idle", "validate", "make", "copy", "copying", "record", "entries", "file",
          "open", "body", "seal", "end"}

TypeOK ==
    /\ source \in PlanIds /\ clock \in Versions
    /\ body \in [Stages -> Documents \cup {None, Torn}]
    /\ sealed \in [Stages -> BOOLEAN]
    /\ \A s \in Stages : sealed[s] => body[s] \notin {None, Torn}
    /\ made \in BOOLEAN
    /\ payload \in [Candidates -> Payloads]
    /\ entries \in EntryDocuments \cup {None, Torn}
    /\ filed \in PlanIds \cup {None, Torn}
    /\ at \in [Operators -> Commands \cup {None}]
    /\ pc \in [Operators -> Steps]
    /\ held \in [Operators -> PlanIds \cup {None}]
    /\ draft \in [Operators -> Documents]
    /\ todo \in [Operators -> SUBSET Candidates]
    /\ sums \in [Operators -> [Candidates -> Payloads]]
    /\ reached \subseteq Stages \X PlanIds
    /\ jumps \in 0 .. MaxJumps /\ kills \in 0 .. MaxKills

-----------------------------------------------------------------------------
(* Reading the evidence                                                     *)

\* compute_plan_id: of the present candidates, each with its size and time.
ComputePlanId == source

CandidatesOf(id) == {c \in Candidates : id[c] # 0}

Nothing == [id |-> None, level |-> "bad", cands |-> {}, worst |-> "clean",
            choice |-> "none"]

\* _load_plan_json(...) or {}: a missing or half-written document reads as {}.
Read(s) == IF body[s] \in {None, Torn} THEN Nothing ELSE body[s]

\* _validate_output_manifest_checksums and its likes found nothing wrong.
Whole(s) == sealed[s]

\* validate_plan and validate_dry_run_receipt with the plan: the receipt's own
\* status is not looked at.
PlanValid    == Whole("plan")
ReceiptValid == PlanValid /\ Whole("receipt") /\ Read("receipt").id = Read("plan").id

Recorded == entries \notin {None, Torn} /\ filed \notin {None, Torn}

Archived == IF entries \in {None, Torn} THEN {} ELSE entries.cands

AllPresent(C) == \A c \in C : source[c] # 0

\* Mutant: a payload has to be there.
PayloadThere(c) == Recorded /\ entries.sums[c] \in Copies \cup {Mixed} /\ payload[c] # None

\* payload_ok: the payload matches the hashes taken when it was copied.
PayloadVerified(c) ==
    Recorded /\ entries.sums[c] \in Copies \cup {Mixed} /\ payload[c] = entries.sums[c]

\* manifest_ok and checksums_ok: one entry per candidate, and one plan id.
ArchiveVerified ==
    /\ Recorded /\ entries.id = filed
    /\ \A c \in entries.cands : PayloadVerified(c)

\* validate_archive_bundle with the plan and the receipt: partial when a
\* candidate is gone; the sources are not compared with their copies.
ArchiveLevel ==
    IF ~(/\ ArchiveVerified
         /\ PlanValid /\ Read("plan").id = filed
         /\ entries.cands = Read("plan").cands
         /\ ReceiptValid)
    THEN "bad" ELSE IF AllPresent(entries.cands) THEN "ready" ELSE "partial"

\* The weakest of some levels.
Weakest(L) == IF "bad" \in L THEN "bad" ELSE IF "partial" \in L THEN "partial" ELSE "ready"

Unless(good, level) == IF good THEN level ELSE "bad"

-----------------------------------------------------------------------------
(* The commands' results, from what they read and the plan id supplied      *)

Result(id, level, cands, worst, choice) ==
    [id |-> id, level |-> level, cands |-> cands, worst |-> worst, choice |-> choice]

\* build_plan
Plan == Result(ComputePlanId, "ready", CandidatesOf(ComputePlanId), "clean", "none")

\* build_dry_run_receipt: the candidates of the plan as it stands, whatever it
\* thinks of it.
Receipt(supplied) ==
    Result(Read("plan").id, Unless(PlanValid /\ supplied = Read("plan").id, "ready"),
           Read("plan").cands, "clean", "none")

\* build_archive_eligibility_review
Review == Result(Read("plan").id, ArchiveLevel, Archived, "clean", "none")

\* The worst standing of an archived candidate.
DryRunWorst ==
    IF \E c \in Archived : ~PayloadVerified(c) THEN "blocked"
    ELSE IF AllPresent(Archived) THEN "clean" ELSE "warned"

\* build_archive_source_action_dry_run: the review's document is read without
\* its checksums.
DryRun(supplied) ==
    LET sameId == \A id \in {Read("plan").id, Read("receipt").id, filed, Read("review").id} :
                      id = supplied
    IN Result(supplied, Unless(sameId, Weakest({ArchiveLevel, Read("review").level})), Archived,
              DryRunWorst, "none")

\* The archive, the plan, the receipt and the review agree with a dry run for id:
\* a partial archive or review does.
EvidenceAgrees(id) ==
    /\ ArchiveLevel # "bad" /\ ReceiptValid /\ Read("plan").id = id
    /\ Read("review").id = id /\ Read("review").level # "bad"

\* validate_archive_source_action_dry_run: the dry run's own status is not
\* looked at.
Validation ==
    LET dryrun == Read("dryrun")
    IN Result(dryrun.id, Unless(Whole("dryrun") /\ EvidenceAgrees(dryrun.id), "ready"),
              dryrun.cands, "clean", "none")

\* The worst standing of a candidate of the packet: the dry run's, and what has
\* become of the archive and the sources since.
PacketWorst(dryrun) ==
    IF dryrun.worst = "blocked" \/ ~ArchiveVerified THEN "blocked"
    ELSE IF AllPresent(dryrun.cands) THEN dryrun.worst ELSE "warned"

\* Mutant: the dry run's status is left to its validation.
PacketTrusting(supplied) ==
    LET dryrun == Read("dryrun")
        sameId == \A s \in {"dryrun", "validation", "review", "plan", "receipt"} :
                      Read(s).id = supplied
        worst  == PacketWorst(dryrun)
    IN Result(supplied, Unless(/\ Whole("validation") /\ Read("validation") = Validation
                               /\ Validation.level = "ready" /\ sameId /\ filed = supplied
                               /\ worst # "blocked",
                               IF worst = "warned" THEN "partial" ELSE "ready"),
              dryrun.cands, worst, "none")

\* build_archive_source_action_review_packet: the saved validation must be what
\* a new one finds.
Packet(supplied) ==
    LET dryrun == Read("dryrun")
        sameId == \A s \in {"dryrun", "validation", "review", "plan", "receipt"} :
                      Read(s).id = supplied
        worst  == PacketWorst(dryrun)
    IN Result(supplied, Unless(/\ Whole("validation") /\ Read("validation") = Validation
                               /\ Validation.level = "ready" /\ dryrun.level = "ready"
                               /\ sameId /\ filed = supplied /\ worst # "blocked",
                               IF worst = "warned" THEN "partial" ELSE "ready"),
              dryrun.cands, worst, "none")

\* The packet allows the operator's choice.
Allowed(packet, supplied, choice) ==
    /\ Whole("packet") /\ packet.id = supplied
    /\ choice = "ready" => packet.level = "ready"
    /\ packet.worst # "blocked"

\* build_archive_source_action_decision_receipt as the runbook calls it: partial
\* at best, and it records the choice it refuses too.
Decision(supplied, choice) ==
    LET packet == Read("packet")
    IN Result(supplied, Unless(Allowed(packet, supplied, choice), "partial"),
              packet.cands, packet.worst, choice)

\* The worst standing of a candidate decided on, with the sources looked up again.
GateWorst(decision) ==
    IF AllPresent(decision.cands) \/ decision.worst = "blocked" THEN decision.worst
    ELSE "warned"

\* build_archive_source_action_readiness_gate: the choice counts, not the status
\* of the receipt that holds it.
Gate(supplied) ==
    LET decision == Read("decision")
        packet   == Read("packet")
        sameId   == \A s \in {"decision", "packet", "dryrun", "plan", "receipt", "review"} :
                        Read(s).id = supplied
        worst    == GateWorst(decision)
    IN Result(supplied, Unless(/\ Whole("decision") /\ decision.choice = "ready"
                               /\ Whole("packet") /\ packet.level = "ready"
                               /\ Validation.level = "ready"
                               /\ sameId /\ filed = supplied
                               /\ decision.cands = packet.cands
                               /\ packet.cands = Read("dryrun").cands
                               /\ worst # "blocked",
                               Weakest({ArchiveLevel, Read("review").level,
                                        IF worst = "warned" THEN "partial" ELSE "ready"})),
              decision.cands, worst, "none")

\* The evidence handed over with a gate is that gate's.
Accompanied(gate) ==
    /\ \A s \in {"decision", "packet", "dryrun", "validation", "review"} :
          Whole(s) /\ Read(s).id = gate.id
    /\ gate.cands = Read("validation").cands

\* build_archive_source_action_status_report with all its evidence: a gate that
\* was partial may be reported ready.
Report(supplied) ==
    LET gate == Read("gate")
    IN Result(gate.id, Unless(/\ Whole("gate") /\ gate.level # "bad" /\ gate.id = supplied
                              /\ Accompanied(gate) /\ gate.worst # "blocked",
                              Weakest({ArchiveLevel,
                                       IF gate.worst = "warned" THEN "partial" ELSE "ready"})),
              gate.cands, gate.worst, "none")

\* main: the command's result before it is written.
ResultOf(s, supplied, choice) ==
    CASE s = "plan"       -> Plan
      [] s = "receipt"    -> Receipt(supplied)
      [] s = "review"     -> Review
      [] s = "dryrun"     -> DryRun(supplied)
      [] s = "validation" -> Validation
      [] s = "packet"     -> Packet(supplied)
      [] s = "decision"   -> Decision(supplied, choice)
      [] s = "gate"       -> Gate(supplied)
      [] s = "report"     -> Report(supplied)

Init ==
    /\ source \in [Candidates -> {0, 1}] /\ clock = 1
    /\ body = [s \in Stages |-> None] /\ sealed = [s \in Stages |-> FALSE]
    /\ made = FALSE /\ payload = [c \in Candidates |-> None]
    /\ entries = None /\ filed = None
    /\ at = [o \in Operators |-> IF o \in Visitors THEN None ELSE "plan"]
    /\ pc = [o \in Operators |-> "idle"]
    /\ held = [o \in Operators |-> None] /\ draft = [o \in Operators |-> Nothing]
    /\ todo = [o \in Operators |-> {}]
    /\ sums = [o \in Operators |-> [c \in Candidates |-> None]]
    /\ reached = {} /\ jumps = 0 /\ kills = 0

-----------------------------------------------------------------------------
(* Writing the evidence                                                     *)

Step(o, step) == pc' = [pc EXCEPT ![o] = step]

\* The command ends, with whatever exit code; the runbook goes on.
Finish(o) ==
    /\ Step(o, "idle")
    /\ at' = [at EXCEPT ![o] = IF o \in Visitors THEN None ELSE After[@]]

\* A command reads its evidence and works out its result.
Evaluate(o) ==
    /\ pc[o] = "idle" /\ at[o] \in Stages
    /\ \E choice \in (IF at[o] = "decision" THEN {"ready", "other"} ELSE {"none"}) :
          draft' = [draft EXCEPT ![o] = ResultOf(at[o], held[o], choice)]
    /\ Step(o, "open")
    /\ UNCHANGED <<world, evidence, archive, at, held, todo, sums, reached, budgets>>

\* write_..._outputs: the first document is opened, whatever the result was.
Open(o) ==
    /\ pc[o] = "open"
    /\ body' = [body EXCEPT ![at[o]] = Torn]
    /\ sealed' = [sealed EXCEPT ![at[o]] = FALSE]
    /\ Step(o, "body")
    /\ UNCHANGED <<world, archive, at, held, draft, todo, sums, reached, budgets>>

\* A document of s that carries the chain on.
Carries(s, d) ==
    /\ d.id # None
    /\ CASE s \in {"review", "dryrun", "validation", "packet"} -> d.level = "ready"
         [] s = "decision" -> d.choice = "ready"
         [] OTHER -> FALSE

WriteBody(o) ==
    LET s == at[o] IN
    /\ pc[o] = "body"
    /\ body' = [body EXCEPT ![s] = draft[o]]
    /\ sealed' = [sealed EXCEPT ![s] = FALSE]
    /\ reached' = reached \cup (IF Carries(s, draft[o]) THEN {<<s, draft[o].id>>} ELSE {})
    /\ Step(o, "seal")
    /\ UNCHANGED <<world, archive, at, held, draft, todo, sums, budgets>>

\* Mutant: the documents are taken for whole.
SealAnything(o) ==
    LET s == at[o] IN
    /\ pc[o] = "seal"
    /\ sealed' = [sealed EXCEPT ![s] = TRUE]
    /\ held' = [held EXCEPT ![o] = IF s = "plan" THEN draft[o].id ELSE @]
    /\ draft' = [draft EXCEPT ![o] = Nothing]
    /\ Finish(o)
    /\ UNCHANGED <<world, body, archive, todo, sums, reached, budgets>>

\* The manifest and the checksums, of the documents as they are by now.
Seal(o) ==
    LET s == at[o] IN
    /\ pc[o] = "seal"
    /\ sealed' = [sealed EXCEPT ![s] = body[s] \notin {None, Torn}]
    /\ held' = [held EXCEPT ![o] = IF s = "plan" THEN draft[o].id ELSE @]
    /\ draft' = [draft EXCEPT ![o] = Nothing]
    /\ Finish(o)
    /\ UNCHANGED <<world, body, archive, todo, sums, reached, budgets>>

-----------------------------------------------------------------------------
(* build_archive_bundle: the one command that copies                        *)

\* _safe_archive_out: a directory that holds anything is refused.
CheckArchiveOut(o) ==
    /\ pc[o] = "idle" /\ at[o] = "bundle"
    /\ IF made THEN Finish(o) ELSE Step(o, "validate") /\ UNCHANGED at
    /\ UNCHANGED <<world, evidence, archive, held, draft, todo, sums, reached, budgets>>

\* Plan, receipt, readiness, the supplied plan id and every candidate's presence.
ValidateEvidence(o) ==
    LET plan == Read("plan") IN
    /\ pc[o] = "validate"
    /\ IF ReceiptValid /\ held[o] = plan.id /\ AllPresent(plan.cands)
       THEN /\ Step(o, "make")
            /\ draft' = [draft EXCEPT ![o] = plan]
            /\ UNCHANGED at
       ELSE Finish(o) /\ UNCHANGED draft
    /\ UNCHANGED <<world, evidence, archive, held, todo, sums, reached, budgets>>

\* mkdir(exist_ok=True): the directory may have been made by now.
MakeDirectory(o) ==
    /\ pc[o] = "make"
    /\ made' = TRUE
    /\ todo' = [todo EXCEPT ![o] = draft[o].cands]
    /\ sums' = [sums EXCEPT ![o] = [c \in Candidates |-> None]]
    /\ Step(o, IF draft[o].cands = {} THEN "record" ELSE "copy")
    /\ UNCHANGED <<world, evidence, payload, entries, filed, at, held, draft, reached, budgets>>

\* The candidates are copied in the order of their paths.
First(C) == CHOOSE c \in C : TRUE

Copying(o, c) == pc[o] = "copying" /\ First(todo[o]) = c

\* _copy_candidate opens the copy, over one that is there; a candidate that is
\* gone ends the copying.  Until it is hashed, sums holds the version read.
BeginCopy(o) ==
    LET c == First(todo[o]) IN
    /\ pc[o] = "copy"
    /\ IF source[c] = 0
       THEN Step(o, "record") /\ UNCHANGED <<payload, sums>>
       ELSE /\ payload' = [payload EXCEPT ![c] = IF \E p \in Operators : Copying(p, c)
                                                 THEN Mixed ELSE Torn]
            /\ sums' = [sums EXCEPT ![o][c] = <<source[c], source[c]>>]
            /\ Step(o, "copying")
    /\ UNCHANGED <<world, evidence, made, entries, filed, at, held, draft, todo, reached,
                   budgets>>

\* The copy is complete and hashed, or its source vanished under it.  A candidate
\* that changed or lost files while it was read is copied as it was found, piece
\* by piece; a hash taken while another creator writes is worth nothing.
EndCopy(o) ==
    LET c    == First(todo[o])
        copy == IF payload[c] = Mixed THEN Mixed ELSE <<sums[o][c][1], source[c]>>
        shared == \E p \in Operators \ {o} : Copying(p, c)
    IN
    /\ pc[o] = "copying"
    /\ \/ /\ payload' = [payload EXCEPT ![c] = copy]
          /\ sums' = [sums EXCEPT ![o][c] = IF shared THEN Torn ELSE copy]
          /\ todo' = [todo EXCEPT ![o] = @ \ {c}]
          /\ Step(o, IF todo[o] = {c} THEN "record" ELSE "copy")
       \/ /\ source[c] = 0
          /\ sums' = [sums EXCEPT ![o][c] = None]
          /\ Step(o, "record")
          /\ UNCHANGED <<payload, todo>>
    /\ UNCHANGED <<world, evidence, made, entries, filed, at, held, draft, reached, budgets>>

\* The documents of the bundle, also of one that failed: opened, written, and
\* the archive receipt last.
OpenEntries(o) ==
    /\ pc[o] = "record"
    /\ entries' = Torn
    /\ Step(o, "entries")
    /\ UNCHANGED <<world, evidence, made, payload, filed, at, held, draft, todo, sums,
                   reached, budgets>>

WriteEntries(o) ==
    /\ pc[o] = "entries"
    /\ entries' = [id |-> draft[o].id, cands |-> draft[o].cands, sums |-> sums[o]]
    /\ filed' = Torn
    /\ Step(o, "file")
    /\ UNCHANGED <<world, evidence, made, payload, at, held, draft, todo, sums, reached,
                   budgets>>

FileReceipt(o) ==
    /\ pc[o] = "file"
    /\ filed' = draft[o].id
    /\ todo' = [todo EXCEPT ![o] = {}]
    /\ sums' = [sums EXCEPT ![o] = [c \in Candidates |-> None]]
    /\ draft' = [draft EXCEPT ![o] = Nothing]
    /\ Finish(o)
    /\ UNCHANGED <<world, evidence, made, payload, entries, held, reached, budgets>>

-----------------------------------------------------------------------------
(* The operators, the candidates, and the whole                             *)

\* An operator goes back, skips ahead or comes in, with the plan id of the plan found.
Jump(o, command) ==
    /\ pc[o] = "idle" /\ at[o] # command
    /\ command # "plan" => Read("plan").id # None
    /\ jumps < MaxJumps
    /\ jumps' = jumps + 1
    /\ at' = [at EXCEPT ![o] = command]
    /\ held' = [held EXCEPT ![o] = Read("plan").id]
    /\ UNCHANGED <<world, evidence, archive, pc, draft, todo, sums, reached, kills>>

\* A command dies between two writes; the operator may run it again.
Kill(o) ==
    /\ pc[o] # "idle"
    /\ kills < MaxKills
    /\ kills' = kills + 1
    /\ Step(o, "idle")
    /\ draft' = [draft EXCEPT ![o] = Nothing]
    /\ todo' = [todo EXCEPT ![o] = {}]
    /\ sums' = [sums EXCEPT ![o] = [c \in Candidates |-> None]]
    /\ UNCHANGED <<world, evidence, archive, at, held, reached, jumps>>

\* Another program writes a candidate, or removes it.
Change(c, version) ==
    /\ clock < MaxChanges + 1
    /\ source[c] # version
    /\ clock' = clock + 1
    /\ source' = [source EXCEPT ![c] = version]
    /\ UNCHANGED <<evidence, archive, operators, reached, budgets>>

Rest ==
    /\ \A o \in Operators : at[o] = None
    /\ UNCHANGED vars

Next ==
    \/ \E o \in Operators :
          \/ Evaluate(o) \/ Open(o) \/ WriteBody(o) \/ Seal(o)
          \/ CheckArchiveOut(o) \/ ValidateEvidence(o) \/ MakeDirectory(o)
          \/ BeginCopy(o) \/ EndCopy(o)
          \/ OpenEntries(o) \/ WriteEntries(o) \/ FileReceipt(o)
          \/ \E command \in Commands : Jump(o, command)
          \/ Kill(o)
    \/ \E c \in Candidates : Change(c, clock + 1) \/ Change(c, 0)
    \/ Rest

Spec == Init /\ [][Next]_vars

-----------------------------------------------------------------------------
(* What the chain promises                                                  *)

\* An archive the gate or the status report accepts holds a finished copy of
\* every candidate of the plan it names, none with a part older than that plan:
\* neither killed and racing creators, nor candidates that change or vanish, nor
\* plans made anew get an older archive accepted.  (A payload two creators wrote
\* at the same time escapes the bundle's own hashes, and the report alone does
\* not compare the plan it finds with its gate's.)
NoStaleArchive ==
    [][\A o \in Operators :
         at[o] \in {"gate", "report"} /\ pc[o] = "idle" /\ pc'[o] = "open"
         /\ draft'[o].level # "bad"
         => LET id == draft'[o].id IN
            Read("plan").id = id => \A c \in CandidatesOf(id) :
               payload[c] = Mixed \/ (payload[c] \in Copies /\ payload[c][1] >= id[c])]_vars

\* No link of the chain is skipped: a gate or a status report that is not a
\* refusal has behind it, for its plan id, a review that found everything
\* eligible, a ready dry run, a passed validation of one, a ready packet and an
\* operator's choice to go on - also those whose status it never reads, and
\* whatever was rewritten since.
EvidenceChain ==
    \A s \in {"gate", "report"} : Read(s).level # "bad" =>
        {"review", "dryrun", "validation", "packet", "decision"} \X {Read(s).id} \subseteq reached
=============================================================================
