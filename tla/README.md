# ShellForgeAI: models and proofs

ShellForgeAI is an operator tool: it collects evidence, proposes changes as
reviewable artifacts and, in a few narrowly gated lanes, changes a machine. It
is a command-line program without a server and almost without locks. What makes
it hard to test is that every lane is a sequence of file-system calls, docker
calls or waits that other invocations of the same program, other programs, I/O
failures, time-outs, kills and power losses can cut at any point. The models
here are about those sequences.

Source paths below are relative to the package, `src/src/shellforgeai`, or to
`src/scripts`; those in `PROJECT.json` are complete.

## 1. Inventory

| Component | State it keeps | Operations | What makes it correct | Module |
|---|---|---|---|---|
| Windows runtime reconciliation, `core/windows_runtime_reconcile_execution.py` | two allowlisted destination files, their parent directories, backups, temporaries, a receipt per run | re-evaluate a saved plan, create directories, back up, stage, commit, verify, compensate, write and validate receipts | never a half-written destination, nothing lost without a backup, nothing outside the saved plan, a terminal status that is true of the disk | `RuntimeReconcile` |
| Artifact publishers: change bundles (PR317), approvals (PR319), plan links, operator solutions, `core/*_artifact_persistence.py`, `core/approved_change_approval_persistence.py` | one directory per artifact under the root of its kind, private `.pending-*` directories | publish, load | write-once, whole, durable once flushed, honest results | `ArtifactPublication`, `NoReplaceStore` |
| Approval queue, `core/approvals.py` | `approvals/<status>/<id>.proposal.json` | create from a runbook or from evidence, approve, reject, cancel, archive, search, list | one copy under the decided status, none lost, creation idempotent by fingerprint | `ApprovalQueue` |
| Evidence bundles: reports, handoffs, packets, summaries, snapshots, preflights, receipts, audits and their exports; retention's prune | a directory per bundle: body, text, manifest of checksums, all written in place | save, validate, export, prune with or without archiving | what a command reports as saved, exported or archived is so | `EvidenceBundles` |
| Governed restarts: recipe execution and recovery, disposable remediation | preflights, plans, receipts; the container | inspect, `docker restart`, inspect again, write a receipt | a receipt tells what this very invocation did; an ineligible container is left alone | `DockerHost`, `GovernedRestart` |
| Lab restart and restart missions, `core/mission.py`, `core/lab_restart.py` | one mission file, rewritten by every mission command; execution receipts | prepare, status, checklist, execute, `apply --execute` | the record of an execution is true and is not lost | `DockerHost`, `RestartMission` |
| Model calls, `llm/codex.py`, `llm/lifecycle.py` | an owned child process, its pipes, its last-message file, a phase | start, wait, time out, terminate, kill, fall back | one terminal phase, no orphan, no timeout that becomes an answer, a bound | `ModelCall` |
| Docker01 artifact archive, `docker01_artifact_archive_plan.py` | nine evidence directories and an archive directory | plan, dry-run receipt, archive, review, source-action dry run, validation, packet, decision, gate, status report | no link skipped, no stale archive accepted | `ArchiveChain` |
| Reviewed-change contract chain (PR316-PR322) | none: immutable records | construct, validate, bind by hash | constructor and validator agree | - |
| Interactive shell, collectors, diagnosis, triage, tools, audit log, rendering, operator scripts | little or none | read-only, or appends | about text | - |

How they interact: a runbook from diagnosis feeds the approval queue; `apply`
reads the queue, and its guarded restart is what a mission executes; the
reviewed-change chain produces the records the publishers store, each bound to
the one before it by hash and by directory; restarts, exports and recoveries
work from the bundles earlier commands saved. All of this goes through files and
the docker daemon: there are no messages and no callbacks between the
components, and the only scheduler is the operator who starts commands. Two
commands on one data directory, or on one container, interleave freely.

What is hard, line by line, is the `hazards` list of `PROJECT.json`; every entry
names the properties that would catch it, or says why none does.

## 2. Modules

In every module an action is one file-system call, one docker call or one wait,
with the uninterruptible code around it; the local variables of a process are
functions of the process. Contents and hashes are one thing (SHA-256 is taken
to be injective). A missing file is `Absent`, `Missing`, `None` or
`NoDirectory`; a file truncated or cut short by a write is `Torn`. Faults, kills,
foreign changes, restarts, jobs and calls draw on budgets (`MaxFaults`, `MaxKills`,
`MaxCrashes`, `MaxForeign`, `MaxPowerLosses`, `MaxStarts`, `MaxJobs`, `MaxCalls`,
`MaxChanges`, `MaxJumps`), which with the sizes of the sets are the only bounds there are.
Some modules define, beside a definition, a `Mutant` of it, a plausible bug; no
specification uses one. `PROJECT.json` names, for every property of a passing
run, the mutant that breaks it, and for every definition the lines it stands for.

| Composition | |
|---|---|
| `GovernedRestart`, `RestartMission` | each EXTENDS `DockerHost`, the daemon and the container they act on |
| `ArtifactPublication` | implements `NoReplaceStore` (`Store == INSTANCE NoReplaceStore WITH ...`) |
| `...Proofs` | EXTENDS the component's module and TLAPS |
| `MC...` | EXTENDS the component's module: model values, symmetry, instances |

### RuntimeReconcile

State: `dest` and `dirs` (the disk), `tmp`, `bak`, `stray` (files the executor
keeps, keeps for good, or has forgotten), the saved plan (`planned`,
`plannedDirs`, `staged`), and per executor the phase `pc`, the files the phase
has left `todo`, what evaluation recorded (`op`, `seen`, `chain`), the prepared
records (`bakSha`, `post`), `committed`, `created`, `removed`, `clean`, `status`
and `receipt`. Actions follow the code: `Admit` (confirmation, packet and
artifact gates), `EvaluateFile`, `Gate`, `CreateDirectory`, `CreateBackup`,
`CreateTemp`, `CheckAbsent`, `Replace`, `VerifyCommit`, `PostVerify`, `Discard`,
`Restore`, `RecheckRestored`, `CheckCreated`, `UnlinkCreated`,
`RemoveDirectory`, `Conclude`, `WriteReceipt`, and `Crash` and the foreign
program from outside. Three kinds of fault stand for `OSError`s: `write` (the
call raises, possibly after a part was written), `short` (`os.write` wrote less,
whose result the code ignores), `read` (a hash or listing cannot be read).
`OperationRecordValid` and `StatusPrecedenceValid` translate the validator's
rules; the executor's record of a run is judged by them.

Left out: reparse-point and containment checks (they only refuse), validity of
the source bytes (a boolean, `staged`), tampering with backups or temporaries
by outsiders, exceptions that are not `OSError`, the safety ledger and rendering,
and the read-only `verify` command.

### ArtifactPublication and NoReplaceStore

One module for four publishers, told apart by `kind`: a behaviour is about one
kind, since each has a root of its own. State: the root, the directory under each
final name, each publisher's private directory with the state of its files
(`absent`, `torn`, `written`, `flushed`), `durable` (the entries a power loss
leaves), the platform (POSIX can flush a directory, Windows cannot), and per
publisher its target, phase, prepared count, tracked files, reason for cleaning
up, whether its cleanup could look at the directory at all (`unseen`) and result. A power loss may remove entries that were not flushed and cut
contents that were not flushed, and the whole root if it was this run's own: `fsync` of
the root flushes the names in it, and nobody flushes the root's name in the data directory
(`FlushRoot` keeps "root" out of `durable` unless it was there before); a kill loses the invocation, leaves its private
directory as an orphan and runs the publication again.

Bundles and approvals (`Strict`) account for every failure in their result. Plan
links and operator solutions go on when the private directory cannot be flushed,
and never remove a root they made; so an entry is only durable in the store when
its own directory was flushed (`final[b].synced`). An approval is published
without looking at its source bundle first; only the load after the rename does.
A solution's result has no field for a private directory left behind, and says
"blocked" when the load after the rename fails although the artifact is there for
good: the store's answer `unknown`. A plan link says it was published then.
A cleanup whose `lstat` of the private directory fails takes it for gone, whatever the
error, and answers "completed" with no residue (the last disjunct of `CleanUpTemporary`).

`NoReplaceStore` is the promise without the files: entries put at most once, at
once whole, never replaced; `durable` entries outlive a power loss; every answer
is true of the store.

Left out: the checks of artifact content before anything is written (they
refuse), symlink and reparse checks, the loader's separate verdicts (one: the
directory is the artifact, or not), and the results' safety flags (section 5).

### ApprovalQueue

State: `copy[s][x]`, the file of proposal `x` in the directory of status `s`,
with the set of decisions stamped on it; per operator the command's position
(search or listing), what it loaded and what it has to write. `Create`,
`ListDirectory`, `Draft` are the creation; `Decide`, `Search`, `Load`,
`OpenTarget`, `Write`, `Unlink` a decision; `OpenTarget` truncates because
`write_text()` does. `written`, `verdict`, `spoiled`, `misread`, `drawn` are
history. Ids are fresh by construction (they end in a random token), and one
runbook is taken to hold an option once. Left out: proposal texts, risk classes and
labels; of `apply` only the status gate is here (its restart is in
`RestartMission`); `clear_proposals` is used by tests only.

### EvidenceBundles

A `kind` of bundle is a record: the order in which its saver writes its files,
what its validator requires and parses, how it is exported, and what the
validator of the export asks. Ten kinds: operator report (`ops`), readiness
`packet`, `handoff`, session `summary`, triage `snapshot` and one saved
with details (`detailed`), recipe `preflight`, `receipt` and `recovery` receipt, receipt `audit`.
A file's content is the number of the write that made it, so a checksum is the
number the manifest recorded. Actions: `OpenFile` and `WriteFile` of a saver
(truncate, then fill); `Validate`, `CheckTarget`, `ReadManifest`,
`MakeDirectory`, `Copy` and `Fill`, `Hash`, `Seal` and `SealFill` of an exporter, whose
writes empty a file first and fill it later like the saver's, so that others read it empty
and a kill leaves it so; `Select`, `Gather`, `Archive`, `List`,
`Delete`, `RemoveDirectory` of a pruner, which skips what another took; `Kill` of an
exporter. A saver or a pruner that is killed simply takes no further step, as any may where
no fairness is assumed. A file that is deleted while an exporter has it open is written to
nobody's directory (`lost`).

Facts of the code that shape its properties: a snapshot validates before its
manifest is written, and a receipt before it is rewritten for the last time, so
an export may hold what is not the finished bundle; an export under a fixed name that
was killed is answered "already exists" without being taken for finished, and stays
until it is pruned; `prune --archive` archives one listing and deletes another; and
where a pruner deletes from a directory an exporter is at work in (`undercut`), a second
exporter makes the directory anew and the two truncate each other's files.

Left out: the hash-then-add race inside `create_archive`, the second write of a
receipt export's manifest, a snapshot export's `checksums.sha256`, schema, safety and secret checks (a file parses or does not),
and history, compare, inspect and the incident index, which only read. A
validation reads its files in one step.

### DockerHost and GovernedRestart

`DockerHost` is external: one container under the target name, with labels and the
number of its start, and one restart request per caller, which the daemon serves,
refuses or holds for as long as it likes, whether or not the caller still waits.
Others may start, remake or remove the container at any time.

`GovernedRestart` has the five lanes on it: recipe execution, recovery of a
recipe receipt, disposable proof, remediation and rollback. Each invocation
begins with an artifact (`Begin`), inspects (`InspectFirst`), sends the restart or
cannot start the command (`SendRestart`, `CannotStart`), gets an answer or times
out (`Answer`, `Timeout`; only the recipe lanes have a timeout), inspects again,
and writes a receipt. What a lane accepts - which labels, which failed inspections, which
receipt to recover from or roll back to, whether a changed start time alone is
evidence - follows its own code (`RecipeReceiptValid`, `RollbackValid`,
`Gate`, `Changed`, `Passed`). A remediation whose inspection fails falls back to the scene of
the triage; a rollback trusts the receipt it is given and goes on when an
inspection fails.

Left out: how receipts get to disk (`EvidenceBundles`; here a receipt is written
as a whole), the refusal of unexpected argument vectors, fingerprints (the identity of
what they hash), audit and lifecycle reports.

### RestartMission

A mission is a file that every mission command reads or refreshes from artifacts
and writes back (`Open` truncates, `Write` fills). `Prepare` writes it anew;
`Refresh` stands for `status`, `checklist`, and the beginning of every `execute`; a
confirmed `execute` goes on through `Check`, `GuardRefuses`, `GateRefuses`,
`GateAllows`, `Inspect`, `SendRestart`, `Answer` or `Timeout`, `Verify`,
`WriteReceipt` and `Record`; an unconfirmed one records a refusal; `apply --execute`
(`Apply`) goes through the same gate and records nothing. The proposal, its rollback
preview, the allowlist and the evidence may change between any two readings:
each reading chooses what it finds.

Left out: the Markdown copies, the compose context, the second write of a
receipt, audit events and the read-only `validate`.

### ModelCall

One call of a session after the other: `Begin`, `Spawn` or `SpawnFails`, on Windows
`SendTick` and `Sent` for the prompt's way through standard input, `Tick` while it waits, `Communicated` when the child has ended and its pipes are closed, `Expire`,
`Kill`, `Cleaned`, `GiveUp` for a child that takes too long, `Retry` with the
fallback model, `Answer`, `Interrupt` (Ctrl-C). The child (external) writes its last message,
exits with any result and lets go of its pipes whenever it likes, or never. Time is
counted in ticks and passes only while the call waits or writes. On Windows
`communicate()` writes the prompt before its timeout counts, so a child that does not read
holds the call up for as long as it likes: `late` counts the ticks of that write beyond the
timeout.

Left out: prompt building and parsing (their verdicts are choices).

### ArchiveChain

Nine evidence directories (`body`, `sealed`), the archive (`made`, `payload`,
`entries`, `filed`), the candidates' versions (`source`), and operators that follow
the runbook's order (`After`). A command reads what earlier ones wrote and works
out its document (`Evaluate`, by `ResultOf` one definition per command), then
writes it (`Open`, `WriteBody`, `Seal`); the archive command makes its directory
and copies candidate by candidate (`MakeDirectory`, `BeginCopy`, `EndCopy`,
`OpenEntries`, `WriteEntries`, `FileReceipt`). Operators jump, are joined by
visitors, and are killed; candidates change and vanish, also while they are copied.
`reached` is history: the links that carried the chain on, per plan id.

Left out: the fixture rehearsal and its audit, the stand-alone validation
outputs, `--archive-validation` (which trusts a saved validation); what one command
reads it reads in one step.

## 3. Runs

| Run | Instance | Properties |
|---|---|---|
| `rr_plan` | 3 contents, 2 failing or short writes, 1 kill, fair: 1 executor over every saved plan and every disk with 1 foreign change, or 2 executors of a fresh plan | `NoTornDestination`, `HonestOutcome`, `HalfAppliedIsConfessed`, `WithinPlanCeiling`, `SuccessReceiptValidates`, `OwnedOnce`, `ReconciledUnlessUndone`, `NoUnsavedOverwrite`, `Termination` |
| `ap_store` | 2 publishers, 2 artifacts (both symmetric), each of the 4 kinds, 2 files, both platforms, 1 fault, 1 kill, 1 power loss | `StoreImplemented`, `ResidueConfessed`, `LoserFindsBundle` |
| `aq_lone` | 1 operator, 3 proposals (two of one content), 4 commands, 2 faults, 1 kill | `NeverLost`, `IdempotentCreation`, `OneCopyUnderVerdict` |
| `eb_store` | 1 bundle of each of the 10 kinds, 2 exporters, 2 pruners (each symmetric) on one exporter's directory, 3 of these 4 started, 1 kill of an exporter | `SavedBundleValidates`, `AnsweredExportIsSound`, `SoundExportHoldsSource`, `UnracedPruneArchives` |
| `gr_lanes` | 2 invocations (symmetric) of any of the 5 lanes, 3 label sets, 3 starts, 1 kill | `PassedMeansRestarted`, `EveryRestartAccounted`, `RestartedWhileEligible`, `TimedLanesNeverStuck` |
| `rm_mission` | 2 invocations of any command, 2 starts, 1 kill, fair | `RecordedRestartHappened`, `ResultLostOnlyByRaceOrCut`, `MissionCommandsEnd` |
| `mc_call` | 2 calls of 2 attempts, both platforms, a timeout of 3 ticks, a grace of 2, 2 late ticks | `HonestAnswer`, `ChildEndedOrReported`, `CallBounded`, `OneTerminalPhase` |
| `ac_chain` | 1 operator and a visitor with one command, 2 candidates, 1 change, 1 jump, 1 kill | `EvidenceChain`, `NoStaleArchive` |

Every passing run also checks its module's type invariant. The four remaining runs are
findings (below).

Why the bounds are enough.

- *Executors, publishers, exporters, callers: two.* The code's races are between a
  reader's check and another's step; nothing counts participants. Where a
  property is proved (section 4), it is proved for any number.
- *Contents: three in `rr_plan`* - the source, what the plan saw, and a third that
  tells a concurrent change from both. Its two halves share one specification: an
  executor that is "crashed" from the start never runs, and other programs act only beside a
  single executor. Two executors start on a plan that changes both files, found as it left
  them, since a third content could not appear. Reads do not fail here: what they then
  break is `rr_recovery_finding`, and the properties of two executors are proved with
  failing reads (section 4).
- *Faults: two* cover a failure and a failure of its compensation or cleanup, the longest
  chain the code handles; `ap_store` needs one, since its cleanup path never retries.
- *Files of an artifact: two instead of four.* Every step treats them alike; two
  tell first from last and done from remaining.
- *One power loss* restarts everyone, so a second one meets no new state.
- *Four queue commands* make a creation, a second creation of the same content and
  two decisions of one proposal.
- *Three of two exporters and two pruners in `eb_store`* meet in every pair; two pruners are started
  only on the kinds that look at their bundle first. All four at once would add only combinations
  of these; the proofs have any number.
- *Two late ticks* let one attempt be late twice or both attempts once.
- *Kinds exported in `eb_store`*: exporters are not started on recovery receipts,
  which are exported as receipts are, with two files more; preflights and audits
  are never exported. All three are saved and validated.
- *Three starts* are the first one, the invocation's and somebody else's, in any order.
- *Timeout 3 and grace 2* differ, so that no bound holds by coincidence; two calls show that
  a failed session starts no more.
- *One jump and a visitor*: an operator goes back or ahead once while another command
  runs beside. Two candidates tell a missing copy from a stale one.

Deadlock is checked where the system has an explicit `Rest` step (`rr_*`,
`ap_store`, `ac_chain`). `aq_*`, `eb_store`, `gr_*`, `rm_mission` and `mc_call` really
stop when the commands are used up, so their configurations say
`CHECK_DEADLOCK FALSE`; `TimedLanesNeverStuck`, `MissionCommandsEnd` and
`CallBounded` ask there what deadlock checking cannot.

Fairness. `rr_plan` assumes weak fairness of the executor's `Step`: it is a
sequential process without waits, which the operating system runs unless it is
killed. `Termination` then holds because every phase works off a finite list.
`rm_mission` assumes weak fairness of each invocation's own steps, among them the
timeout: the commands run under `SubprocessExecutor` with a limit of 30 s
(`core/lab_restart.py`), so `Timeout` comes whatever the daemon does. Nothing is assumed of the
daemon, of other programs or of faults. `TimedLanesNeverStuck` uses ENABLED instead of
fairness: whatever the daemon does, the recipe lanes' next step is their own.
`mc_call` needs none, since `CallBounded` counts ticks.

What the conditions in the properties are about:

- `HonestOutcome`, `HalfAppliedIsConfessed` and `SuccessReceiptValidates` speak of an executor
  while nobody else, program or executor, has changed a file (`Undisturbed`): a file changed
  after its evaluation is overwritten, and when it changed before its backup the receipt is one
  the validator refuses, because the backup is not what the evaluation saw.
- `OwnedOnce`, `ReconciledUnlessUndone` and `NoUnsavedOverwrite` speak of the executors of one plan,
  as long as no other program has acted.
- `StoreImplemented` lets a power loss take a flushed entry beneath a root that this
  run made; beneath an older one a flushed entry stays.
- `ResidueConfessed` excepts solutions, whose result has no field for it, and a cleanup that could
  not look at the directory.
- `aq_lone` is about one operator at a time: with two, a proposal can be lost
  (`aq_lost_finding`).
- `AnsweredExportIsSound` leaves out an exporter whose directory a pruner
  deleted from; `SoundExportHoldsSource` leaves out snapshots and receipts; and both leave out a
  name a pruner deleted from while any exporter was at work in it. Without that last exception
  TLC finds, for the first, an exporter that hashes the file another has just emptied, and, for the
  second, an export that validates with an empty file because its other exporter was killed
  after truncating it.
- `HonestAnswer` takes the program's output for an answer where there is no last message, as the
  code does; `mc_capture_finding` shows the disagreement.
- `CallBounded` sets the late ticks of a Windows write apart instead of bounding them.
- `NoStaleArchive` leaves out payloads two creators wrote at once, which the
  bundle's hashes cannot tell, and a status report that finds a plan other than its gate's.
- `ResultLostOnlyByRaceOrCut` says what loses the record of an execution: a write from a stale
  reading, and a write, also a refresh's, that is killed between emptying the file and
  filling it. Both do lose it.

### What the code does that a document says otherwise

Each of these runs checks one property that quotes a document, and TLC finds
the behaviour that contradicts it.

- `rr_recovery_finding`: `_remove_created` takes an unreadable file for one that
  is gone, and the run reports a complete compensation
  (`docs/safety.md:1135`: incomplete recovery is reported honestly).
- `aq_lost_finding`: approving a rejected proposal while another operator
  rejects the copy just written leaves no copy at all, without any fault
  (`docs/safety.md:218`: decisions only update metadata).
- `gr_rollback_finding`: `remediation rollback-execute` restarts whatever
  container has the name now, labelled or not, because it only reads the flags of
  the receipt (`docs/safety.md:1060`: blocks production/unlabeled targets).
- `mc_capture_finding`: an exit code 0 without a last-message file, or with an empty one,
  is answered with what the program wrote to its output or error stream
  (`docs/codex-integration.md:190`: both fail the invocation).

### Said otherwise by a document, in the models, without a run of their own

The models behave as the code does here, and the properties named except the case openly; the
finding would be the property without its exception.

- A private directory whose `lstat` fails is left and not named (`ResidueConfessed`;
  `docs/APPROVED_CHANGE_ARTIFACT_PERSISTENCE.md:211`: an incomplete cleanup is said explicitly).
- A status or checklist refresh can erase the record of an execution, by a stale write or when it is
  killed in its own (`ResultLostOnlyByRaceOrCut`; the docstring at `core/mission.py:585-588`: must never).
- A model call can take longer than its timeout (`CallBounded`; `docs/model-providers.md:97` calls the
  timeout the end-to-end deadline of a provider call, and `docs/codex-integration.md:233` counts the
  delivery of the prompt and the cleanup in): the fallback gets a full timeout of its own, cleaning up adds two graces,
  and on Windows the write of the prompt is bounded by nothing.

### Seen while modelling, without a run

Reconciler. A commit whose hash cannot be read back is recorded without a
post-change hash, and the receipt of that compensated run does not pass the
validator (`docs/VALIDATION_MATRIX.md:797`: every status validates). A file changed
after the evaluation is replaced (`docs/WINDOWS_POWERSHELL_V1.md:253`: blocks on a
third hash); the old bytes survive only if the change came before the backup.

Publishers. An approval published against a missing source bundle is on disk for
good and answered `published_verification_failed`, and publishing it again is
`publication_blocked`. A plan link whose publication raised says
`cleanup_status` "completed" while its error text admits what is left.

Approval queue. A rejection returns although the approved copy could not be
unlinked; the search prefers that copy, so `apply` accepts the proposal
(`docs/safety.md:207`: rejected proposals fail preflight). A decision cut off in
`write_text()` leaves a torn copy, and if it lies in `approved/` the search finds it
before any good copy and every later decision on that proposal fails. Two creations
at the same time can put one fingerprint on file twice.

Missions. A mission file found torn when the result is to be recorded
loses it (the receipt stays). `prepare` rewrites an executed mission, and an
unconfirmed or not ready `execute` overwrites "executed" by "refused"; a failed or refused
mission stays so until it is prepared anew. The gate does not read the proposal
snapshot again. A restart that timed out is recorded as failed although the daemon may
still carry it out.

Restarts. The remediation and rollback lanes have no timeout. Receipts of a failed or timed-out
recipe validate. A proof receipt, which never restarted anything, can be rolled back.

Model calls. A fallback's timeout drops
the report of its cleanup. A missing binary leaves a phase that is not terminal; an exit
code 0 with no text ends "completed" although the response is not ok; Ctrl-C leaves
the child running.

Archive chain. The gate may be ready on a decision whose own status is not ready,
since the choice is recorded also when it is refused (the runbook, line 105, says the
operator should stop); the decision receipt, as the runbook calls it, is always
"partial". Sources are rechecked for existence only. The eligibility review is
read without its checksums. The directory of a killed archive command is refused for ever.

## 4. Proofs

Each proof module proves its theorems for every value of the component's
constants that satisfies the named assumptions of its module (bounds are natural
numbers, sentinels differ from data, label sets and kinds are among the known ones):
any number of participants, any budget of faults, kills and changes.

All follow one scheme. `IInv` (`BundleInv` of the bundles) is the inductive invariant; `InitIInv` (or `InvInit`) and
one step lemma per action, with a step per part of `IInv`, show `Init => IInv` and
`IInv /\ [Next]_vars => IInv'`; the theorem combines them by PTL. `IInv` was checked by TLC as an
invariant of the component's run before it was proved.

**RuntimeReconcileProofs**: `TypeCorrect`, `NeverTorn` (`NoTornDestination`),
`PreparedFirst` (`AllPreparedBeforeCommit`). That a destination is never torn
rests on what an executor may put there: a temporary that was hashed, or a backup
that was. So `IInv` says, per executor and phase, what preparation has
achieved: `PreparingInv` (files done so far have their verified temporary and
backup), `CommittingInv` (all of them have, until committed), `CompensatingInv` (a
replacement under compensation has its verified backup). Nobody else disturbs this:
temporaries and backups are private, so a step of another executor, a crash of it
or a foreign change leaves it alone (`PrivateFrame`, `StepIsPrivate`,
`InvEnvironment`).

On top of `IInv` come invariants for fewer and fewer actors:

- *Any executors, any other programs.* `RunInv` says per executor what it was granted
  (`GrantInv`), what it has done within that (`DoneInv`), what each phase has left
  (`WorkInv`), and what its status and its receipt's hashes are worth (`StatusInv`,
  `RecordInv`). `WithinCeiling` (`WithinPlanCeiling`) follows. It too is private:
  `StepLeavesOthers`, `RunFrame`.
- *Any executors, no other program so far* (`foreign = 0`). `DirsInv`: a directory
  an executor still owns exists, and `mkdir` refuses an existing one, so it has one owner.
  `FilesInv`: a file committed or found reconciled stays so until undone, and a file
  that is to be created, or has a whole backup, is saved. `OwnsAlone`
  (`OwnedOnce`), `StaysReconciled` (`ReconciledUnlessUndone`) and, about
  steps, `OverwritesAreSaved` (`NoUnsavedOverwrite`) follow, with faults of every kind.
- *One executor* (`Executors = {e}`), undisturbed so far. `AloneInv`: an uncommitted file that passed its
  gates is as it was seen, and a verified backup holds what was seen. `ReceiptsValidate`
  (`SuccessReceiptValidates`) follows, with faults of every kind.
- *One executor that can read every file* (`"read" \notin FaultKinds`). `TruthInv` adds that also a
  blocked file was seen as it is (`SightInv`), where compensation stands with each
  file and directory (`RecoveryInv`) and that every directory made is remembered (`OwnInv`).
  `StatusIsHonest` (`HonestOutcome`) and `HalfAppliedConfessed` (`HalfAppliedIsConfessed`)
  follow.

That reads succeed is needed: TLC refutes `HonestOutcome` and `HalfAppliedIsConfessed` with read
faults, since a created file whose hash cannot be read counts as removed (`rr_recovery_finding`).
With one executor `Undisturbed` says only that no other program has acted; beside a second one that
has changed nothing these three properties are checked (`rr_plan`) and not proved.

What safety says of `Termination` is proved for any executors, faults, kills and other programs.
`StepsLeft` counts, phase by phase, what an executor may still do; `StepsRunDown` says that it is
at most 25, that every step of its own lowers it and that nobody else's raises it: no
race and no fault sends an executor round a loop. `AlwaysAWay` (`NeverStuck`) says that an executor that
has not ended always has a step that needs no fault: the guards of some action of its phase
(`MayStep`) hold, also where it reads what others may have changed. Both together: it ends if it is run.

**ArtifactPublicationProofs**: `TypeCorrect`, `ImplementsStore` (`StoreImplemented`),
`ResidueNamed` (`ResidueConfessed`), `LoserFinds` (`LoserFindsBundle`). `IInv` has
`FinalInv` (nothing under a final name is half flushed; only what is there is
durable) and per publisher `Prepared` (its private directory, phase by phase),
`Tracked` (what it will unlink), `Met` (what stands under its final name once it found
nothing there: still nothing, or a whole artifact) and `Returned` (what its result is
true of). The frame: a step changes its own publisher's state alone (`StepAlone`) and, under
final names, only adds (`StepAdds`, `RenameWhole`, `OthersKept`). For the refinement,
`StepShape` splits the steps: `Rename` is `Put`, `FlushRoot` is `Sync`, a return is
`Answer`, `Kill` is `Die`, `PowerLoss` is `PowerLoss`, and all others stutter.

On top of it, `NothingReplaced`: an entry is changed by a power loss alone, and one whose
directory and whose name in the root were flushed, beneath a root that is itself on disk, not even
by that. And `FlushedForGood`, what the field `publication_root_flush_status` of a result is worth
beneath a root that was there before (the premise `root` of the theorem): where it says "passed" the
entry is on disk, whole if the publisher is strict, through all that may follow, and no
other publisher of the artifact can say the same. Beneath a root a publisher made it is not
worth that. `RootInv` (`RootKept`) carries the premise: such a root stays on disk and is nobody's to remove. `HoldInv` carries it: from its rename on,
what a publisher holds nobody else holds (`HeldApart`), because the rename found nothing there.
A publisher that is not strict goes on when the flush of its own directory fails, so of
it only the entry is claimed, not its files.

**ApprovalQueueProofs**: for any operators `TypeCorrect`, `VerdictsStamped` and `PendingOnce`; `NothingLost` (`NeverLost`),
`FiledOnce` (`IdempotentCreation`) and `OneCopyLeft` (`OneCopyUnderVerdict`) for one
operator at a time (`Operators = {o}`): with two they are false, as `aq_lost_finding` and the
note on double creation show. `LoneInv` has `DecisionInv` (the source is kept until the target
is written whole), `CreationInv` (drafts are fresh, one per fingerprint, and the listing knows
what is on file) and `FileInv` (what is on file at all).

Racing operators may lose a proposal, but they cannot make up a verdict. `VerdictsStamped`: a file
carries the decision of the directory it lies in, so what passes the preflight of `apply` was on file
and was approved by a decision to approve it. `PendingOnce`: a proposal is filed as pending once,
without a verdict, and never comes back. `ManyInv` has `MakerInv` (drafts are fresh, so no two operators
write one, nor one that is on file) and `StampInv` (what each operator is about to write bears the
new status, or none if it is a creation's).

**GovernedRestartProofs**: `TypeCorrect`, `PassedIsOwn` (`PassedMeansRestarted`),
`RestartsAccounted` (`EveryRestartAccounted`), `EligibleWhenRead`
(`RestartedWhileEligible`). Starts are numbered, so "between its two inspections" is an
inequality: `HostInv` keeps starts in order, `SightInv` says that an invocation
sees nothing younger than the container and sees it as it was, `AnswerInv` says what it
makes of the daemon's answer. Three more: `RestartsApart`, no two receipts that count as
passed claim the same restart (`ServedApart`: the daemon serves each request by a start of its
own); `AskedOnce`, an invocation asks the daemon at most once; and `StepsRunDown`, it has at most six steps
and nobody adds one.

**ModelCallProofs**: `TypeCorrect`, `AnswersHonest` (`HonestAnswer`), `NoChildLeft`
(`ChildEndedOrReported`), `AlwaysBounded` (`CallBounded`), `TerminalOnce`
(`OneTerminalPhase`). `IInv` ties the place of the call to what the children of both
attempts have done (`UnderWay`, `ChildInv`, `SignalInv`) and to the time spent before
and in this wait (`ClockInv`), the late part of a Windows write apart: `AlwaysBounded` bounds a call
on POSIX, and on Windows all of it but that write.

**ArchiveChainProofs**: `TypeCorrect`, `NoLinkSkipped` (`EvidenceChain`),
`ArchiveIsFresh` (`NoStaleArchive`). A document is trusted for what it says of the
chain, so `ChainInv` says of every document, from the moment it was worked out, that what it
claims was reached (`Backed`); a copy is trusted for its hash, so `FreshInv` says of every
hash, from the moment it was taken, that the copy is not older than the plan
(`Current`, `NotOlder`). `StepInv` ties commands to their steps.

**RestartMissionProofs**: `TypeCorrect`, `RecordsTrue` (`RecordedRestartHappened`),
`ResultsKept` (`ResultLostOnlyByRaceOrCut`). A result travels from the gate's
receipt through a draft into the mission file and from there, by every refresh, into
other drafts. `ResultInv` says that wherever a result is, it is `Vouched` for by what its
invocation and the daemon did, and `Settled` that nothing a receipt names changes later. `WriterInv`
says that a mission nobody raced for has one writer at a time and that a `fresh` view of it
holds what was recorded last; `DraftInv`, that what is about to be written is a
mission, so that only a write in progress or one that was killed leaves the file torn. `ExecutionsApart` (`MissionsApart`): a mission names only an execution of its own, a
confirmed one, so no two missions claim the same execution, nor the same restart. `OriginInv`
follows a result back through drafts and refreshes to the command that made it. `StepsRunDown`: a
mission command has at most 12 steps and nobody adds one. What both restart models need of the daemon (`HostInv` and
the facts of one container's record) opens this module and `GovernedRestartProofs` alike.

**EvidenceBundlesProofs**: `BundleTypes` (`TypeOK`), `FinishedBundlesValidate`
(`SavedBundleValidates`), `AnsweredExports` (`AnsweredExportIsSound`), `SoundExports`
(`SoundExportHoldsSource`), `PruningArchives` (`UnracedPruneArchives`), for any number of
bundles of any kinds, exporters, pruners and kills. The table of kinds is read off row by
row (`SavedRows`, `ExportedRows`); from there on the proof only uses what the rows have in
common. `WriteInv` says that a file holds what its saver last wrote to it or is torn, so
the last manifest, which is the last write, names the final files. Nobody holds a lock, and the
invariant says what each may rely on instead: `SourceInv`, that what an exporter found in its
bundle stays so (a finished bundle does not change, the body of a bundle exported under its name is
written once); `WorkInv`, that, unless a pruner undercut the name, an exporter at work in a directory
is alone in it (`Alone`: `mkdir()` has one winner) and what it copied and hashed is there (`Holds`), the
file it has open apart; `StoreInv`, that the checksums of a sealed export of a kind that looks first are
those of its finished bundle; `AnsweredInv`, that an export that was answered with validates and nobody
is at work in it. That an exporter is alone is what keeps the truncations of two apart, and it holds
until a pruner deletes under that name: hence the exception of `undercut` names in both properties. `PruneInv` says that what is still there has been archived or
is on the list to be, whatever other pruners take meanwhile. Assumed of the constants: fresh export names are no
bundle's (`NamesAssumption`: the code draws them from a clock and a random token), and the
two markers are none of the values they are told from (`TornAssumption`, `DirectoryAssumption`).

Every type invariant, safety invariant and action property of the passing runs is stated by
a theorem above, some of `RuntimeReconcile`'s under the hypotheses given with them, without
which TLC refutes them. Only model-checked, because out of the prover's reach: `Termination`
and `MissionCommandsEnd` (liveness under fairness) and `TimedLanesNeverStuck`
(ENABLED). What is left to TLC of them is that a step is taken (fairness) or can be (ENABLED): that the steps of
an invocation are bounded is proved for every instance of all three (`StepsRunDown`), and of
`RuntimeReconcile` also that there is always one (`AlwaysAWay`). These and the other theorems without
a run (`PreparedFirst`, `RestartsApart`, `AskedOnce`, `ExecutionsApart`, `VerdictsStamped`, `PendingOnce`,
`FlushedForGood`, `NothingReplaced`) state more than the runs check; TLC found them, or the
invariants they rest on, true on the runs' small instances before they were proved.
The four findings are counterexamples and have nothing to prove.

## 5. Not modelled, and limits

- The reviewed-change contract chain (PR316-PR322): pure constructors and validators of
  immutable records. It has no state and no order of steps; whether a
  constructor and its validator agree field by field is what its unit tests enumerate. What it
  hands over is in the model: the artifact with its identity and its bound source.
- Interactive shell, collectors, diagnosis, triage ranking, read-only tools, audit
  log, policy texts, rendering and the command line: they read, word and print. The largest
  file, `cli.py`, is argument parsing and rendering around the components; of
  it the restart, remediation and rollback commands are modelled.
- The Docker01 and Windows acceptance and reporting scripts: sequences of commands whose
  output they save. The archive script is the one among them that has state others rely
  on, and it is modelled.
- The results' safety flags of the publishers. By reading: a publisher that created its
  root and then could not create its private directory returns the defaults of a
  refusal before any write, `read_only` among them
  (`docs/APPROVED_CHANGE_ARTIFACT_PERSISTENCE.md:252`: reported truthfully).
- Limits of the abstraction: contents are atoms, so nothing is said about formats; what
  one function reads without writing in between is usually one step; hashes do not
  collide; clocks are absent but for `ModelCall`'s ticks.

These parts are most of the program's lines. They are left out because a state machine of them would
restate their text, not because they are thought correct.
