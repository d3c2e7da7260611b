--------------------------- MODULE RuntimeReconcile ---------------------------
(***************************************************************************)
(* The governed two-file Windows runtime reconciliation executor (PR313),  *)
(* src/src/shellforgeai/core/windows_runtime_reconcile_execution.py.       *)
(*                                                                         *)
(* An executor is one run of the script.  It re-evaluates a saved plan     *)
(* against the current files, creates missing parent directories, takes    *)
(* verified backups and temporary files for every file it will change,     *)
(* commits them one by one with os.replace(), verifies, and on a failure   *)
(* compensates what it committed itself.  No lock protects the files: the  *)
(* executors of one plan and any other program (the foreign writer) step   *)
(* between any two of its file-system calls.  File-system calls may fail   *)
(* and an executor may die at any point.                                   *)
(*                                                                         *)
(* Contents stand for byte strings and for their SHA-256 (taken to be      *)
(* injective); Absent stands for a missing file and for the None that      *)
(* _sha256_file returns, Torn for an incompletely written file.            *)
(*                                                                         *)
(* A definition marked "Mutant" is a plausible bug of the one after it and *)
(* is not part of the specification; it shows that a property can fail.    *)
(***************************************************************************)
EXTENDS Naturals

CONSTANTS
    Executors,   \* runs of the execution script against one saved plan
    Contents,    \* complete byte contents a destination can have
    Source,      \* Source[f]: the staged source the plan was made for
    Absent,      \* no file; also a hash that could not be read
    Torn,        \* the content of a file whose write was cut short
    FaultKinds,  \* which I/O faults the environment produces
    MaxFaults,   \* bound: I/O faults in one behaviour
    MaxForeign,  \* bound: changes made by other programs
    MaxCrashes   \* bound: executors killed

Files == {"profile", "wrapper"}      \* ALLOWLIST destinations, in this order
Dirs  == {"config", "profiles", "bin"}
Parent == [f \in Files |-> IF f = "profile" THEN "profiles" ELSE "bin"]
AllFaults == {"write", "short", "read"}

ASSUME ContentsAssumption ==
    /\ Source \in [Files -> Contents]
    /\ Absent \notin Contents
    /\ Torn \notin Contents
    /\ Absent # Torn
ASSUME BoundsAssumption ==
    /\ FaultKinds \subseteq AllFaults
    /\ MaxFaults \in Nat /\ MaxForeign \in Nat /\ MaxCrashes \in Nat

VARIABLES
    \* the file system
    dest,        \* [Files -> content]: the two destinations
    dirs,        \* the directories that exist under the runtime root
    tmp,         \* tmp[e][f]: e's temporary file for f, while e remembers it
    bak,         \* bak[e][f]: e's backup file for f (never removed)
    stray,       \* files beside which a forgotten partial or temporary file lies
    \* the saved plan, fixed while the executors run
    planned,     \* existing_destination_sha256 of each saved operation
    plannedDirs, \* the directories present when the plan was made
    staged,      \* staged[f]: the staged source is valid and has the planned hash
    \* each executor
    pc, todo,    \* its phase, and the files or directories the phase has left
    op, seen,    \* revalidated_operation and current_destination_sha256
    chain,       \* revalidated_creation_chain
    bakSha,      \* backup_sha256: what the written backup hashed to
    post,        \* post_change_sha256
    committed, created, removed,  \* files committed, directories made / removed
    clean,       \* no incomplete compensation, no failed post-verification
    status, receipt,
    \* history and budgets
    touched,     \* files and directories the executor really changed
    undone,      \* files some executor restored or removed again
    faults, foreign, crashes

fs      == <<dest, dirs, tmp, bak, stray>>
plan    == <<planned, plannedDirs, staged>>
control == <<pc, todo>>
memory  == <<op, seen, chain, bakSha, post, committed, created, removed, clean>>
outcome == <<status, receipt>>
budgets == <<faults, foreign, crashes>>
history == <<touched, undone>>
vars    == <<fs, plan, control, memory, outcome, history, budgets>>

Stored     == Contents \cup {Absent, Torn}
Operations == {"create_required", "replace_required", "no_change", "blocked"}
Statuses   == {"none", "blocked", "no_change", "executed", "partial_executed",
               "verification_failed", "failed_compensated",
               "failed_compensation_incomplete"}
Phases     == {"start", "evaluate", "gate", "mkdir", "prepare", "commit", "replace",
               "verify", "postverify", "discard", "compensate", "recheck", "unlink",
               "rmdir", "receipt", "done", "raised", "crashed"}
Stopped    == {"done", "raised", "crashed"}

FileSystemTypeOK ==
    /\ dest \in [Files -> Stored]
    /\ dirs \in SUBSET Dirs
    /\ tmp \in [Executors -> [Files -> Stored]]
    /\ bak \in [Executors -> [Files -> Stored]]
    /\ stray \in SUBSET Files

PlanTypeOK ==
    /\ planned \in [Files -> Contents \cup {Absent}]
    /\ plannedDirs \in SUBSET Dirs
    /\ staged \in [Files -> BOOLEAN]

ControlTypeOK ==
    /\ pc \in [Executors -> Phases]
    /\ todo \in [Executors -> SUBSET (Files \cup Dirs)]

MemoryTypeOK ==
    /\ op \in [Executors -> [Files -> Operations]]
    /\ seen \in [Executors -> [Files -> Stored]]
    /\ chain \in [Executors -> SUBSET Dirs]
    /\ bakSha \in [Executors -> [Files -> Stored]]
    /\ post \in [Executors -> [Files -> Stored]]
    /\ committed \in [Executors -> SUBSET Files]
    /\ created \in [Executors -> SUBSET Dirs]
    /\ removed \in [Executors -> SUBSET Dirs]
    /\ clean \in [Executors -> BOOLEAN]

OutcomeTypeOK ==
    /\ status \in [Executors -> Statuses]
    /\ receipt \in [Executors -> {"none", "partial", "complete"}]

HistoryTypeOK ==
    /\ touched \in [Executors -> SUBSET (Files \cup Dirs)]
    /\ undone \in SUBSET Files
    /\ faults \in 0..MaxFaults
    /\ foreign \in 0..MaxForeign
    /\ crashes \in 0..MaxCrashes

TypeOK ==
    /\ FileSystemTypeOK /\ PlanTypeOK
    /\ ControlTypeOK /\ MemoryTypeOK
    /\ OutcomeTypeOK /\ HistoryTypeOK

-----------------------------------------------------------------------------
(* Order: files and directories are handled in allowlist order, and         *)
(* compensated in reverse.                                                  *)
First(S) == IF "profile" \in S THEN "profile" ELSE "wrapper"
Last(S)  == IF "wrapper" \in S THEN "wrapper" ELSE "profile"
FirstDir(S) == IF "config" \in S THEN "config" ELSE "profiles"
LastDir(S)  == IF "profiles" \in S THEN "profiles" ELSE "config"

MissingChain(D) == {"config", "profiles"} \ D

\* A directory tree a file system can hold: every parent exists.
WellFormedTree(D, present) ==
    /\ "profiles" \in D => "config" \in D
    /\ \A f \in Files : present[f] # Absent => Parent[f] \in D

Empty(d) ==
    IF d = "config" THEN "profiles" \notin dirs
    ELSE \A f \in Files : Parent[f] = d =>
           /\ dest[f] = Absent
           /\ f \notin stray
           /\ \A e \in Executors : tmp[e][f] = Absent /\ bak[e][f] = Absent

\* The operation the PR305 plan recorded for f.
PlannedOperation(f) ==
    IF planned[f] = Absent THEN "create_required"
    ELSE IF planned[f] = Source[f] THEN "no_change" ELSE "replace_required"

\* Mutant: plan afresh from what is on disk now.
RevalidatedAfresh(f) ==
    IF dest[f] = Source[f] THEN "no_change"
    ELSE IF dest[f] = Absent THEN "create_required" ELSE "replace_required"

\* _revalidate_operation: the saved plan is a ceiling, it only ever narrows.
Revalidated(f) ==
    IF dest[f] = Source[f] THEN "no_change"
    ELSE IF dest[f] = planned[f] THEN PlannedOperation(f) ELSE "blocked"

\* _revalidate_parent: the chain to create may shrink, never grow; only the
\* profile's parent may be created at all.
ParentRevalidates(f) ==
    \/ Parent[f] \in dirs
    \/ /\ f = "profile"
       /\ Parent[f] \notin plannedDirs
       /\ MissingChain(dirs) \subseteq MissingChain(plannedDirs)

Mutates(e) == {f \in Files : op[e][f] \in {"create_required", "replace_required"}}

Fault(kind) ==
    /\ kind \in FaultKinds
    /\ faults < MaxFaults
    /\ faults' = faults + 1
NoFault == UNCHANGED faults

Enter(e, phase, items) ==
    /\ pc' = [pc EXCEPT ![e] = phase]
    /\ todo' = [todo EXCEPT ![e] = items]

\* The same phase with the rest of its items, or the next phase if none is left.
Loop(e, rest, next, items) ==
    IF rest = {} THEN Enter(e, next, items) ELSE Enter(e, pc[e], rest)

\* Mutant: a failed preparation is logged and the run goes on.
RaiseSwallowed(e) ==
    IF pc[e] = "prepare" THEN Enter(e, "commit", Mutates(e)) ELSE Enter(e, "discard", {})

\* An exception the executor catches: temporaries are discarded first.
Raise(e) == Enter(e, "discard", {})

\* Mutant: a status the receipt schema does not know.
FinishUnknown(e, s) ==
    /\ Enter(e, "receipt", {})
    /\ status' = [status EXCEPT ![e] = IF s = "failed_compensated" THEN "compensated" ELSE s]

\* finish(): the terminal status is fixed, the receipt is still to be written.
Finish(e, s) ==
    /\ Enter(e, "receipt", {})
    /\ status' = [status EXCEPT ![e] = s]

\* Any saved plan and any disk; an executor that never runs is one killed at once.
Init ==
    /\ planned \in [Files -> Contents \cup {Absent}]
    /\ plannedDirs \in SUBSET Dirs
    /\ "bin" \in plannedDirs
    /\ WellFormedTree(plannedDirs, planned)
    /\ staged \in [Files -> BOOLEAN]
    /\ dest \in [Files -> Contents \cup {Absent}]
    /\ dirs \in SUBSET Dirs
    /\ WellFormedTree(dirs, dest)
    /\ stray = {}
    /\ pc \in [Executors -> {"start", "crashed"}]
    /\ op = [e \in Executors |-> [f \in Files |-> "blocked"]]
    /\ LET nothing == [e \in Executors |-> [f \in Files |-> Absent]]
       IN tmp = nothing /\ bak = nothing /\ seen = nothing
          /\ bakSha = nothing /\ post = nothing
    /\ LET none == [e \in Executors |-> {}]
       IN todo = none /\ chain = none /\ committed = none /\ created = none
          /\ removed = none /\ touched = none
    /\ undone = {}
    /\ clean = [e \in Executors |-> TRUE]
    /\ status = [e \in Executors |-> "none"]
    /\ receipt = [e \in Executors |-> "none"]
    /\ faults = 0 /\ foreign = 0 /\ crashes = 0

-----------------------------------------------------------------------------
(* Gates and evaluation                                                     *)

\* Confirmation, packet, evidence and roots: refused without a receipt, or on.
Admit(e) ==
    /\ pc[e] = "start"
    /\ \/ /\ Enter(e, "evaluate", Files)
          /\ UNCHANGED status
       \/ /\ Enter(e, "done", {})
          /\ status' = [status EXCEPT ![e] = "blocked"]
    /\ UNCHANGED <<fs, plan, memory, receipt, history, budgets>>

\* _evaluate_file: one file against the saved plan and the current disk.
EvaluateFile(e) ==
    /\ pc[e] = "evaluate"
    /\ LET f == First(todo[e]) IN
       \E readable \in BOOLEAN :
          /\ IF readable THEN NoFault ELSE dest[f] # Absent /\ Fault("read")
          /\ op' = [op EXCEPT ![e][f] =
                      IF readable /\ staged[f] /\ ParentRevalidates(f)
                      THEN Revalidated(f) ELSE "blocked"]
          /\ seen' = [seen EXCEPT ![e][f] = IF readable THEN dest[f] ELSE Absent]
          /\ chain' = [chain EXCEPT ![e] =
                         IF f = "profile" /\ Parent[f] \notin dirs
                         THEN MissingChain(dirs) ELSE @]
          /\ Loop(e, todo[e] \ {f}, "gate", {})
    /\ UNCHANGED <<fs, plan, bakSha, post, committed, created, removed, clean,
                   outcome, history, foreign, crashes>>

\* Mutant: one unchanged file is taken for nothing to do.
GateAnyUnchanged(e) ==
    /\ pc[e] = "gate"
    /\ \/ /\ \E f \in Files : op[e][f] = "blocked"
          /\ Finish(e, "blocked")
       \/ /\ \E f \in Files : op[e][f] = "no_change"
          /\ Finish(e, "no_change")
       \/ /\ \A f \in Files : op[e][f] \notin {"blocked", "no_change"}
          /\ IF chain[e] = {} THEN Enter(e, "prepare", Mutates(e))
             ELSE Enter(e, "mkdir", chain[e])
          /\ UNCHANGED status
    /\ UNCHANGED <<fs, plan, memory, receipt, history, budgets>>

\* Any blocked file blocks the transaction; nothing to do ends it.
Gate(e) ==
    /\ pc[e] = "gate"
    /\ \/ /\ \E f \in Files : op[e][f] = "blocked"
          /\ Finish(e, "blocked")
       \/ /\ \A f \in Files : op[e][f] = "no_change"
          /\ Finish(e, "no_change")
       \/ /\ \A f \in Files : op[e][f] # "blocked"
          /\ Mutates(e) # {}
          /\ IF chain[e] = {} THEN Enter(e, "prepare", Mutates(e))
             ELSE Enter(e, "mkdir", chain[e])
          /\ UNCHANGED status
    /\ UNCHANGED <<fs, plan, memory, receipt, history, budgets>>

-----------------------------------------------------------------------------
(* Preparation: parent directories, then backup and temporary per file      *)

\* Mutant: mkdir(exist_ok=True), and every directory passed is owned.
CreateDirectoryOwning(e) ==
    /\ pc[e] = "mkdir"
    /\ LET d == FirstDir(todo[e])
           prefix == d = "profiles" => "config" \in dirs
       IN \/ /\ prefix /\ NoFault
             /\ dirs' = dirs \cup {d}
             /\ touched' = [touched EXCEPT ![e] = @ \cup ({d} \ dirs)]
             /\ created' = [created EXCEPT ![e] = @ \cup {d}]
             /\ Loop(e, todo[e] \ {d}, "prepare", Mutates(e))
          \/ /\ IF prefix THEN Fault("write") ELSE NoFault
             /\ Raise(e)
             /\ UNCHANGED <<dirs, created, touched>>
    /\ UNCHANGED <<dest, tmp, bak, stray, plan, op, seen, chain, bakSha, post,
                   committed, removed, clean, outcome, undone, foreign, crashes>>

\* _create_parent_directories, one component.  A directory that is already
\* there is accepted but not owned; one that cannot be confirmed after mkdir
\* is left behind unowned.
CreateDirectory(e) ==
    /\ pc[e] = "mkdir"
    /\ todo[e] # {}
    /\ LET d == FirstDir(todo[e])
           Next1 == Loop(e, todo[e] \ {d}, "prepare", Mutates(e))
           Make  == /\ dirs' = dirs \cup {d}
                    /\ touched' = [touched EXCEPT ![e] = @ \cup {d}]
           prefix == d = "profiles" => "config" \in dirs
       IN \/ /\ prefix /\ d \notin dirs /\ NoFault
             /\ Make
             /\ created' = [created EXCEPT ![e] = @ \cup {d}]
             /\ Next1
          \/ /\ prefix /\ d \in dirs /\ NoFault
             /\ Next1
             /\ UNCHANGED <<dirs, created, touched>>
          \/ /\ prefix /\ d \notin dirs /\ Fault("read")
             /\ Make
             /\ Raise(e)
             /\ UNCHANGED created
          \/ /\ IF prefix THEN Fault("write") ELSE NoFault
             /\ Raise(e)
             /\ UNCHANGED <<dirs, created, touched>>
    /\ UNCHANGED <<dest, tmp, bak, stray, plan, op, seen, chain, bakSha, post,
                   committed, removed, clean, outcome, undone, foreign, crashes>>

\* _create_backup: the destination is read again, copied and the copy verified.
CreateBackup(e) ==
    /\ pc[e] = "prepare"
    /\ LET f == First(todo[e])
           Copy(content, digest) ==
              /\ bak' = [bak EXCEPT ![e][f] = content]
              /\ bakSha' = [bakSha EXCEPT ![e][f] = digest]
       IN /\ op[e][f] = "replace_required"
          /\ bak[e][f] = Absent
          /\ \/ /\ dest[f] # Absent /\ NoFault          \* written and verified
                /\ Copy(dest[f], dest[f])
                /\ UNCHANGED <<stray, control>>
             \/ /\ dest[f] # Absent /\ Fault("short")   \* verification fails
                /\ Copy(Torn, Torn)
                /\ Raise(e)
                /\ UNCHANGED stray
             \/ /\ dest[f] # Absent /\ Fault("read")    \* the copy is unreadable
                /\ Copy(dest[f], Absent)
                /\ Raise(e)
                /\ UNCHANGED stray
             \/ /\ dest[f] # Absent /\ Fault("write")   \* not or partly written
                /\ stray' \in {stray, stray \cup {f}}
                /\ Raise(e)
                /\ UNCHANGED <<bak, bakSha>>
             \/ /\ IF dest[f] = Absent THEN NoFault ELSE Fault("read")
                /\ Raise(e)                             \* destination unreadable
                /\ UNCHANGED <<bak, bakSha, stray>>
    /\ UNCHANGED <<dest, dirs, tmp, plan, op, seen, chain, post, committed, created,
                   removed, clean, outcome, history, foreign, crashes>>

\* _create_temp: the validated source bytes beside the destination, verified.
CreateTemp(e) ==
    /\ pc[e] = "prepare"
    /\ LET f == First(todo[e])
           Write(content) == tmp' = [tmp EXCEPT ![e][f] = content]
           parent == Parent[f] \in dirs
       IN /\ op[e][f] = "replace_required" => bak[e][f] # Absent
          /\ \/ /\ parent /\ NoFault
                /\ Write(Source[f])
                /\ Loop(e, todo[e] \ {f}, "commit", Mutates(e))
                /\ UNCHANGED stray
             \/ /\ parent /\ Fault("short")
                /\ Write(Torn)
                /\ Raise(e)
                /\ UNCHANGED stray
             \/ /\ parent /\ Fault("read")
                /\ Write(Source[f])
                /\ Raise(e)
                /\ UNCHANGED stray
             \/ /\ parent /\ Fault("write")
                /\ stray' \in {stray, stray \cup {f}}
                /\ Raise(e)
                /\ UNCHANGED tmp
             \/ /\ ~parent /\ NoFault
                /\ Raise(e)
                /\ UNCHANGED <<tmp, stray>>
    /\ UNCHANGED <<dest, dirs, bak, plan, memory, outcome, history, foreign, crashes>>

-----------------------------------------------------------------------------
(* Commit and verification                                                  *)

\* A create looks at its destination first, and refuses one that appeared.
CheckAbsent(e) ==
    /\ pc[e] = "commit"
    /\ LET f == First(todo[e]) IN
       /\ op[e][f] = "create_required"
       /\ IF dest[f] = Absent THEN Enter(e, "replace", todo[e]) ELSE Raise(e)
    /\ UNCHANGED <<fs, plan, memory, outcome, history, budgets>>

\* os.replace(): atomic, and it overwrites whatever is there by now.
Replace(e) ==
    /\ LET f == First(todo[e]) IN
       /\ \/ pc[e] = "replace"
          \/ pc[e] = "commit" /\ op[e][f] = "replace_required"
       /\ \/ /\ NoFault
             /\ dest' = [dest EXCEPT ![f] = tmp[e][f]]
             /\ tmp' = [tmp EXCEPT ![e][f] = Absent]
             /\ committed' = [committed EXCEPT ![e] = @ \cup {f}]
             /\ touched' = [touched EXCEPT ![e] = @ \cup {f}]
             /\ Enter(e, "verify", todo[e])
          \/ /\ Fault("write")
             /\ Raise(e)
             /\ UNCHANGED <<dest, tmp, committed, touched>>
    /\ UNCHANGED <<dirs, bak, stray, plan, op, seen, chain, bakSha, post, created,
                   removed, clean, outcome, undone, foreign, crashes>>

\* Mutant: the hash is compared but not recorded.
VerifyCommitUnrecorded(e) ==
    /\ pc[e] = "verify"
    /\ LET f == First(todo[e]) IN
       \/ /\ dest[f] = Source[f] /\ NoFault
          /\ IF todo[e] = {f} THEN Enter(e, "postverify", committed[e])
             ELSE Enter(e, "commit", todo[e] \ {f})
       \/ /\ IF dest[f] = Source[f] THEN Fault("read") ELSE NoFault
          /\ Raise(e)
    /\ UNCHANGED <<fs, plan, memory, outcome, history, foreign, crashes>>

\* The hash of the destination directly after its commit.
VerifyCommit(e) ==
    /\ pc[e] = "verify"
    /\ LET f == First(todo[e]) IN
       \E readable \in BOOLEAN :
          LET observed == IF readable THEN dest[f] ELSE Absent IN
          /\ IF readable THEN NoFault ELSE Fault("read")
          /\ post' = [post EXCEPT ![e][f] = observed]
          /\ IF observed # Source[f] THEN Raise(e)
             ELSE IF todo[e] = {f} THEN Enter(e, "postverify", committed[e])
             ELSE Enter(e, "commit", todo[e] \ {f})
    /\ UNCHANGED <<fs, plan, op, seen, chain, bakSha, committed, created, removed,
                   clean, outcome, history, foreign, crashes>>

\* The separate post-verification phase, and the status of a run that failed
\* nowhere before it.
PostVerify(e) ==
    /\ pc[e] = "postverify"
    /\ LET f == First(todo[e]) IN
       \E readable \in BOOLEAN :
          LET passed == clean[e] /\ readable /\ dest[f] = Source[f] IN
          /\ IF readable THEN NoFault ELSE Fault("read")
          /\ clean' = [clean EXCEPT ![e] = passed]
          /\ IF todo[e] # {f}
             THEN Enter(e, "postverify", todo[e] \ {f}) /\ UNCHANGED status
             ELSE Finish(e, IF ~passed THEN "verification_failed"
                            ELSE IF Mutates(e) = Files THEN "executed"
                            ELSE "partial_executed")
    /\ UNCHANGED <<fs, plan, op, seen, chain, bakSha, post, committed, created,
                   removed, receipt, history, foreign, crashes>>

-----------------------------------------------------------------------------
(* Failure: discard temporaries, compensate files, then directories         *)

\* Best-effort unlink of every temporary still held, then where _fail goes.
Discard(e) ==
    /\ pc[e] = "discard"
    /\ LET held == {f \in Files : tmp[e][f] # Absent} IN
       /\ \/ NoFault /\ UNCHANGED stray
          \/ /\ Fault("write")
             /\ \E left \in SUBSET held : left # {} /\ stray' = stray \cup left
       /\ tmp' = [tmp EXCEPT ![e] = [f \in Files |-> Absent]]
    /\ IF committed[e] # {}
       THEN Enter(e, "compensate", committed[e]) /\ UNCHANGED status
       ELSE IF created[e] # {}
       THEN Enter(e, "rmdir", created[e]) /\ UNCHANGED status
       ELSE Finish(e, "blocked")
    /\ UNCHANGED <<dest, dirs, bak, plan, memory, receipt, history, foreign, crashes>>

\* Mutant: the directories are forgotten once a file was committed.
NextCompensationFilesOnly(e, f) ==
    IF todo[e] = {f} THEN Enter(e, "rmdir", {}) ELSE Enter(e, "compensate", todo[e] \ {f})

\* Mutant: a file that could not be compensated is tried again, for ever.
NextCompensationRetry(e, f) ==
    IF ~clean'[e] THEN Enter(e, "compensate", todo[e])
    ELSE IF todo[e] = {f} THEN Enter(e, "rmdir", created[e])
    ELSE Enter(e, "compensate", todo[e] \ {f})

NextCompensation(e, f) ==
    IF todo[e] = {f} THEN Enter(e, "rmdir", created[e])
    ELSE Enter(e, "compensate", todo[e] \ {f})

\* _restore_from_backup: the verified backup, through a restore temporary that
\* is verified too, replaces whatever the destination holds.
Restore(e) ==
    /\ pc[e] = "compensate"
    /\ LET f == Last(todo[e]) IN
       /\ op[e][f] = "replace_required"
       /\ \/ /\ bak[e][f] = bakSha[e][f] /\ NoFault
             /\ dest' = [dest EXCEPT ![f] = bak[e][f]]
             /\ touched' = [touched EXCEPT ![e] = @ \cup {f}]
             /\ undone' = undone \cup {f}
             /\ Enter(e, "recheck", todo[e])
             /\ UNCHANGED <<stray, clean>>
          \/ /\ \/ (Fault("read") \/ Fault("short")) /\ UNCHANGED stray
                \/ Fault("write") /\ stray' \in {stray, stray \cup {f}}
             /\ clean' = [clean EXCEPT ![e] = FALSE]
             /\ NextCompensation(e, f)
             /\ UNCHANGED <<dest, history>>
    /\ UNCHANGED <<dirs, tmp, bak, plan, op, seen, chain, bakSha, post, committed,
                   created, removed, outcome, foreign, crashes>>

\* The hash of the destination after it was restored.
RecheckRestored(e) ==
    /\ pc[e] = "recheck"
    /\ LET f == Last(todo[e]) IN
       \E readable \in BOOLEAN :
          /\ IF readable THEN NoFault ELSE Fault("read")
          /\ clean' = [clean EXCEPT ![e] =
                         @ /\ readable /\ dest[f] = bakSha[e][f]]
          /\ NextCompensation(e, f)
    /\ UNCHANGED <<fs, plan, op, seen, chain, bakSha, post, committed, created, removed,
                   outcome, history, foreign, crashes>>

\* _remove_created, its decision: no hash counts as already removed, another
\* hash than the source's refuses.
CheckCreated(e) ==
    /\ pc[e] = "compensate"
    /\ LET f == Last(todo[e]) IN
       /\ op[e][f] # "replace_required"
       /\ \E readable \in BOOLEAN :
          LET current == IF readable THEN dest[f] ELSE Absent IN
          /\ IF readable THEN NoFault ELSE Fault("read")
          /\ clean' = [clean EXCEPT ![e] = @ /\ current \in {Absent, Source[f]}]
          /\ IF current = Source[f] THEN Enter(e, "unlink", todo[e])
             ELSE NextCompensation(e, f)
    /\ UNCHANGED <<fs, plan, op, seen, chain, bakSha, post, committed, created, removed,
                   outcome, history, foreign, crashes>>

\* The unlink itself; a file that is gone by now raises and counts as failed.
UnlinkCreated(e) ==
    /\ pc[e] = "unlink"
    /\ LET f == Last(todo[e]) IN
       /\ \/ /\ dest[f] # Absent /\ NoFault
             /\ dest' = [dest EXCEPT ![f] = Absent]
             /\ touched' = [touched EXCEPT ![e] = @ \cup {f}]
             /\ undone' = undone \cup {f}
             /\ UNCHANGED clean
          \/ /\ IF dest[f] = Absent THEN NoFault ELSE Fault("write")
             /\ clean' = [clean EXCEPT ![e] = FALSE]
             /\ UNCHANGED <<dest, history>>
       /\ NextCompensation(e, f)
    /\ UNCHANGED <<dirs, tmp, bak, stray, plan, op, seen, chain, bakSha, post, committed,
                   created, removed, outcome, foreign, crashes>>

\* _compensate_directories, one directory: only an empty one goes.  The listing
\* of a directory is not guarded, so its failure leaves the executor.
RemoveDirectory(e) ==
    /\ pc[e] = "rmdir"
    /\ todo[e] # {}
    /\ LET d == LastDir(todo[e])
           On == Enter(e, "rmdir", todo[e] \ {d})
       IN \/ /\ d \in dirs /\ Empty(d) /\ NoFault
             /\ dirs' = dirs \ {d}
             /\ removed' = [removed EXCEPT ![e] = @ \cup {d}]
             /\ touched' = [touched EXCEPT ![e] = @ \cup {d}]
             /\ On
             /\ UNCHANGED clean
          \/ /\ IF d \in dirs /\ Empty(d) THEN Fault("write") ELSE NoFault
             /\ clean' = [clean EXCEPT ![e] = FALSE]
             /\ On
             /\ UNCHANGED <<dirs, removed, touched>>
          \/ /\ d \in dirs /\ Fault("read")
             /\ Enter(e, "raised", {})
             /\ UNCHANGED <<dirs, removed, touched, clean>>
    /\ UNCHANGED <<dest, tmp, bak, stray, plan, op, seen, chain, bakSha, post, committed,
                   created, outcome, undone, foreign, crashes>>

\* Mutant: the status does not look at how the compensation went.
ConcludeOptimistic(e) ==
    /\ pc[e] = "rmdir"
    /\ todo[e] = {}
    /\ Finish(e, "failed_compensated")
    /\ UNCHANGED <<fs, plan, memory, receipt, history, budgets>>

Conclude(e) ==
    /\ pc[e] = "rmdir"
    /\ todo[e] = {}
    /\ Finish(e, IF clean[e] THEN "failed_compensated"
                 ELSE "failed_compensation_incomplete")
    /\ UNCHANGED <<fs, plan, memory, receipt, history, budgets>>

-----------------------------------------------------------------------------
(* The receipt, the other programs, and the whole                           *)

\* write_execution_receipt: a failure after the directory was made leaves an
\* incomplete bundle, and the exception leaves the executor.
WriteReceipt(e) ==
    /\ pc[e] = "receipt"
    /\ \/ /\ NoFault
          /\ receipt' = [receipt EXCEPT ![e] = "complete"]
          /\ Enter(e, "done", {})
       \/ /\ Fault("write")
          /\ \E r \in {"none", "partial"} : receipt' = [receipt EXCEPT ![e] = r]
          /\ Enter(e, "raised", {})
    /\ UNCHANGED <<fs, plan, memory, status, history, foreign, crashes>>

\* The process dies, in the middle of a write too.
Crash(e) ==
    /\ pc[e] \notin Stopped
    /\ crashes < MaxCrashes
    /\ crashes' = crashes + 1
    /\ stray' \in {stray} \cup
         (IF pc[e] = "prepare" THEN {stray \cup {First(todo[e])}} ELSE {})
    /\ \E r \in (IF pc[e] = "receipt" THEN {"none", "partial"} ELSE {"none"}) :
          receipt' = [receipt EXCEPT ![e] = r]
    /\ Enter(e, "crashed", {})
    /\ UNCHANGED <<dest, dirs, tmp, bak, plan, memory, status, history, faults, foreign>>

Interfere ==
    /\ foreign < MaxForeign
    /\ foreign' = foreign + 1
    /\ UNCHANGED <<tmp, bak, stray, plan, control, memory, outcome, history, faults,
                   crashes>>

\* Another program writes or deletes a destination, or makes or removes a
\* parent directory.
ForeignFile(f, c) ==
    /\ Parent[f] \in dirs
    /\ dest[f] # c
    /\ dest' = [dest EXCEPT ![f] = c]
    /\ UNCHANGED dirs
    /\ Interfere

ForeignMakeDirectory(d) ==
    /\ d \notin dirs
    /\ d = "profiles" => "config" \in dirs
    /\ dirs' = dirs \cup {d}
    /\ UNCHANGED dest
    /\ Interfere

ForeignRemoveDirectory(d) ==
    /\ d \in dirs
    /\ Empty(d)
    /\ dirs' = dirs \ {d}
    /\ UNCHANGED dest
    /\ Interfere

Step(e) ==
    \/ Admit(e) \/ EvaluateFile(e) \/ Gate(e)
    \/ CreateDirectory(e) \/ CreateBackup(e) \/ CreateTemp(e)
    \/ CheckAbsent(e) \/ Replace(e) \/ VerifyCommit(e) \/ PostVerify(e)
    \/ Discard(e) \/ Restore(e) \/ RecheckRestored(e)
    \/ CheckCreated(e) \/ UnlinkCreated(e)
    \/ RemoveDirectory(e) \/ Conclude(e) \/ WriteReceipt(e)

Rest ==
    /\ \A e \in Executors : pc[e] \in Stopped
    /\ UNCHANGED vars

Next ==
    \/ \E e \in Executors : Step(e) \/ Crash(e)
    \/ \E f \in Files, c \in Contents \cup {Absent} : ForeignFile(f, c)
    \/ \E d \in Dirs : ForeignMakeDirectory(d) \/ ForeignRemoveDirectory(d)
    \/ Rest

Spec     == Init /\ [][Next]_vars
FairSpec == Spec /\ \A e \in Executors : WF_vars(Step(e))

-----------------------------------------------------------------------------
(* What the executor promises                                               *)

\* No destination is ever seen half written, whatever fails, dies or
\* interferes: only verified temporaries and verified backups are put in place.
NoTornDestination == \A f \in Files : dest[f] # Torn

\* Nothing is committed before everything is prepared: while commits are under
\* way every file still to be committed has its verified temporary and every
\* replacement, committed or not, its verified backup.
AllPreparedBeforeCommit ==
    \A e \in Executors : pc[e] \in {"commit", "replace", "verify", "postverify"} =>
        \A f \in Mutates(e) :
            /\ f \in committed[e] \/ tmp[e][f] = Source[f]
            /\ op[e][f] = "replace_required" =>
                   bak[e][f] \in Contents /\ bakSha[e][f] = bak[e][f]

\* Neither another program nor another executor has changed a file or directory.
Undisturbed(e) == foreign = 0 /\ \A d \in Executors \ {e} : touched[d] = {}

\* The status of an undisturbed executor tells the truth about the disk: a
\* success means both files have the source's content; blocked, no_change and
\* failed_compensated mean the files and directories are as they were found.
HonestOutcome ==
    \A e \in Executors : Undisturbed(e) /\ pc[e] \in {"receipt", "done"} =>
        /\ status[e] \in {"executed", "partial_executed", "no_change"} =>
               dest = Source
        /\ status[e] \in {"blocked", "no_change", "failed_compensated"} =>
               /\ touched[e] \cap Files # {} => dest = seen[e]
               /\ touched[e] \cap Dirs \cap dirs = {}

\* A half-applied plan is confessed: when an undisturbed executor ends with some
\* file changed and some file still to change, it says the compensation is
\* incomplete.
HalfAppliedIsConfessed ==
    \A e \in Executors :
        Undisturbed(e) /\ pc[e] = "done"
        /\ dest # seen[e] /\ (\E f \in Mutates(e) : dest[f] # Source[f])
            => status[e] = "failed_compensation_incomplete"

\* Whatever an executor overwrites or deletes, beside other executors of the
\* plan but no other program, can be had again: it is the source's content or
\* stands in a backup file.
NoUnsavedOverwrite ==
    [][foreign' = 0 =>
         \A f \in Files : dest'[f] # dest[f] =>
            \/ dest[f] \in {Absent, Source[f]}
            \/ \E e \in Executors : bak'[e][f] = dest[f]]_vars

\* The saved plan is an authorization ceiling: an executor only ever changes
\* files the plan meant to change, found exactly as the plan recorded them, and
\* directories the plan found missing - and none unless every gate of both
\* files passed.
WithinPlanCeiling ==
    \A e \in Executors : touched[e] # {} =>
        /\ \A f \in Files : staged[f] /\ seen[e][f] \in {planned[f], Source[f]}
        /\ \A f \in touched[e] \cap Files :
               seen[e][f] = planned[f] /\ planned[f] # Source[f]
        /\ touched[e] \cap Dirs \subseteq MissingChain(plannedDirs)

\* Where only executors have acted, a directory one of them made and may still
\* remove is nobody else's: no executor compensates away the directory another
\* one relies on having made.
OwnedOnce ==
    foreign = 0 => \A e1, e2 \in Executors : e1 # e2 =>
        (created[e1] \ removed[e1]) \cap (created[e2] \ removed[e2]) = {}

\* Re-running the plan after a crash, or beside another run, ends with both
\* files reconciled: where only executors have acted, a success stays true
\* unless some run takes a commit back.
ReconciledUnlessUndone ==
    (\E e \in Executors : status[e] \in {"executed", "partial_executed", "no_change"})
    /\ undone = {} /\ foreign = 0
        => dest = Source

\* Every executor that is not killed comes to an end.
Termination == \A e \in Executors : <>(pc[e] \in Stopped)

-----------------------------------------------------------------------------
(* The saved receipt and its validator                                      *)

\* _receipt_operation_errors is empty for the record of f.
OperationRecordValid(e, f) ==
    /\ f \in committed[e] =>
         /\ post[e][f] = Source[f]
         /\ op[e][f] = "create_required" => seen[e][f] = Absent
    /\ f \notin committed[e] => post[e][f] = Absent
    /\ bak[e][f] # Absent =>
         /\ op[e][f] = "replace_required"
         /\ bakSha[e][f] # Absent
         /\ bakSha[e][f] = seen[e][f]

\* _receipt_status_precedence_errors and _receipt_parent_errors are empty.
StatusPrecedenceValid(e) ==
    /\ status[e] = "blocked" => committed[e] = {} /\ created[e] = {}
    /\ status[e] = "no_change" =>
         committed[e] = {} /\ \A f \in Files : op[e][f] = "no_change"
    /\ status[e] = "executed" => committed[e] = Files
    /\ status[e] = "partial_executed" =>
         committed[e] # {} /\ \E f \in Files : op[e][f] = "no_change"
    /\ status[e] \in {"failed_compensation_incomplete", "verification_failed"} =>
         ~clean[e]
    /\ status[e] = "failed_compensated" =>
         clean[e] /\ (committed[e] # {} \/ created[e] # {})
    /\ created[e] \subseteq chain[e] /\ removed[e] \subseteq created[e]

ReceiptValidates(e) ==
    (\A f \in Files : OperationRecordValid(e, f)) /\ StatusPrecedenceValid(e)

\* The bundle of an undisturbed run that ended in a success, a no-op or a failed
\* post-verification passes the validator of saved receipts.  (A file changed
\* by others between its evaluation and its backup gives a receipt the
\* validator refuses.)
SuccessReceiptValidates ==
    \A e \in Executors :
        Undisturbed(e) /\ receipt[e] = "complete" /\ status[e] \in {"executed", "partial_executed",
                                       "no_change", "verification_failed"}
            => ReceiptValidates(e)

\* docs/safety.md:1135: an incomplete recovery is reported honestly, so after
\* failed_compensated no file the run created is left.
IncompleteRecoveryReported ==
    \A e \in Executors :
        pc[e] = "done" /\ status[e] = "failed_compensated" =>
            \A f \in committed[e] :
                op[e][f] = "create_required" => dest[f] = Absent
=============================================================================
