------------------------- MODULE ArtifactPublication --------------------------
(***************************************************************************)
(* The atomic publishers of reviewed-change artifacts,                     *)
(* src/src/shellforgeai/core/: artifact bundles (PR317), approvals (PR319),*)
(* plan links (PR337) and operator solutions.                              *)
(*                                                                         *)
(* A publisher is one invocation of one of the four publish_...()          *)
(* functions.  It prepares the artifact's files in a private directory     *)
(* beneath the root of its kind, flushes and verifies them, and moves the  *)
(* directory to the artifact's final name with one rename that never       *)
(* replaces.  Publishers share the root and the final names and take no    *)
(* lock.  Any call may fail, a publisher may be killed and run again, and  *)
(* the machine may lose power, which takes what was not flushed.           *)
(*                                                                         *)
(* The four do the same steps with different care.  Bundles and approvals  *)
(* ("strict") account for every failure in their result; plan links and    *)
(* operator solutions ignore a directory that cannot be flushed and never  *)
(* remove their root.  Every kind has a root of its own, so a behaviour is *)
(* about one kind.                                                         *)
(*                                                                         *)
(* A definition marked "Mutant" is a plausible bug of the one after it and *)
(* is not part of the specification; it shows that a property can fail.    *)
(***************************************************************************)
EXTENDS Naturals

CONSTANTS
    Publishers,     \* invocations of the publisher
    Kinds,          \* the kinds of artifact that are published
    Bundles,        \* artifact identities
    FileCount,      \* BUNDLE_FILE_ORDER: how many files a bundle has
    NoDirectory,    \* nothing under this name
    MaxFaults,      \* bound: failing calls in one behaviour
    MaxKills,       \* bound: publishers killed
    MaxPowerLosses  \* bound: power losses

Files == 1..FileCount

\* A file is missing, cut short, written, or written and flushed; "other" is
\* content that is not the bundle's.  A directory's entries are flushed or not.
FileStates == {"absent", "torn", "written", "flushed", "other"}
Directory  == [file : [Files -> FileStates], synced : BOOLEAN]

ASSUME DirectoryAssumption == NoDirectory \notin Directory
ASSUME BundlesAssumption == "root" \notin Bundles
ASSUME KindsAssumption == Kinds \subseteq {"bundle", "approval", "link", "solution"}
ASSUME BoundsAssumption ==
    FileCount \in Nat \ {0, 1} /\ MaxFaults \in Nat /\ MaxKills \in Nat /\ MaxPowerLosses \in Nat

VARIABLES
    \* the file system
    root,        \* the publication root exists
    final,       \* final[b]: the directory under b's final name
    temp,        \* temp[p]: p's private ".pending-" directory
    orphan,      \* a private directory of a killed publisher lies in the root
    durable,     \* the root's entries, and the root, that a power loss leaves
    platform,    \* "posix" flushes directories, "windows" cannot
    kind,        \* what is published
    source,      \* an approval's source bundle can be loaded and is the one it records
    \* each invocation
    target,      \* its bundle
    pc,
    prepared,    \* prepared_file_count
    tracked,     \* state.created_files
    rootCreated, \* state.publication_root_created
    reason,      \* why the private directory is being cleaned up
    unseen,      \* its cleanup could not look at the private directory and took it for gone
    rootFlush,   \* publication_root_flush_status
    \* its result
    status,
    claimed,     \* atomic_publish_outcome = "published"
    residual,    \* it names or admits a private directory that was left
    \* budgets
    faults, kills, losses

fs      == <<root, final, temp, orphan, durable>>
given   == <<platform, kind, source, target>>
memory  == <<prepared, tracked, rootCreated, reason, unseen, rootFlush>>
result  == <<status, claimed, residual>>
budgets == <<faults, kills, losses>>
vars    == <<fs, given, pc, memory, result, budgets>>

\* A status stands for its namesake of each kind.
Statuses == {"none", "published", "already_present", "conflict", "publication_blocked",
             "invalid_publication_input", "publication_failed_precommit",
             "publication_failed_cleanup_incomplete", "published_verification_failed",
             "atomic_publication_unsupported"}
Phases   == {"start", "root", "mkroot", "inspect", "mktemp", "write", "flush", "verify",
             "seal", "flushdir", "recheck", "rename", "flushroot", "load",
             "cleanup", "existing", "rmroot", "done"}
Reasons  == {"none", "precommit", "unsupported", "appeared"}

TypeOK ==
    /\ root \in BOOLEAN /\ orphan \in BOOLEAN
    /\ final \in [Bundles -> Directory \cup {NoDirectory}]
    /\ temp \in [Publishers -> Directory \cup {NoDirectory}]
    /\ durable \subseteq Bundles \cup {"root"}
    /\ platform \in {"posix", "windows"} /\ kind \in Kinds /\ source \in BOOLEAN
    /\ target \in [Publishers -> Bundles]
    /\ pc \in [Publishers -> Phases]
    /\ prepared \in [Publishers -> 0..FileCount]
    /\ tracked \in [Publishers -> SUBSET Files]
    /\ rootCreated \in [Publishers -> BOOLEAN]
    /\ reason \in [Publishers -> Reasons]
    /\ unseen \in [Publishers -> BOOLEAN]
    /\ rootFlush \in [Publishers -> {"not_attempted", "passed", "unsupported", "failed"}]
    /\ status \in [Publishers -> Statuses]
    /\ claimed \in [Publishers -> BOOLEAN]
    /\ residual \in [Publishers -> BOOLEAN]
    /\ faults \in 0..MaxFaults /\ kills \in 0..MaxKills /\ losses \in 0..MaxPowerLosses

-----------------------------------------------------------------------------
Strict == kind \in {"bundle", "approval"}

\* The files an artifact of the kind has.
Own == CASE kind = "bundle"   -> Files
         [] kind = "solution" -> {1, 2}
         [] OTHER             -> {1}

EmptyDirectory == [file |-> [i \in Files |-> "absent"], synced |-> FALSE]
Entries(d) == {i \in Files : d.file[i] # "absent"}

\* The whole artifact: exactly its files with exactly its bytes.
Whole(d) == d # NoDirectory /\ \A i \in Own : d.file[i] \in {"written", "flushed"}

\* What the loaders accept.  An approval's also wants its source bundle.
Loads(d) == Whole(d) /\ source

\* os.rmdir(root) succeeds on an empty directory only.
RootEmpty ==
    /\ ~orphan
    /\ \A b \in Bundles : final[b] = NoDirectory
    /\ \A p \in Publishers : temp[p] = NoDirectory

Fault   == faults < MaxFaults /\ faults' = faults + 1
NoFault == UNCHANGED faults

Goto(p, phase) == pc' = [pc EXCEPT ![p] = phase]

\* Mutant: the leftover directory is named only by the status made for it.
ReturnTerse(p, s, published, left) ==
    /\ Goto(p, "done")
    /\ status' = [status EXCEPT ![p] = s]
    /\ claimed' = [claimed EXCEPT ![p] = published]
    /\ residual' = [residual EXCEPT
                      ![p] = left /\ s = "publication_failed_cleanup_incomplete"]

\* The structured result.
Return(p, s, published, left) ==
    /\ Goto(p, "done")
    /\ status' = [status EXCEPT ![p] = s]
    /\ claimed' = [claimed EXCEPT ![p] = published]
    /\ residual' = [residual EXCEPT ![p] = left]

\* precommit_failure() and its siblings, and the except clauses, start with the
\* cleanup.
CleanUp(p, why) == Goto(p, "cleanup") /\ reason' = [reason EXCEPT ![p] = why]

Init ==
    /\ root \in BOOLEAN
    /\ orphan = FALSE
    /\ kind \in Kinds
    /\ source \in BOOLEAN /\ (kind # "approval" => source)
    /\ LET stored(s) == [file |-> [i \in Files |-> IF i \in Own THEN s ELSE "absent"],
                         synced |-> TRUE] IN
       final \in [Bundles -> {NoDirectory, stored("flushed"), stored("other")}]
    /\ (\E b \in Bundles : final[b] # NoDirectory) => root
    /\ temp = [p \in Publishers |-> NoDirectory]
    /\ durable = {b \in Bundles : final[b] # NoDirectory} \cup (IF root THEN {"root"} ELSE {})
    /\ platform \in {"posix", "windows"}
    /\ target \in [Publishers -> Bundles]
    /\ pc = [p \in Publishers |-> "start"]
    /\ prepared = [p \in Publishers |-> 0]
    /\ tracked = [p \in Publishers |-> {}]
    /\ reason = [p \in Publishers |-> "none"]
    /\ rootFlush = [p \in Publishers |-> "not_attempted"]
    /\ status = [p \in Publishers |-> "none"]
    /\ LET none == [p \in Publishers |-> FALSE]
       IN rootCreated = none /\ residual = none /\ claimed = none /\ unseen = none
    /\ faults = 0 /\ kills = 0 /\ losses = 0

-----------------------------------------------------------------------------
(* Before anything is written                                               *)

\* Validation, confirmation, data directory and path length: refused, or on.
Admit(p) ==
    /\ pc[p] = "start" /\ Strict
    /\ \/ Goto(p, "root") /\ UNCHANGED result
       \/ \E s \in {"invalid_publication_input", "publication_blocked"} :
             Return(p, s, FALSE, FALSE)
    /\ UNCHANGED <<fs, given, memory, budgets>>

\* The others make the artifact themselves first, a plan link out of the approval
\* it finds: what cannot be made is not to be had.
Derive(p) ==
    /\ pc[p] = "start" /\ ~Strict
    /\ \/ Goto(p, "root") /\ UNCHANGED result
       \/ \E s \in {"invalid_publication_input", "publication_blocked"} :
             Return(p, s, FALSE, FALSE)
    /\ UNCHANGED <<fs, given, memory, budgets>>

InspectRoot(p) ==
    /\ pc[p] = "root"
    /\ Goto(p, IF root THEN "inspect" ELSE "mkroot")
    /\ UNCHANGED <<fs, given, memory, result, budgets>>

\* os.mkdir(root): fails too when another publisher made the root meanwhile.
CreateRoot(p) ==
    /\ pc[p] = "mkroot"
    /\ \/ /\ ~root /\ NoFault
          /\ root' = TRUE
          /\ rootCreated' = [rootCreated EXCEPT ![p] = Strict]
          /\ Goto(p, "inspect")
          /\ UNCHANGED result
       \/ /\ IF root THEN NoFault ELSE Fault
          /\ Return(p, IF Strict THEN "publication_failed_precommit"
                       ELSE IF root /\ kind = "link" THEN "conflict"
                       ELSE "publication_blocked", FALSE, FALSE)
          /\ UNCHANGED <<root, rootCreated>>
    /\ UNCHANGED <<final, temp, orphan, durable, given, prepared, tracked, reason,
                   unseen, rootFlush, kills, losses>>

InspectFinal(p) ==
    /\ pc[p] = "inspect"
    /\ Goto(p, IF final[target[p]] # NoDirectory THEN "existing" ELSE "mktemp")
    /\ UNCHANGED <<fs, given, memory, result, budgets>>

\* The private directory: its mkdir fails too when the root is gone again.  A
\* strict publisher knows of the files it has finished, the others of all.
CreateTemporaryDirectory(p) ==
    /\ pc[p] = "mktemp"
    /\ \/ /\ root /\ NoFault
          /\ temp' = [temp EXCEPT ![p] = EmptyDirectory]
          /\ tracked' = [tracked EXCEPT ![p] = IF Strict THEN {} ELSE Own]
          /\ Goto(p, "write")
          /\ UNCHANGED result
       \/ /\ IF root THEN Fault ELSE NoFault
          /\ IF Strict THEN Goto(p, "rmroot") /\ UNCHANGED result
             ELSE Return(p, "publication_blocked", FALSE, FALSE)
          /\ UNCHANGED <<temp, tracked>>
    /\ UNCHANGED <<root, final, orphan, durable, given, prepared, rootCreated, reason,
                   unseen, rootFlush, kills, losses>>

-----------------------------------------------------------------------------
(* Preparation in the private directory, file by file                       *)

\* A file whose write fails may lie there, untracked by a strict publisher.
WriteFile(p) ==
    /\ pc[p] = "write"
    /\ LET i == prepared[p] + 1
           Put(s) == temp' = [temp EXCEPT ![p].file[i] = s]
       IN \/ /\ NoFault
             /\ Put("written")
             /\ tracked' = [tracked EXCEPT ![p] = @ \cup {i}]
             /\ Goto(p, "flush")
             /\ UNCHANGED reason
          \/ /\ Fault
             /\ Put("torn") \/ UNCHANGED temp
             /\ CleanUp(p, "precommit")
             /\ UNCHANGED tracked
    /\ UNCHANGED <<root, final, orphan, durable, given, prepared, rootCreated, unseen,
                   rootFlush, result, kills, losses>>

FlushFile(p) ==
    /\ pc[p] = "flush"
    /\ \/ /\ NoFault
          /\ temp' = [temp EXCEPT ![p].file[prepared[p] + 1] = "flushed"]
          /\ Goto(p, "verify")
          /\ UNCHANGED reason
       \/ /\ Fault
          /\ CleanUp(p, "precommit")
          /\ UNCHANGED temp
    /\ UNCHANGED <<root, final, orphan, durable, given, prepared, tracked, rootCreated,
                   unseen, rootFlush, result, kills, losses>>

\* Mutant: the count is compared before it is incremented.
VerifyFileLate(p) ==
    /\ pc[p] = "verify"
    /\ \/ /\ NoFault
          /\ prepared' = [prepared EXCEPT ![p] = @ + 1]
          /\ Goto(p, IF prepared[p] \in Own /\ prepared[p] + 1 \notin Own THEN "seal"
                     ELSE "write")
          /\ UNCHANGED reason
       \/ /\ Fault
          /\ CleanUp(p, "precommit")
          /\ UNCHANGED prepared
    /\ UNCHANGED <<fs, given, tracked, rootCreated, unseen, rootFlush, result, kills, losses>>

\* The bytes are read back.  (An operator solution's after its last file only.)
VerifyFile(p) ==
    /\ pc[p] = "verify"
    /\ \/ /\ NoFault
          /\ prepared' = [prepared EXCEPT ![p] = @ + 1]
          /\ Goto(p, IF prepared[p] + 2 \in Own THEN "write" ELSE "seal")
          /\ UNCHANGED reason
       \/ /\ Fault
          /\ CleanUp(p, "precommit")
          /\ UNCHANGED prepared
    /\ UNCHANGED <<fs, given, tracked, rootCreated, unseen, rootFlush, result, kills, losses>>

\* The prepared bytes make up the artifact again.  Strict publishers list the
\* directory and read it anew, which may fail.
SealPrepared(p) ==
    /\ pc[p] = "seal"
    /\ \/ /\ NoFault
          /\ Whole(temp[p])
          /\ Goto(p, "flushdir")
          /\ UNCHANGED reason
       \/ Strict /\ Fault /\ CleanUp(p, "precommit")
    /\ UNCHANGED <<fs, given, prepared, tracked, rootCreated, unseen, rootFlush, result,
                   kills, losses>>

\* _fsync_directory(temporary): a platform without the primitive goes on, and who
\* is not strict goes on whatever it says.
FlushDirectory(p) ==
    /\ pc[p] = "flushdir"
    /\ LET on == IF Strict THEN "recheck" ELSE "rename" IN
       \/ /\ platform = "posix" /\ NoFault
          /\ temp' = [temp EXCEPT ![p].synced = TRUE]
          /\ Goto(p, on)
          /\ UNCHANGED reason
       \/ /\ platform = "windows" /\ NoFault
          /\ Goto(p, on)
          /\ UNCHANGED <<temp, reason>>
       \/ /\ platform = "posix" /\ Fault
          /\ IF Strict THEN CleanUp(p, "precommit") ELSE Goto(p, on) /\ UNCHANGED reason
          /\ UNCHANGED temp
    /\ UNCHANGED <<root, final, orphan, durable, given, prepared, tracked, rootCreated,
                   unseen, rootFlush, result, kills, losses>>

-----------------------------------------------------------------------------
(* Publication                                                              *)

RecheckFinal(p) ==
    /\ pc[p] = "recheck"
    /\ IF final[target[p]] = NoDirectory
       THEN Goto(p, "rename") /\ UNCHANGED reason
       ELSE CleanUp(p, "appeared")
    /\ UNCHANGED <<fs, given, prepared, tracked, rootCreated, unseen, rootFlush, result,
                   budgets>>

\* Mutant: a rename that replaces what is there.
RenameReplacing(p) ==
    /\ pc[p] = "rename"
    /\ \/ /\ NoFault
          /\ final' = [final EXCEPT ![target[p]] = temp[p]]
          /\ temp' = [temp EXCEPT ![p] = NoDirectory]
          /\ Goto(p, "flushroot")
          /\ UNCHANGED reason
       \/ /\ Fault
          /\ \E why \in {"precommit", "unsupported"} : CleanUp(p, why)
          /\ UNCHANGED <<final, temp>>
    /\ UNCHANGED <<root, orphan, durable, given, prepared, tracked, rootCreated, unseen,
                   rootFlush, result, kills, losses>>

\* renameat2(RENAME_NOREPLACE) / MoveFileExW without flags.
Rename(p) ==
    /\ pc[p] = "rename"
    /\ LET b == target[p] IN
       \/ /\ final[b] = NoDirectory /\ NoFault
          /\ final' = [final EXCEPT ![b] = temp[p]]
          /\ temp' = [temp EXCEPT ![p] = NoDirectory]
          /\ Goto(p, "flushroot")
          /\ UNCHANGED reason
       \/ /\ final[b] # NoDirectory /\ NoFault
          /\ CleanUp(p, "appeared")
          /\ UNCHANGED <<final, temp>>
       \/ /\ Fault
          /\ \E why \in {"precommit", "unsupported"} : CleanUp(p, why)
          /\ UNCHANGED <<final, temp>>
    /\ UNCHANGED <<root, orphan, durable, given, prepared, tracked, rootCreated, unseen,
                   rootFlush, result, kills, losses>>

\* _fsync_directory(root): never a reason to stop.  Strict publishers report it.  It
\* brings the root's entries to the disk; the root's own name in the data directory,
\* which nobody flushes, it does not.
FlushRoot(p) ==
    /\ pc[p] = "flushroot"
    /\ \/ /\ platform = "posix" /\ NoFault
          /\ durable' = {b \in Bundles : final[b] # NoDirectory} \cup (durable \cap {"root"})
          /\ rootFlush' = [rootFlush EXCEPT ![p] = "passed"]
       \/ /\ platform = "windows" /\ NoFault
          /\ rootFlush' = [rootFlush EXCEPT ![p] = "unsupported"]
          /\ UNCHANGED durable
       \/ /\ platform = "posix" /\ Fault
          /\ rootFlush' = [rootFlush EXCEPT ![p] = "failed"]
          /\ UNCHANGED durable
    /\ Goto(p, "load")
    /\ UNCHANGED <<root, final, temp, orphan, given, prepared, tracked, rootCreated, reason,
                   unseen, result, kills, losses>>

\* The artifact is loaded again: what fails now is a verification that failed.
LoadStrict(p) ==
    /\ Strict
    /\ \/ NoFault /\ Loads(final[target[p]]) /\ Return(p, "published", TRUE, FALSE)
       \/ /\ IF Loads(final[target[p]]) THEN Fault ELSE NoFault
          /\ Return(p, "published_verification_failed", TRUE, FALSE)

\* Of a plan link too, unless the loader raises; that it is published is still said.
LoadLink(p) ==
    /\ kind = "link"
    /\ \/ NoFault /\ Loads(final[target[p]]) /\ Return(p, "published", TRUE, FALSE)
       \/ /\ Fault
          /\ \E s \in {"published_verification_failed", "publication_blocked"} :
                Return(p, s, TRUE, FALSE)

\* Of an operator solution it is a blocked publication, and when the loader raises
\* one that was not attempted.
LoadSolution(p) ==
    /\ kind = "solution"
    /\ \/ NoFault /\ Loads(final[target[p]]) /\ Return(p, "published", TRUE, FALSE)
       \/ Fault /\ \E said \in BOOLEAN : Return(p, "publication_blocked", said, FALSE)

LoadPublished(p) ==
    /\ pc[p] = "load"
    /\ LoadStrict(p) \/ LoadLink(p) \/ LoadSolution(p)
    /\ UNCHANGED <<fs, given, memory, kills, losses>>

-----------------------------------------------------------------------------
(* Every other end                                                          *)

\* Nothing is left in the private directory's place: on to the next step.
CleanedUp(p) ==
    \/ reason[p] = "appeared" /\ Goto(p, "existing") /\ UNCHANGED result
    \/ reason[p] # "appeared" /\ Strict /\ Goto(p, "rmroot") /\ UNCHANGED result
    \/ reason[p] # "appeared" /\ ~Strict /\ Return(p, "publication_blocked", FALSE, FALSE)

\* Something is.  A plan link's error says so; of an operator solution nothing does,
\* and not even a destination that appeared is looked at any more.
LeftOver(p) ==
    IF kind = "solution" THEN Return(p, "publication_blocked", FALSE, FALSE)
    ELSE IF reason[p] = "appeared"
    THEN /\ Goto(p, "existing")
         /\ residual' = [residual EXCEPT ![p] = TRUE]
         /\ UNCHANGED <<status, claimed>>
    ELSE Return(p, IF ~Strict THEN "publication_blocked"
                   ELSE IF reason[p] = "precommit" THEN "publication_failed_cleanup_incomplete"
                   ELSE "atomic_publication_unsupported", FALSE, TRUE)

\* Only tracked files are unlinked, and the directory goes only when nothing else
\* is in it.  An operator solution's cleanup that fails is tried once more.  When the
\* look at the directory itself fails, whatever the error, it counts as gone (of an
\* operator solution its files are unlinked first).
CleanUpTemporary(p) ==
    /\ pc[p] = "cleanup"
    /\ LET unknown == Entries(temp[p]) \ tracked[p]
           Keep(S) == temp' = [temp EXCEPT ![p].file =
                         [i \in Files |-> IF i \in S THEN temp[p].file[i] ELSE "absent"]]
           Remove  == temp' = [temp EXCEPT ![p] = NoDirectory]
       IN \/ unknown = {} /\ NoFault /\ Remove /\ CleanedUp(p) /\ UNCHANGED unseen
          \/ unknown # {} /\ NoFault /\ Keep(unknown) /\ LeftOver(p) /\ UNCHANGED unseen
          \/ /\ Fault /\ LeftOver(p) /\ UNCHANGED unseen
             /\ \/ \E S \in SUBSET Entries(temp[p]) : unknown \subseteq S /\ Keep(S)
                \/ kind = "solution" /\ Remove
          \/ /\ Fault /\ CleanedUp(p)
             /\ IF kind = "solution" THEN Keep({}) ELSE UNCHANGED temp
             /\ unseen' = [unseen EXCEPT ![p] = TRUE]
    /\ UNCHANGED <<root, final, orphan, durable, given, prepared, tracked, rootCreated, reason,
                   rootFlush, kills, losses>>

\* Mutant: an artifact that appeared meanwhile counts as a conflict.
ExistingDestinationConflict(p) ==
    /\ pc[p] = "existing"
    /\ \/ /\ NoFault
          /\ Return(p, IF Loads(final[target[p]]) /\ reason[p] # "appeared" THEN "already_present"
                       ELSE "publication_blocked",
                    FALSE, residual[p])
       \/ /\ Fault
          /\ Return(p, "publication_blocked", FALSE, residual[p])
    /\ UNCHANGED <<fs, given, memory, kills, losses>>

\* The directory under the final name decides: the very artifact, or a conflict.
ExistingStrict(p) ==
    /\ Strict
    /\ \/ /\ NoFault
          /\ Return(p, IF Loads(final[target[p]]) THEN "already_present"
                       ELSE "publication_blocked", FALSE, residual[p])
       \/ Fault /\ Return(p, "publication_blocked", FALSE, residual[p])

ExistingLink(p) ==
    /\ kind = "link"
    /\ LET conflict == IF residual[p] THEN "publication_blocked" ELSE "conflict" IN
       \/ /\ NoFault
          /\ Return(p, IF Loads(final[target[p]]) THEN "already_present" ELSE conflict,
                    FALSE, residual[p])
       \/ /\ Fault
          /\ \E s \in {conflict, "publication_blocked"} :
                Return(p, s, FALSE, residual[p])

ExistingSolution(p) ==
    /\ kind = "solution"
    /\ \/ /\ NoFault
          /\ Return(p, IF Loads(final[target[p]]) THEN "already_present" ELSE "conflict",
                    FALSE, FALSE)
       \/ Fault /\ \E s \in {"conflict", "publication_blocked"} : Return(p, s, FALSE, FALSE)

ExistingDestination(p) ==
    /\ pc[p] = "existing"
    /\ ExistingStrict(p) \/ ExistingLink(p) \/ ExistingSolution(p)
    /\ UNCHANGED <<fs, given, memory, kills, losses>>

\* _cleanup_publication_root, and the result it precedes.
RemoveRoot(p) ==
    /\ pc[p] = "rmroot"
    /\ \/ /\ rootCreated[p] /\ root /\ RootEmpty /\ NoFault
          /\ root' = FALSE
          /\ durable' = durable \ {"root"}
       \/ /\ IF rootCreated[p] /\ root /\ RootEmpty THEN Fault ELSE NoFault
          /\ UNCHANGED <<root, durable>>
    /\ Return(p, IF reason[p] = "unsupported" THEN "atomic_publication_unsupported"
                 ELSE "publication_failed_precommit", FALSE, FALSE)
    /\ UNCHANGED <<final, temp, orphan, given, memory, kills, losses>>

-----------------------------------------------------------------------------
(* Kills and power losses                                                   *)

\* The invocation is lost and the same publication is asked for again.
StartOver(P) ==
    /\ pc' = [p \in Publishers |-> IF p \in P THEN "start" ELSE pc[p]]
    /\ prepared' = [p \in Publishers |-> IF p \in P THEN 0 ELSE prepared[p]]
    /\ tracked' = [p \in Publishers |-> IF p \in P THEN {} ELSE tracked[p]]
    /\ rootCreated' = [p \in Publishers |-> rootCreated[p] /\ p \notin P]
    /\ reason' = [p \in Publishers |-> IF p \in P THEN "none" ELSE reason[p]]
    /\ unseen' = [p \in Publishers |-> unseen[p] /\ p \notin P]
    /\ rootFlush' = [p \in Publishers |-> IF p \in P THEN "not_attempted" ELSE rootFlush[p]]
    /\ residual' = [p \in Publishers |-> residual[p] /\ p \notin P]
    /\ UNCHANGED <<status, claimed>>

Kill(p) ==
    /\ pc[p] # "done"
    /\ kills < MaxKills
    /\ kills' = kills + 1
    /\ StartOver({p})
    /\ temp' = [temp EXCEPT ![p] = NoDirectory]
    /\ orphan' = (orphan \/ temp[p] # NoDirectory)
    /\ UNCHANGED <<root, final, durable, given, faults, losses>>

\* What may be left of a directory: without a flush of its entries any file may
\* be gone, without a flush of a file its content may be cut short.
Remains(d) ==
    {r \in Directory :
        /\ r.synced
        /\ \A i \in Files :
              r.file[i] \in (IF d.file[i] \in {"flushed", "other"} THEN {d.file[i]}
                             ELSE IF d.file[i] = "written" THEN {"flushed", "torn"}
                             ELSE {d.file[i]})
                            \cup (IF d.synced THEN {} ELSE {"absent"})}

AfterLoss(b) ==
    IF final[b] = NoDirectory THEN {NoDirectory}
    ELSE Remains(final[b]) \cup (IF {b, "root"} \subseteq durable THEN {} ELSE {NoDirectory})

\* A root whose name was never flushed may be gone with all that is in it, what was
\* flushed too.  What is there afterwards is on disk.
PowerLoss ==
    /\ losses < MaxPowerLosses
    /\ losses' = losses + 1
    /\ StartOver({p \in Publishers : pc[p] # "done"})
    /\ final' \in [Bundles -> UNION {AfterLoss(b) : b \in Bundles}]
    /\ \A b \in Bundles : final'[b] \in AfterLoss(b)
    /\ \E S \in SUBSET {p \in Publishers : pc[p] = "done"} :
          temp' = [p \in Publishers |-> IF p \in S THEN temp[p] ELSE NoDirectory]
    /\ orphan' \in {FALSE, orphan \/ \E p \in Publishers : pc[p] # "done" /\ temp[p] # NoDirectory}
    /\ root' \in {root, "root" \in durable}
    /\ \/ orphan'
       \/ \E b \in Bundles : final'[b] # NoDirectory
       \/ \E p \in Publishers : temp'[p] # NoDirectory
       => root'
    /\ durable' = {b \in Bundles : final'[b] # NoDirectory} \cup (IF root' THEN {"root"} ELSE {})
    /\ UNCHANGED <<given, faults, kills>>

Step(p) ==
    \/ Admit(p) \/ Derive(p) \/ InspectRoot(p) \/ CreateRoot(p) \/ InspectFinal(p)
    \/ CreateTemporaryDirectory(p)
    \/ WriteFile(p) \/ FlushFile(p) \/ VerifyFile(p) \/ SealPrepared(p) \/ FlushDirectory(p)
    \/ RecheckFinal(p) \/ Rename(p) \/ FlushRoot(p) \/ LoadPublished(p)
    \/ CleanUpTemporary(p) \/ ExistingDestination(p) \/ RemoveRoot(p)

Rest ==
    /\ \A p \in Publishers : pc[p] = "done"
    /\ UNCHANGED vars

Next ==
    \/ \E p \in Publishers : Step(p) \/ Kill(p)
    \/ PowerLoss
    \/ Rest

Spec == Init /\ [][Next]_vars

-----------------------------------------------------------------------------
(* What the publishers promise                                              *)

\* What stands under a final name, and what a result says, as the store has it.
\* An operator solution's blocked publication says nothing about the store.  An entry
\* is on disk when its directory, its name in the root and the root's own name are.
StoredAs(b) ==
    IF final[b] = NoDirectory THEN "missing" ELSE IF Whole(final[b]) THEN "whole" ELSE "other"
AnswerOf(p) ==
    IF status[p] = "none" THEN "none"
    ELSE IF claimed[p] THEN "published"
    ELSE IF status[p] = "already_present" THEN "present"
    ELSE IF kind = "solution" /\ status[p] = "publication_blocked" THEN "unknown"
    ELSE "refused"

Store == INSTANCE NoReplaceStore WITH
    store   <- [b \in Bundles |-> StoredAs(b)],
    durable <- {b \in durable \cap Bundles : "root" \in durable /\ final[b].synced},
    put     <- {p \in Publishers : pc[p] = "flushroot" \/ rootFlush[p] # "not_attempted"},
    answer  <- [p \in Publishers |-> AnswerOf(p)]

\* The publishers implement the store: an entry appears whole and only where
\* nothing was, stays as it is, outlives a power loss once it is on disk, and every
\* result is true of it - even a verification that failed, or a plan link that was
\* published before something failed, is not reported as a refusal.  A flush of the
\* root puts an entry on disk only beneath a root that was there before: a root this
\* invocation made is not (its name in the data directory is never flushed), and a
\* power loss may take an entry whose root flush "passed".
StoreImplemented == Store!Spec

\* An invocation that ends leaves its private directory behind only if its result
\* says so, through failing writes, unlinks and rmdirs, races and kills.  Two
\* exceptions: an operator solution's result has no place for it, and a cleanup whose
\* lstat of the directory fails answers "completed" and names nothing, although
\* docs/APPROVED_CHANGE_ARTIFACT_PERSISTENCE.md:211 says that an incomplete cleanup is
\* said explicitly (approved_change_artifact_persistence.py:1147-1152).
ResidueConfessed ==
    \A p \in Publishers : pc[p] = "done" /\ temp[p] # NoDirectory =>
        kind = "solution" \/ residual[p] \/ unseen[p]

\* Of two publishers of one artifact the slower one reports it as present: when no
\* call failed and an approval's source is there, meeting the artifact only at
\* publication is not an error.
LoserFindsBundle ==
    \A p \in Publishers : pc[p] = "done" /\ reason[p] = "appeared" /\ faults = 0 /\ source =>
        status[p] = "already_present"
=============================================================================
