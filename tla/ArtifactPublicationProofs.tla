------------------------ MODULE ArtifactPublicationProofs -----------------------
(***************************************************************************)
(* Proofs about ArtifactPublication, for any publishers, bundles and kinds,*)
(* any number of files, faults, kills and power losses: the publishers     *)
(* implement NoReplaceStore, confess what they leave behind, the slower of *)
(* two finds the bundle of the faster, and beneath a root that was there   *)
(* before, a root flush that a result reports as passed is worth it        *)
(* through every later power loss.                                         *)
(*                                                                         *)
(* A publication is a rename, so what a final name holds is what was       *)
(* prepared under the private one: Prepared says, phase by phase, which    *)
(* files are there and flushed.  Met says what a publisher that found no   *)
(* bundle can meet later under its final name: nothing, or a whole one.    *)
(***************************************************************************)
EXTENDS ArtifactPublication, TLAPS

\* Own is a prefix of the files.
OwnCount == IF kind = "bundle" THEN FileCount ELSE IF kind = "solution" THEN 2 ELSE 1

Flushed(d, n) == \A i \in Files : d.file[i] = IF i <= n THEN "flushed" ELSE "absent"

\* The private directory, phase by phase.
Prepared(p) ==
    /\ pc[p] \in {"start", "root", "mkroot", "inspect", "mktemp", "flushroot", "load"}
          => temp[p] = NoDirectory
    /\ pc[p] \in {"write", "flush", "verify", "seal", "flushdir", "recheck", "rename", "cleanup"}
          => temp[p] \in Directory
    /\ pc[p] \in {"start", "root", "mkroot", "inspect", "mktemp"} => prepared[p] = 0
    /\ pc[p] \in {"write", "flush", "verify"} => prepared[p] < OwnCount
    /\ pc[p] = "write" => Flushed(temp[p], prepared[p])
    /\ pc[p] = "flush" => \A i \in Files : temp[p].file[i] =
          IF i <= prepared[p] THEN "flushed" ELSE IF i = prepared[p] + 1 THEN "written" ELSE "absent"
    /\ pc[p] = "verify" => Flushed(temp[p], prepared[p] + 1)
    /\ pc[p] \in {"seal", "flushdir", "recheck", "rename"} => Flushed(temp[p], OwnCount)

\* What it will unlink.
Tracked(p) ==
    /\ pc[p] = "write" => 1 .. prepared[p] \subseteq tracked[p]
    /\ pc[p] \in {"flush", "verify"} => 1 .. prepared[p] + 1 \subseteq tracked[p]
    /\ pc[p] \in {"seal", "flushdir", "recheck", "rename"} => Own \subseteq tracked[p]
    /\ pc[p] = "cleanup" /\ reason[p] = "appeared" => Entries(temp[p]) \subseteq tracked[p]

\* What stands under its final name once it found nothing there.
Met(p) ==
    /\ pc[p] \notin {"cleanup", "existing", "rmroot", "done"} => reason[p] = "none"
    /\ pc[p] = "rmroot" => reason[p] # "appeared"
    /\ pc[p] \in {"mktemp", "write", "flush", "verify", "seal", "flushdir", "recheck", "rename"}
          => final[target[p]] = NoDirectory \/ Whole(final[target[p]])
    /\ pc[p] \in {"cleanup", "existing"} /\ reason[p] = "appeared" => Whole(final[target[p]])
    /\ pc[p] \in {"flushroot", "load"} => Whole(final[target[p]])

\* What it has returned.
Returned(p) ==
    /\ status[p] = "none" <=> pc[p] # "done"
    /\ rootFlush[p] # "not_attempted" => pc[p] \in {"load", "done"}
    /\ pc[p] = "load" => rootFlush[p] # "not_attempted"
    /\ pc[p] \in {"existing", "done"} /\ temp[p] # NoDirectory
          => kind = "solution" \/ residual[p] \/ unseen[p]
    /\ pc[p] = "rmroot" /\ temp[p] # NoDirectory => unseen[p]
    /\ pc[p] = "done" /\ reason[p] = "appeared" /\ faults = 0 /\ source
          => status[p] = "already_present"

\* Under the final names nothing is half flushed, and only what is there is durable.
FinalInv ==
    /\ \A b \in Bundles : final[b] # NoDirectory => \A i \in Files : final[b].file[i] # "written"
    /\ \A b \in durable \cap Bundles : final[b] # NoDirectory
    /\ "root" \in durable => root

IInv ==
    /\ TypeOK /\ FinalInv
    /\ \A p \in Publishers : Prepared(p) /\ Tracked(p) /\ Met(p) /\ Returned(p)

-----------------------------------------------------------------------------
(* Types.                                                                   *)
LEMMA TypeParts ==
    ASSUME TypeOK
    PROVE  /\ root \in BOOLEAN /\ orphan \in BOOLEAN
           /\ final \in [Bundles -> Directory \cup {NoDirectory}]
           /\ temp \in [Publishers -> Directory \cup {NoDirectory}]
           /\ durable \subseteq Bundles \cup {"root"}
           /\ kind \in Kinds
           /\ target \in [Publishers -> Bundles] /\ pc \in [Publishers -> Phases]
           /\ prepared \in [Publishers -> 0..FileCount]
           /\ tracked \in [Publishers -> SUBSET Files]
           /\ rootCreated \in [Publishers -> BOOLEAN] /\ reason \in [Publishers -> Reasons]
           /\ rootFlush \in [Publishers -> {"not_attempted", "passed", "unsupported", "failed"}]
           /\ unseen \in [Publishers -> BOOLEAN]
           /\ status \in [Publishers -> Statuses] /\ claimed \in [Publishers -> BOOLEAN]
           /\ residual \in [Publishers -> BOOLEAN]
           /\ faults \in 0..MaxFaults /\ kills \in 0..MaxKills /\ losses \in 0..MaxPowerLosses
BY DEF TypeOK

LEMMA OwnPrefix ==
    ASSUME TypeOK
    PROVE  Own = 1 .. OwnCount /\ OwnCount \in 1..FileCount /\ Own \subseteq Files
<1>1. FileCount \in Nat /\ FileCount >= 2
  BY BoundsAssumption
<1>2. kind \in {"bundle", "approval", "link", "solution"}
  BY KindsAssumption DEF TypeOK
<1>3. Files = 1 .. FileCount
  BY DEF Files
<1>4. CASE kind = "bundle"
  BY <1>1, <1>3, <1>4 DEF Own, OwnCount
<1>5. CASE kind = "solution"
  BY <1>1, <1>3, <1>5 DEF Own, OwnCount
<1>6. CASE kind \in {"approval", "link"}
  BY <1>1, <1>3, <1>6 DEF Own, OwnCount
<1> QED BY <1>2, <1>4, <1>5, <1>6

LEMMA FaultTyped ==
    ASSUME TypeOK
    PROVE  /\ Fault => faults' \in 0..MaxFaults /\ faults' > 0
           /\ NoFault => faults' \in 0..MaxFaults
BY BoundsAssumption DEF TypeOK, Fault, NoFault

LEMMA GotoTyped ==
    ASSUME TypeOK, NEW p \in Publishers, NEW phase \in Phases, Goto(p, phase)
    PROVE  pc' \in [Publishers -> Phases]
BY DEF TypeOK, Goto

LEMMA CleanUpTyped ==
    ASSUME TypeOK, NEW p \in Publishers, NEW why \in Reasons, CleanUp(p, why)
    PROVE  pc' \in [Publishers -> Phases] /\ reason' \in [Publishers -> Reasons]
BY DEF TypeOK, CleanUp, Goto, Phases

ResultTyped ==
    /\ pc \in [Publishers -> Phases] /\ status \in [Publishers -> Statuses]
    /\ claimed \in [Publishers -> BOOLEAN] /\ residual \in [Publishers -> BOOLEAN]

LEMMA ReturnTyped ==
    ASSUME TypeOK, NEW p \in Publishers, NEW s \in Statuses, NEW published \in BOOLEAN,
           NEW left \in BOOLEAN, Return(p, s, published, left)
    PROVE  ResultTyped'
BY DEF TypeOK, Return, Goto, Phases, ResultTyped

\* A directory with one file changed.
LEMMA FileChanged ==
    ASSUME NEW d \in Directory, NEW i \in Files, NEW s \in FileStates
    PROVE  /\ [d EXCEPT !.file[i] = s] \in Directory
           /\ \A j \in Files : [d EXCEPT !.file[i] = s].file[j] = IF j = i THEN s ELSE d.file[j]
           /\ [d EXCEPT !.file[i] = s].synced = d.synced
BY DEF Directory

LEMMA BeginTyped ==
    ASSUME TypeOK, NEW p \in Publishers,
           \/ Admit(p) \/ Derive(p) \/ InspectRoot(p) \/ CreateRoot(p) \/ InspectFinal(p)
           \/ CreateTemporaryDirectory(p)
    PROVE  TypeOK'
<1> USE TypeParts
<1>1. CASE Admit(p) \/ Derive(p)
  <2>1. ResultTyped'
    <3>1. CASE Goto(p, "root") /\ UNCHANGED result
      BY <3>1, GotoTyped DEF Phases, ResultTyped, result
    <3>2. CASE \E s \in {"invalid_publication_input", "publication_blocked"} :
                  Return(p, s, FALSE, FALSE)
      BY <3>2, ReturnTyped DEF Statuses
    <3> QED BY <1>1, <3>1, <3>2 DEF Admit, Derive
  <2>2. UNCHANGED <<fs, given, memory, budgets>>
    BY <1>1 DEF Admit, Derive
  <2> QED BY <2>1, <2>2 DEF TypeOK, ResultTyped, fs, given, memory, budgets
<1>2. CASE InspectRoot(p) \/ InspectFinal(p)
  <2>1. PICK phase \in {"inspect", "mkroot", "existing", "mktemp"} : Goto(p, phase)
    <3>1. CASE InspectRoot(p)
      <4>1. (IF root THEN "inspect" ELSE "mkroot") \in {"inspect", "mkroot", "existing", "mktemp"}
        OBVIOUS
      <4> QED BY <3>1, <4>1, Zenon DEF InspectRoot
    <3>2. CASE InspectFinal(p)
      <4>1. (IF final[target[p]] # NoDirectory THEN "existing" ELSE "mktemp")
               \in {"inspect", "mkroot", "existing", "mktemp"}
        OBVIOUS
      <4> QED BY <3>2, <4>1, Zenon DEF InspectFinal
    <3> QED BY <1>2, <3>1, <3>2
  <2>2. pc' \in [Publishers -> Phases]
    BY <2>1, GotoTyped DEF Phases
  <2>3. UNCHANGED <<fs, given, memory, result, budgets>>
    BY <1>2, Zenon DEF InspectRoot, InspectFinal
  <2> QED BY <2>2, <2>3 DEF TypeOK, fs, given, memory, result, budgets
<1>3. CASE CreateRoot(p)
  <2>1. CASE root' = TRUE /\ rootCreated' = [rootCreated EXCEPT ![p] = Strict]
             /\ Goto(p, "inspect") /\ UNCHANGED result
    <3>1. ResultTyped'
      BY <2>1, GotoTyped DEF Phases, ResultTyped, result
    <3>2. Strict \in BOOLEAN
      BY DEF Strict
    <3>3. rootCreated' \in [Publishers -> BOOLEAN]
      BY <2>1, <3>2, Zenon
    <3> QED
      BY <1>3, <2>1, <3>1, <3>3, FaultTyped DEF CreateRoot, TypeOK, ResultTyped, given
  <2>2. CASE /\ UNCHANGED <<root, rootCreated>>
             /\ Return(p, IF Strict THEN "publication_failed_precommit"
                          ELSE IF root /\ kind = "link" THEN "conflict"
                          ELSE "publication_blocked", FALSE, FALSE)
    <3>1. ResultTyped'
      BY <2>2, ReturnTyped DEF Statuses
    <3> QED BY <1>3, <2>2, <3>1, FaultTyped DEF CreateRoot, TypeOK, ResultTyped, given
  <2> QED BY <1>3, <2>1, <2>2 DEF CreateRoot
<1>4. CASE CreateTemporaryDirectory(p)
  <2>1. EmptyDirectory \in Directory
    BY DEF EmptyDirectory, Directory, FileStates
  <2>2. temp' \in [Publishers -> Directory \cup {NoDirectory}]
        /\ tracked' \in [Publishers -> SUBSET Files]
    <3>1. \/ /\ temp' = [temp EXCEPT ![p] = EmptyDirectory]
             /\ tracked' = [tracked EXCEPT ![p] = IF Strict THEN {} ELSE Own]
          \/ UNCHANGED <<temp, tracked>>
      BY <1>4, Zenon DEF CreateTemporaryDirectory
    <3>2. PICK known \in SUBSET Files : tracked' = tracked \/ tracked' = [tracked EXCEPT ![p] = known]
      <4>1. (IF Strict THEN {} ELSE Own) \in SUBSET Files
        BY OwnPrefix
      <4> QED BY <3>1, <4>1, Zenon
    <3>3. tracked' \in [Publishers -> SUBSET Files]
      BY <3>2
    <3>4. temp' \in [Publishers -> Directory \cup {NoDirectory}]
      <4>1. temp' = temp \/ temp' = [temp EXCEPT ![p] = EmptyDirectory]
        BY <3>1, Zenon
      <4> QED BY <2>1, <4>1
    <3> QED BY <3>3, <3>4
  <2>3. ResultTyped'
    <3>1. CASE \E phase \in {"write", "rmroot"} : Goto(p, phase) /\ UNCHANGED result
      BY <3>1, GotoTyped DEF Phases, ResultTyped, result
    <3>2. CASE Return(p, "publication_blocked", FALSE, FALSE)
      BY <3>2, ReturnTyped DEF Statuses
    <3> QED BY <1>4, <3>1, <3>2 DEF CreateTemporaryDirectory
  <2> QED
    BY <1>4, <2>2, <2>3, FaultTyped DEF CreateTemporaryDirectory, TypeOK, ResultTyped, given
<1> QED BY <1>1, <1>2, <1>3, <1>4

LEMMA PrepareTyped ==
    ASSUME TypeOK, NEW p \in Publishers, Prepared(p),
           \/ WriteFile(p) \/ FlushFile(p) \/ VerifyFile(p) \/ SealPrepared(p) \/ FlushDirectory(p)
    PROVE  TypeOK'
<1> USE TypeParts
<1>0. /\ {"flush", "verify", "write", "seal", "flushdir", "recheck", "rename"} \subseteq Phases
      /\ "precommit" \in Reasons /\ {"written", "torn", "flushed"} \subseteq FileStates
  BY DEF Phases, Reasons, FileStates
<1>1. CASE WriteFile(p)
  <2>1. temp[p] \in Directory /\ prepared[p] + 1 \in Files
    BY <1>1, OwnPrefix DEF WriteFile, Prepared, Files
  <2>2. temp' \in [Publishers -> Directory \cup {NoDirectory}]
    <3>1. \A s \in {"written", "torn"} :
             [temp EXCEPT ![p].file[prepared[p] + 1] = s] \in [Publishers -> Directory \cup {NoDirectory}]
      BY <1>0, <2>1, FileChanged
    <3> QED BY <1>1, <3>1 DEF WriteFile
  <2>3. tracked' \in [Publishers -> SUBSET Files]
    BY <1>1, <2>1 DEF WriteFile
  <2>4. pc' \in [Publishers -> Phases] /\ reason' \in [Publishers -> Reasons]
    BY <1>0, <1>1, GotoTyped, CleanUpTyped DEF WriteFile
  <2> QED BY <1>1, <2>2, <2>3, <2>4, FaultTyped DEF WriteFile, TypeOK, given, result
<1>2. CASE FlushFile(p)
  <2>1. temp[p] \in Directory /\ prepared[p] + 1 \in Files
    BY <1>2, OwnPrefix DEF FlushFile, Prepared, Files
  <2>2. temp' \in [Publishers -> Directory \cup {NoDirectory}]
    <3>1. [temp EXCEPT ![p].file[prepared[p] + 1] = "flushed"]
             \in [Publishers -> Directory \cup {NoDirectory}]
      BY <1>0, <2>1, FileChanged
    <3> QED BY <1>2, <3>1 DEF FlushFile
  <2>3. pc' \in [Publishers -> Phases] /\ reason' \in [Publishers -> Reasons]
    BY <1>0, <1>2, GotoTyped, CleanUpTyped DEF FlushFile
  <2> QED BY <1>2, <2>2, <2>3, FaultTyped DEF FlushFile, TypeOK, given, result
<1>3. CASE VerifyFile(p)
  <2>1. prepared' \in [Publishers -> 0..FileCount]
    <3>1. prepared' = prepared \/ prepared' = [prepared EXCEPT ![p] = prepared[p] + 1]
      BY <1>3, Zenon DEF VerifyFile
    <3>2. prepared[p] < OwnCount
      BY <1>3, Zenon DEF VerifyFile, Prepared
    <3>3. prepared[p] \in 0..FileCount /\ OwnCount \in 1..FileCount
      BY OwnPrefix
    <3>4. prepared[p] + 1 \in 0..FileCount
      BY <3>2, <3>3, BoundsAssumption
    <3> QED BY <3>1, <3>4
  <2>2. pc' \in [Publishers -> Phases] /\ reason' \in [Publishers -> Reasons]
    BY <1>0, <1>3, GotoTyped, CleanUpTyped DEF VerifyFile
  <2> QED BY <1>3, <2>1, <2>2, FaultTyped DEF VerifyFile, TypeOK, fs, given, result
<1>4. CASE SealPrepared(p)
  <2>1. pc' \in [Publishers -> Phases] /\ reason' \in [Publishers -> Reasons]
    BY <1>0, <1>4, GotoTyped, CleanUpTyped DEF SealPrepared
  <2> QED BY <1>4, <2>1, FaultTyped DEF SealPrepared, TypeOK, fs, given, result
<1>5. CASE FlushDirectory(p)
  <2>1. temp' \in [Publishers -> Directory \cup {NoDirectory}]
    <3>1. temp[p] \in Directory
      BY <1>5 DEF FlushDirectory, Prepared
    <3>2. [temp[p] EXCEPT !.synced = TRUE] \in Directory
      BY <3>1 DEF Directory
    <3> QED BY <1>5, <3>2 DEF FlushDirectory
  <2>2. pc' \in [Publishers -> Phases] /\ reason' \in [Publishers -> Reasons]
    BY <1>0, <1>5, GotoTyped, CleanUpTyped DEF FlushDirectory
  <2> QED BY <1>5, <2>1, <2>2, FaultTyped DEF FlushDirectory, TypeOK, given, result
<1> QED BY <1>1, <1>2, <1>3, <1>4, <1>5

LEMMA PublishTyped ==
    ASSUME TypeOK, NEW p \in Publishers,
           RecheckFinal(p) \/ Rename(p) \/ FlushRoot(p) \/ LoadPublished(p)
    PROVE  TypeOK'
<1> USE TypeParts
<1>0. /\ {"rename", "flushroot", "load"} \subseteq Phases
      /\ {"precommit", "unsupported", "appeared"} \subseteq Reasons
  BY DEF Phases, Reasons
<1>1. CASE RecheckFinal(p)
  <2>1. pc' \in [Publishers -> Phases] /\ reason' \in [Publishers -> Reasons]
    BY <1>0, <1>1, GotoTyped, CleanUpTyped DEF RecheckFinal
  <2> QED BY <1>1, <2>1 DEF RecheckFinal, TypeOK, fs, given, result, budgets
<1>2. CASE Rename(p)
  <2>1. pc' \in [Publishers -> Phases] /\ reason' \in [Publishers -> Reasons]
    BY <1>0, <1>2, GotoTyped, CleanUpTyped DEF Rename
  <2>2. final' \in [Bundles -> Directory \cup {NoDirectory}]
        /\ temp' \in [Publishers -> Directory \cup {NoDirectory}]
    BY <1>2 DEF Rename
  <2> QED BY <1>2, <2>1, <2>2, FaultTyped DEF Rename, TypeOK, given, result
<1>3. CASE FlushRoot(p)
  <2>1. pc' \in [Publishers -> Phases]
    BY <1>0, <1>3, GotoTyped DEF FlushRoot
  <2>2. durable' \subseteq Bundles \cup {"root"}
    BY <1>3 DEF FlushRoot
  <2>3. rootFlush' \in [Publishers -> {"not_attempted", "passed", "unsupported", "failed"}]
    BY <1>3 DEF FlushRoot
  <2> QED BY <1>3, <2>1, <2>2, <2>3, FaultTyped DEF FlushRoot, TypeOK, given, result
<1>4. CASE LoadPublished(p)
  <2>1. ResultTyped'
    <3>1. PICK s \in {"published", "published_verification_failed", "publication_blocked"},
               said \in BOOLEAN : Return(p, s, said, FALSE)
      BY <1>4 DEF LoadPublished, LoadStrict, LoadLink, LoadSolution
    <3> QED BY <3>1, ReturnTyped DEF Statuses
  <2>2. faults' \in 0..MaxFaults
    BY <1>4, FaultTyped DEF LoadPublished, LoadStrict, LoadLink, LoadSolution
  <2> QED BY <1>4, <2>1, <2>2 DEF LoadPublished, TypeOK, ResultTyped, fs, given, memory
<1> QED BY <1>1, <1>2, <1>3, <1>4

\* What is kept of a directory is one.
LEMMA KeptDirectory ==
    ASSUME NEW d \in Directory, NEW S
    PROVE  [d EXCEPT !.file = [i \in Files |-> IF i \in S THEN d.file[i] ELSE "absent"]] \in Directory
BY DEF Directory, FileStates

LEMMA EndTyped ==
    ASSUME TypeOK, NEW p \in Publishers, Prepared(p),
           CleanUpTemporary(p) \/ ExistingDestination(p) \/ RemoveRoot(p)
    PROVE  TypeOK'
<1> USE TypeParts
<1>1. CASE CleanUpTemporary(p)
  <2>1. temp[p] \in Directory
    BY <1>1 DEF CleanUpTemporary, Prepared
  <2>2. temp' \in [Publishers -> Directory \cup {NoDirectory}]
    <3>1. CASE temp' = [temp EXCEPT ![p] = NoDirectory]
      BY <3>1
    <3>2. CASE \E S : temp' = [temp EXCEPT ![p].file =
                         [i \in Files |-> IF i \in S THEN temp[p].file[i] ELSE "absent"]]
      <4>1. PICK S : temp' = [temp EXCEPT ![p].file =
                         [i \in Files |-> IF i \in S THEN temp[p].file[i] ELSE "absent"]]
        BY <3>2
      <4>2. [temp[p] EXCEPT !.file = [i \in Files |-> IF i \in S THEN temp[p].file[i] ELSE "absent"]]
            \in Directory
        BY <2>1, KeptDirectory
      <4> QED BY <4>1, <4>2
    <3>3. CASE temp' = temp
      BY <3>3
    <3> DEFINE Kept(S) == temp' = [temp EXCEPT ![p].file =
                             [i \in Files |-> IF i \in S THEN temp[p].file[i] ELSE "absent"]]
    <3>4. \/ temp' = [temp EXCEPT ![p] = NoDirectory] \/ temp' = temp
          \/ Kept(Entries(temp[p]) \ tracked[p]) \/ Kept({})
          \/ \E S \in SUBSET Entries(temp[p]) : Kept(S)
      BY <1>1 DEF CleanUpTemporary
    <3>5. (\E S : Kept(S)) => temp' \in [Publishers -> Directory \cup {NoDirectory}]
      BY <3>2
    <3> HIDE DEF Kept
    <3> QED BY <3>1, <3>3, <3>4, <3>5
  <2>5. unseen' \in [Publishers -> BOOLEAN]
    BY <1>1 DEF CleanUpTemporary
  <2>3. CASE CleanedUp(p)
    <3>1. ResultTyped'
      <4>1. CASE \E phase \in {"existing", "rmroot"} : Goto(p, phase) /\ UNCHANGED result
        BY <4>1, GotoTyped DEF Phases, ResultTyped, result
      <4>2. CASE Return(p, "publication_blocked", FALSE, FALSE)
        BY <4>2, ReturnTyped DEF Statuses
      <4> QED BY <2>3, <4>1, <4>2 DEF CleanedUp
    <3> QED
      BY <1>1, <2>2, <2>5, <3>1, FaultTyped DEF CleanUpTemporary, TypeOK, ResultTyped, given, memory
  <2>4. CASE LeftOver(p)
    <3>1. ResultTyped'
      <4>1. CASE /\ Goto(p, "existing") /\ UNCHANGED <<status, claimed>>
                 /\ residual' = [residual EXCEPT ![p] = TRUE]
        BY <4>1, GotoTyped DEF Phases, ResultTyped
      <4>2. CASE \E s \in {"publication_blocked", "publication_failed_cleanup_incomplete",
                            "atomic_publication_unsupported"}, left \in BOOLEAN :
                    Return(p, s, FALSE, left)
        BY <4>2, ReturnTyped DEF Statuses
      <4> QED BY <2>4, <4>1, <4>2 DEF LeftOver
    <3> QED
      BY <1>1, <2>2, <2>5, <3>1, FaultTyped DEF CleanUpTemporary, TypeOK, ResultTyped, given, memory
  <2> QED BY <1>1, <2>3, <2>4 DEF CleanUpTemporary
<1>2. CASE ExistingDestination(p)
  <2>1. PICK s \in {"already_present", "publication_blocked", "conflict"}, left \in BOOLEAN :
           Return(p, s, FALSE, left)
    BY <1>2 DEF ExistingDestination, ExistingStrict, ExistingLink, ExistingSolution
  <2>2. ResultTyped'
    BY <2>1, ReturnTyped DEF Statuses
  <2>3. faults' \in 0..MaxFaults
    BY <1>2, FaultTyped DEF ExistingDestination, ExistingStrict, ExistingLink, ExistingSolution
  <2> QED BY <1>2, <2>2, <2>3 DEF ExistingDestination, TypeOK, ResultTyped, fs, given, memory
<1>3. CASE RemoveRoot(p)
  <2>1. ResultTyped'
    BY <1>3, ReturnTyped DEF RemoveRoot, Statuses
  <2>2. root' \in BOOLEAN /\ durable' \subseteq Bundles \cup {"root"} /\ faults' \in 0..MaxFaults
    BY <1>3, FaultTyped DEF RemoveRoot
  <2> QED BY <1>3, <2>1, <2>2 DEF RemoveRoot, TypeOK, ResultTyped, given, memory
<1> QED BY <1>1, <1>2, <1>3

\* Starting over, alone or all together.
LEMMA StartOverTyped ==
    ASSUME TypeOK, NEW P \in SUBSET Publishers, StartOver(P)
    PROVE  /\ ResultTyped' /\ unseen' \in [Publishers -> BOOLEAN]
           /\ prepared' \in [Publishers -> 0..FileCount]
           /\ tracked' \in [Publishers -> SUBSET Files]
           /\ rootCreated' \in [Publishers -> BOOLEAN] /\ reason' \in [Publishers -> Reasons]
           /\ rootFlush' \in [Publishers -> {"not_attempted", "passed", "unsupported", "failed"}]
<1> USE TypeParts
<1>1. pc' \in [Publishers -> Phases] /\ UNCHANGED <<status, claimed>>
  BY DEF StartOver, Phases
<1>2. prepared' \in [Publishers -> 0..FileCount] /\ tracked' \in [Publishers -> SUBSET Files]
  BY BoundsAssumption DEF StartOver
<1>3. /\ rootCreated' \in [Publishers -> BOOLEAN] /\ unseen' \in [Publishers -> BOOLEAN]
      /\ residual' \in [Publishers -> BOOLEAN]
  <2>1. \A p \in Publishers : /\ (rootCreated[p] /\ p \notin P) \in BOOLEAN
                              /\ (unseen[p] /\ p \notin P) \in BOOLEAN
                              /\ (residual[p] /\ p \notin P) \in BOOLEAN
    OBVIOUS
  <2> QED BY <2>1, Zenon DEF StartOver
<1>4. reason' \in [Publishers -> Reasons]
      /\ rootFlush' \in [Publishers -> {"not_attempted", "passed", "unsupported", "failed"}]
  BY DEF StartOver, Reasons
<1> QED BY <1>1, <1>2, <1>3, <1>4 DEF ResultTyped

LEMMA LossTyped ==
    ASSUME TypeOK, (\E p \in Publishers : Kill(p)) \/ PowerLoss
    PROVE  TypeOK'
<1> USE TypeParts
<1>1. CASE \E p \in Publishers : Kill(p)
  <2>1. PICK p \in Publishers : Kill(p)
    BY <1>1
  <2>2. kills' \in 0..MaxKills
    BY <2>1, BoundsAssumption DEF Kill
  <2>3. orphan' \in BOOLEAN
    BY <2>1, Zenon DEF Kill
  <2>4. StartOver({p})
    BY <2>1 DEF Kill
  <2>5. temp' \in [Publishers -> Directory \cup {NoDirectory}]
    BY <2>1 DEF Kill
  <2> QED BY <2>1, <2>2, <2>3, <2>4, <2>5, StartOverTyped DEF Kill, TypeOK, ResultTyped, given
<1>2. CASE PowerLoss
  <2>1. StartOver({p \in Publishers : pc[p] # "done"})
    BY <1>2 DEF PowerLoss
  <2>2. final' \in [Bundles -> Directory \cup {NoDirectory}]
    <3>1. \A b \in Bundles : AfterLoss(b) \subseteq Directory \cup {NoDirectory}
      BY DEF AfterLoss, Remains
    <3> QED BY <1>2, <3>1 DEF PowerLoss
  <2>3. losses' \in 0..MaxPowerLosses
    BY <1>2, BoundsAssumption DEF PowerLoss
  <2>4. orphan' \in BOOLEAN
    <3>1. (\E p \in Publishers : pc[p] # "done" /\ temp[p] # NoDirectory) \in BOOLEAN
      OBVIOUS
    <3> QED BY <1>2, <3>1, Zenon DEF PowerLoss
  <2>5. root' \in BOOLEAN
    <3>1. ("root" \in durable) \in BOOLEAN
      OBVIOUS
    <3> QED BY <1>2, <3>1, Zenon DEF PowerLoss
  <2>6. durable' \subseteq Bundles \cup {"root"}
    BY <1>2 DEF PowerLoss
  <2>7. temp' \in [Publishers -> Directory \cup {NoDirectory}]
    BY <1>2 DEF PowerLoss
  <2> QED
    BY <1>2, <2>1, <2>2, <2>3, <2>4, <2>5, <2>6, <2>7, StartOverTyped DEF PowerLoss, TypeOK, ResultTyped, given
<1> QED BY <1>1, <1>2

LEMMA TypeNext ==
    ASSUME TypeOK, \A p \in Publishers : Prepared(p), [Next]_vars
    PROVE  TypeOK'
<1>1. CASE \E p \in Publishers : Step(p)
  BY <1>1, BeginTyped, PrepareTyped, PublishTyped, EndTyped DEF Step
<1>2. CASE (\E p \in Publishers : Kill(p)) \/ PowerLoss
  BY <1>2, LossTyped
<1>3. CASE UNCHANGED vars
  BY <1>3 DEF TypeOK, vars, fs, given, memory, result, budgets
<1> QED BY <1>1, <1>2, <1>3 DEF Next, Rest

-----------------------------------------------------------------------------
(* A step is its publisher's alone, and under the final names it only adds. *)
Alone(p) ==
    \A q \in Publishers : q # p =>
        /\ pc'[q] = pc[q] /\ temp'[q] = temp[q] /\ prepared'[q] = prepared[q]
        /\ tracked'[q] = tracked[q] /\ reason'[q] = reason[q] /\ rootFlush'[q] = rootFlush[q]
        /\ status'[q] = status[q] /\ claimed'[q] = claimed[q] /\ residual'[q] = residual[q]
        /\ unseen'[q] = unseen[q]

Adds(p) ==
    /\ given' = given
    /\ faults' = 0 => faults = 0
    /\ \A b \in Bundles : b # target[p] \/ final[b] # NoDirectory => final'[b] = final[b]

LEMMA StepAlone ==
    ASSUME TypeOK, NEW p \in Publishers, Step(p)
    PROVE  Alone(p)
<1> SUFFICES ASSUME NEW q \in Publishers, q # p
             PROVE  /\ pc'[q] = pc[q] /\ temp'[q] = temp[q] /\ prepared'[q] = prepared[q]
                    /\ tracked'[q] = tracked[q] /\ reason'[q] = reason[q]
                    /\ rootFlush'[q] = rootFlush[q] /\ status'[q] = status[q]
                    /\ claimed'[q] = claimed[q] /\ residual'[q] = residual[q]
                    /\ unseen'[q] = unseen[q]
  BY DEF Alone
<1> USE TypeParts DEF Goto, Return, CleanUp, fs, given, memory, result, budgets
<1>1. CASE Admit(p) \/ Derive(p)
  BY <1>1 DEF Admit, Derive
<1>2. CASE InspectRoot(p)
  BY <1>2 DEF InspectRoot
<1>3. CASE CreateRoot(p)
  BY <1>3 DEF CreateRoot
<1>4. CASE InspectFinal(p)
  BY <1>4 DEF InspectFinal
<1>5. CASE CreateTemporaryDirectory(p)
  BY <1>5 DEF CreateTemporaryDirectory
<1>6. CASE WriteFile(p)
  BY <1>6 DEF WriteFile
<1>7. CASE FlushFile(p)
  BY <1>7 DEF FlushFile
<1>8. CASE VerifyFile(p)
  BY <1>8 DEF VerifyFile
<1>9. CASE SealPrepared(p)
  BY <1>9 DEF SealPrepared
<1>10. CASE FlushDirectory(p)
  BY <1>10 DEF FlushDirectory
<1>11. CASE RecheckFinal(p)
  BY <1>11 DEF RecheckFinal
<1>12. CASE Rename(p)
  BY <1>12 DEF Rename
<1>13. CASE FlushRoot(p)
  BY <1>13 DEF FlushRoot
<1>14. CASE LoadPublished(p)
  BY <1>14 DEF LoadPublished, LoadStrict, LoadLink, LoadSolution
<1>15. CASE CleanUpTemporary(p)
  BY <1>15 DEF CleanUpTemporary, CleanedUp, LeftOver
<1>16. CASE ExistingDestination(p)
  BY <1>16 DEF ExistingDestination, ExistingStrict, ExistingLink, ExistingSolution
<1>17. CASE RemoveRoot(p)
  BY <1>17 DEF RemoveRoot
<1> QED
  BY <1>1, <1>2, <1>3, <1>4, <1>5, <1>6, <1>7, <1>8, <1>9, <1>10, <1>11, <1>12, <1>13, <1>14,
     <1>15, <1>16, <1>17 DEF Step

LEMMA StepAdds ==
    ASSUME TypeOK, NEW p \in Publishers, Step(p)
    PROVE  Adds(p)
<1> USE TypeParts DEF given
<1>0. (Fault => (faults' = 0 => faults = 0)) /\ (NoFault => (faults' = 0 => faults = 0))
  BY FaultTyped DEF NoFault
<1>1. given' = given
  BY Zenon DEF Step, Admit, Derive, InspectRoot, CreateRoot, InspectFinal, CreateTemporaryDirectory,
     WriteFile, FlushFile, VerifyFile, SealPrepared, FlushDirectory, RecheckFinal, Rename,
     FlushRoot, LoadPublished, CleanUpTemporary, ExistingDestination, RemoveRoot
<1>2. faults' = 0 => faults = 0
  BY <1>0, Zenon DEF Step, Admit, Derive, InspectRoot, CreateRoot, InspectFinal,
     CreateTemporaryDirectory, WriteFile, FlushFile, VerifyFile, SealPrepared, FlushDirectory,
     RecheckFinal, Rename, FlushRoot, LoadPublished, LoadStrict, LoadLink, LoadSolution,
     CleanUpTemporary, ExistingDestination, ExistingStrict, ExistingLink, ExistingSolution,
     RemoveRoot, budgets
<1>3. final' = final \/ Rename(p)
  BY Zenon DEF Step, Admit, Derive, InspectRoot, CreateRoot, InspectFinal, CreateTemporaryDirectory,
     WriteFile, FlushFile, VerifyFile, SealPrepared, FlushDirectory, RecheckFinal,
     FlushRoot, LoadPublished, CleanUpTemporary, ExistingDestination, RemoveRoot, fs
<1>4. \A b \in Bundles : b # target[p] \/ final[b] # NoDirectory => final'[b] = final[b]
  BY <1>3 DEF Rename
<1> QED BY <1>1, <1>2, <1>4 DEF Adds

\* What is invariant of one publisher.
LocalInv(p) == Prepared(p) /\ Tracked(p) /\ Met(p) /\ Returned(p)

\* What is added under a final name is a whole artifact, flushed.
LEMMA RenameWhole ==
    ASSUME TypeOK, NEW p \in Publishers, Rename(p), Prepared(p)
    PROVE  \A b \in Bundles : final'[b] # final[b] =>
              /\ final[b] = NoDirectory /\ Whole(final'[b])
              /\ \A i \in Files : final'[b].file[i] # "written"
<1> USE TypeParts
<1>1. temp[p] \in Directory /\ Flushed(temp[p], OwnCount)
  BY DEF Rename, Prepared
<1>2. \A i \in Files : temp[p].file[i] # "written" /\ (i \in Own => temp[p].file[i] = "flushed")
  BY <1>1, OwnPrefix, BoundsAssumption DEF Flushed
<1>4. Whole(temp[p])
  BY <1>1, <1>2, OwnPrefix, DirectoryAssumption DEF Whole
<1>3. \A b \in Bundles : final'[b] # final[b] => final[b] = NoDirectory /\ final'[b] = temp[p]
  BY DEF Rename
<1> QED BY <1>2, <1>3, <1>4

\* The others keep their invariant.
LEMMA OthersKept ==
    ASSUME TypeOK, NEW p \in Publishers, Alone(p), Adds(p),
           \A b \in Bundles : final'[b] # final[b] => Whole(final'[b]),
           NEW q \in Publishers, q # p, LocalInv(q)
    PROVE  LocalInv(q)'
<1> USE TypeParts
<1>0. /\ pc'[q] = pc[q] /\ temp'[q] = temp[q] /\ prepared'[q] = prepared[q]
      /\ tracked'[q] = tracked[q] /\ reason'[q] = reason[q] /\ rootFlush'[q] = rootFlush[q]
      /\ status'[q] = status[q] /\ residual'[q] = residual[q] /\ unseen'[q] = unseen[q]
  BY DEF Alone
<1>1. /\ kind' = kind /\ source' = source /\ target'[q] = target[q] /\ target[q] \in Bundles
      /\ Own' = Own /\ OwnCount' = OwnCount
  BY DEF Adds, given, Own, OwnCount
<1>2. Prepared(q)'
  BY <1>0, <1>1 DEF LocalInv, Prepared, Flushed
<1>3. Tracked(q)'
  BY <1>0, <1>1 DEF LocalInv, Tracked, Entries
<1>4. /\ Whole(final[target[q]]) => Whole(final[target[q]])'
      /\ final[target[q]] = NoDirectory =>
            (final[target[q]] = NoDirectory)' \/ Whole(final[target[q]])'
  BY <1>1 DEF Whole
<1>5. Met(q)'
  BY <1>0, <1>1, <1>4 DEF LocalInv, Met
<1>6. Returned(q)'
  BY <1>0, <1>1 DEF LocalInv, Returned, Adds
<1> QED BY <1>2, <1>3, <1>5, <1>6 DEF LocalInv

\* Admission, and what it finds there.
LEMMA BeginKept ==
    ASSUME TypeOK, NEW p \in Publishers, LocalInv(p),
           \/ Admit(p) \/ Derive(p) \/ InspectRoot(p) \/ CreateRoot(p) \/ InspectFinal(p)
           \/ CreateTemporaryDirectory(p)
    PROVE  LocalInv(p)'
<1> USE TypeParts DEF Goto, Return, fs, given, memory, result, budgets
<1>1. CASE Admit(p) \/ Derive(p)
  BY <1>1 DEF Admit, Derive, LocalInv, Prepared, Tracked, Met, Returned
<1>2. CASE InspectRoot(p)
  BY <1>2 DEF InspectRoot, LocalInv, Prepared, Tracked, Met, Returned
<1>3. CASE CreateRoot(p)
  BY <1>3 DEF CreateRoot, LocalInv, Prepared, Tracked, Met, Returned
<1>4. CASE InspectFinal(p)
  BY <1>4 DEF InspectFinal, LocalInv, Prepared, Tracked, Met, Returned
<1>5. CASE CreateTemporaryDirectory(p)
  <2>1. CASE /\ UNCHANGED <<temp, tracked>>
             /\ \/ Goto(p, "rmroot") /\ UNCHANGED result
                \/ Return(p, "publication_blocked", FALSE, FALSE)
    <3>1. temp'[p] = NoDirectory /\ pc'[p] \in {"rmroot", "done"} /\ reason'[p] = "none"
      BY <1>5, <2>1 DEF CreateTemporaryDirectory, LocalInv, Prepared, Met
    <3>2. (status'[p] = "none" <=> pc'[p] # "done") /\ rootFlush'[p] = "not_attempted"
      BY <1>5, <2>1 DEF CreateTemporaryDirectory, LocalInv, Returned
    <3> QED BY <3>1, <3>2 DEF LocalInv, Prepared, Tracked, Met, Returned
  <2>2. CASE temp' = [temp EXCEPT ![p] = EmptyDirectory]
    <3>1. EmptyDirectory \in Directory
      BY DEF EmptyDirectory, Directory, FileStates
    <3>2. pc[p] = "mktemp" /\ pc'[p] = "write" /\ temp'[p] = EmptyDirectory
      BY <1>5, <2>2, <3>1, DirectoryAssumption DEF CreateTemporaryDirectory, LocalInv, Prepared
    <3>3. kind' = kind /\ prepared' = prepared
      BY <1>5 DEF CreateTemporaryDirectory
    <3>4. prepared'[p] = 0 /\ OwnCount' = OwnCount /\ OwnCount \in Nat \ {0}
      BY <1>5, <3>3, OwnPrefix, BoundsAssumption
      DEF CreateTemporaryDirectory, LocalInv, Prepared, OwnCount
    <3>5. Prepared(p)'
      <4>1. Flushed(EmptyDirectory, 0)
        BY BoundsAssumption DEF Flushed, EmptyDirectory, Files
      <4> QED BY <3>1, <3>2, <3>4, <4>1 DEF Prepared, Flushed
    <3>8. Tracked(p)'
      BY <3>2, <3>4 DEF Tracked
    <3>6. Met(p)'
      BY <1>5, <3>2 DEF CreateTemporaryDirectory, LocalInv, Met, Whole, Own
    <3>7. Returned(p)'
      BY <1>5, <3>2 DEF CreateTemporaryDirectory, LocalInv, Returned
    <3> QED BY <3>5, <3>6, <3>7, <3>8 DEF LocalInv
  <2> QED BY <1>5, <2>1, <2>2 DEF CreateTemporaryDirectory
<1> QED BY <1>1, <1>2, <1>3, <1>4, <1>5

\* A preparation that failed is cleaned up.
LEMMA FailedKept ==
    ASSUME NEW p \in Publishers, pc'[p] = "cleanup", reason'[p] # "appeared",
           temp'[p] \in Directory, status'[p] = "none", rootFlush'[p] = "not_attempted"
    PROVE  LocalInv(p)'
BY DEF LocalInv, Prepared, Tracked, Met, Returned

Preparing == {"write", "flush", "verify", "seal", "flushdir", "recheck", "rename"}

\* One that goes on has nothing to answer for.
LEMMA GoesOnKept ==
    ASSUME NEW p \in Publishers, LocalInv(p), pc[p] \in Preparing, pc'[p] \in Preparing,
           reason'[p] = reason[p], UNCHANGED <<final, kind, target, status, rootFlush>>
    PROVE  Met(p)' /\ Returned(p)'
BY DEF LocalInv, Met, Returned, Preparing, Whole, Own

LEMMA PrepareKept ==
    ASSUME TypeOK, TypeOK', NEW p \in Publishers, LocalInv(p),
           \/ WriteFile(p) \/ FlushFile(p) \/ VerifyFile(p) \/ SealPrepared(p) \/ FlushDirectory(p)
    PROVE  LocalInv(p)'
<1> USE TypeParts
<1>0. /\ UNCHANGED <<final, kind, target, status, rootFlush>> /\ OwnCount' = OwnCount /\ Own' = Own
      /\ pc[p] \in Preparing /\ temp[p] \in Directory /\ status[p] = "none"
      /\ rootFlush[p] = "not_attempted"
  BY DEF WriteFile, FlushFile, VerifyFile, SealPrepared, FlushDirectory, fs, given, result,
         OwnCount, Own, LocalInv, Prepared, Returned, Preparing
<1>1. OwnCount \in Nat \ {0} /\ Own = 1 .. OwnCount /\ Files = 1 .. FileCount
      /\ OwnCount <= FileCount /\ FileCount \in Nat /\ prepared[p] \in Nat
  BY OwnPrefix, BoundsAssumption DEF Files
<1> DEFINE next == prepared[p] + 1
           With(s) == [temp[p] EXCEPT !.file[next] = s]
<1>2. pc[p] \in {"write", "flush", "verify"} => next \in Files /\ next <= OwnCount
  BY <1>1 DEF LocalInv, Prepared
<1>3. next \in Files => \A s \in {"torn", "written", "flushed"} :
         With(s) \in Directory /\ \A j \in Files : With(s).file[j] = IF j = next THEN s ELSE temp[p].file[j]
  <2>1. {"torn", "written", "flushed"} \subseteq FileStates
    BY DEF FileStates
  <2> QED BY <1>0, <2>1, FileChanged
<1>4. temp'[p] \in Directory
  <2>1. CASE WriteFile(p) \/ FlushFile(p)
    <3>1. next \in Files
      BY <1>2, <2>1 DEF WriteFile, FlushFile
    <3>2. temp'[p] = temp[p] \/ \E s \in {"torn", "written", "flushed"} : temp'[p] = With(s)
      BY <2>1 DEF WriteFile, FlushFile
    <3> QED BY <1>0, <1>3, <3>1, <3>2
  <2>2. CASE VerifyFile(p) \/ SealPrepared(p)
    BY <1>0, <2>2 DEF VerifyFile, SealPrepared, fs
  <2>3. CASE FlushDirectory(p)
    <3>1. [temp[p] EXCEPT !.synced = TRUE] \in Directory
      BY <1>0 DEF Directory
    <3> QED BY <1>0, <2>3, <3>1 DEF FlushDirectory
  <2> QED BY <2>1, <2>2, <2>3
<1>5. CASE CleanUp(p, "precommit")
  <2>1. pc'[p] = "cleanup" /\ reason'[p] = "precommit"
    BY <1>5 DEF CleanUp, Goto
  <2> QED BY <1>0, <1>4, <2>1, FailedKept
<1> HIDE DEF With
<1>6. CASE WriteFile(p) /\ Goto(p, "flush")
  <2>1. /\ pc[p] = "write" /\ pc'[p] = "flush" /\ prepared' = prepared /\ reason' = reason
        /\ temp'[p] = With("written") /\ tracked'[p] = tracked[p] \cup {next}
    BY <1>6 DEF WriteFile, Goto, CleanUp, With
  <2>2. \A j \in Files : temp'[p].file[j] =
           IF j <= prepared[p] THEN "flushed" ELSE IF j = next THEN "written" ELSE "absent"
    BY <1>1, <1>2, <1>3, <2>1 DEF LocalInv, Prepared, Flushed
  <2>3. Prepared(p)'
    BY <1>0, <1>4, <2>1, <2>2 DEF LocalInv, Prepared
  <2>4. Tracked(p)'
    <3>1. 1 .. prepared[p] \subseteq tracked[p] /\ 1 .. next \subseteq (1 .. prepared[p]) \cup {next}
      BY <1>1, <2>1 DEF LocalInv, Tracked
    <3> QED BY <2>1, <3>1 DEF Tracked
  <2> QED BY <1>0, <2>1, <2>3, <2>4, GoesOnKept DEF Preparing, LocalInv
<1>7. CASE FlushFile(p) /\ Goto(p, "verify")
  <2>1. /\ pc[p] = "flush" /\ pc'[p] = "verify" /\ prepared' = prepared /\ reason' = reason
        /\ temp'[p] = With("flushed") /\ tracked' = tracked
    BY <1>7 DEF FlushFile, Goto, CleanUp, With
  <2>2. \A j \in Files : temp'[p].file[j] = IF j <= next THEN "flushed" ELSE "absent"
    BY <1>1, <1>2, <1>3, <2>1 DEF LocalInv, Prepared
  <2>3. Prepared(p)'
    BY <1>0, <1>4, <2>1, <2>2 DEF LocalInv, Prepared, Flushed
  <2>4. Tracked(p)'
    BY <2>1 DEF LocalInv, Tracked
  <2> QED BY <1>0, <2>1, <2>3, <2>4, GoesOnKept DEF Preparing, LocalInv
<1>8. CASE VerifyFile(p) /\ ~CleanUp(p, "precommit")
  <2>1. /\ pc[p] = "verify" /\ prepared'[p] = next /\ reason' = reason /\ temp' = temp
        /\ tracked' = tracked
        /\ pc'[p] = IF next + 1 \in Own THEN "write" ELSE "seal"
    <3>1. /\ pc[p] = "verify" /\ prepared' = [prepared EXCEPT ![p] = prepared[p] + 1]
          /\ reason' = reason /\ temp' = temp /\ tracked' = tracked
          /\ Goto(p, IF prepared[p] + 2 \in Own THEN "write" ELSE "seal")
      BY <1>8, Zenon DEF VerifyFile, fs
    <3>2. pc' = [pc EXCEPT ![p] = IF prepared[p] + 2 \in Own THEN "write" ELSE "seal"]
      BY <3>1, Zenon DEF Goto
    <3>3. prepared[p] + 2 = next + 1
      BY <1>1
    <3> QED BY <3>1, <3>2, <3>3
  <2>2. Flushed(temp[p], next) /\ 1 .. next \subseteq tracked[p]
    BY <2>1 DEF LocalInv, Prepared, Tracked
  <2>3. CASE next + 1 \in Own
    <3>1. pc'[p] = "write" /\ next < OwnCount
      BY <1>1, <2>1, <2>3
    <3> QED
      BY <1>0, <1>4, <2>1, <2>2, <3>1, GoesOnKept
      DEF Preparing, LocalInv, Prepared, Tracked, Flushed
  <2>4. CASE next + 1 \notin Own
    <3>1. pc'[p] = "seal" /\ next = OwnCount
      BY <1>1, <1>2, <2>1, <2>4
    <3> QED
      BY <1>0, <1>1, <1>4, <2>1, <2>2, <3>1, GoesOnKept
      DEF Preparing, LocalInv, Prepared, Tracked, Flushed
  <2> QED BY <2>3, <2>4
<1>9. CASE (SealPrepared(p) \/ FlushDirectory(p)) /\ ~CleanUp(p, "precommit")
  <2>1. /\ pc[p] \in {"seal", "flushdir"} /\ pc'[p] \in {"flushdir", "recheck", "rename"}
        /\ reason' = reason /\ tracked' = tracked /\ temp'[p].file = temp[p].file
    <3>1. [temp[p] EXCEPT !.synced = TRUE].file = temp[p].file
      BY <1>0 DEF Directory
    <3>2. CASE SealPrepared(p)
      BY <1>9, <3>2 DEF SealPrepared, Goto, fs
    <3>3. CASE FlushDirectory(p)
      <4>1. pc[p] = "flushdir" /\ tracked' = tracked /\ reason' = reason
        BY <1>9, <3>3, Zenon DEF FlushDirectory
      <4>2. temp' = temp \/ temp' = [temp EXCEPT ![p].synced = TRUE]
        BY <1>9, <3>3, Zenon DEF FlushDirectory
      <4>3. Goto(p, "recheck") \/ Goto(p, "rename")
        BY <1>9, <3>3 DEF FlushDirectory
      <4> QED BY <3>1, <4>1, <4>2, <4>3 DEF Goto
    <3> QED BY <1>9, <3>2, <3>3
  <2> QED
    BY <1>0, <1>4, <2>1, GoesOnKept DEF Preparing, LocalInv, Prepared, Tracked, Flushed
<1>10. \/ CleanUp(p, "precommit")
       \/ WriteFile(p) /\ Goto(p, "flush")
       \/ FlushFile(p) /\ Goto(p, "verify")
       \/ VerifyFile(p) /\ ~CleanUp(p, "precommit")
       \/ (SealPrepared(p) \/ FlushDirectory(p)) /\ ~CleanUp(p, "precommit")
  <2>1. WriteFile(p) => CleanUp(p, "precommit") \/ Goto(p, "flush")
    BY DEF WriteFile, CleanUp, Goto
  <2>2. FlushFile(p) => CleanUp(p, "precommit") \/ Goto(p, "verify")
    BY DEF FlushFile, CleanUp, Goto
  <2> QED BY <2>1, <2>2, Zenon
<1> QED BY <1>5, <1>6, <1>7, <1>8, <1>9, <1>10

LEMMA PublishKept ==
    ASSUME TypeOK, TypeOK', NEW p \in Publishers, LocalInv(p),
           RecheckFinal(p) \/ Rename(p) \/ FlushRoot(p) \/ LoadPublished(p)
    PROVE  LocalInv(p)'
<1> USE TypeParts
<1>0. target[p] \in Bundles /\ target' = target /\ kind' = kind /\ source' = source
      /\ Own' = Own /\ OwnCount' = OwnCount
  BY DEF RecheckFinal, Rename, FlushRoot, LoadPublished, given, Own, OwnCount
<1>1. pc[p] \in {"recheck", "rename"} =>
         /\ temp[p] \in Directory /\ Flushed(temp[p], OwnCount) /\ Entries(temp[p]) \subseteq tracked[p]
         /\ final[target[p]] # NoDirectory => Whole(final[target[p]])
         /\ status[p] = "none" /\ rootFlush[p] = "not_attempted" /\ reason[p] = "none"
  BY OwnPrefix, BoundsAssumption
  DEF LocalInv, Prepared, Tracked, Met, Returned, Entries, Flushed, Files
<1>2. CASE RecheckFinal(p)
  <2>1. /\ pc[p] = "recheck" /\ UNCHANGED <<temp, final, tracked, prepared, status, rootFlush>>
    BY <1>2 DEF RecheckFinal, fs, result
  <2>2. CASE final[target[p]] = NoDirectory
    <3>1. pc'[p] = "rename" /\ reason' = reason
      BY <1>2, <2>2 DEF RecheckFinal, Goto
    <3> QED BY <1>0, <2>1, <3>1 DEF LocalInv, Prepared, Tracked, Met, Returned, Flushed, Whole
  <2>3. CASE final[target[p]] # NoDirectory
    <3>1. pc'[p] = "cleanup" /\ reason'[p] = "appeared"
      BY <1>2, <2>3 DEF RecheckFinal, CleanUp, Goto
    <3>2. Whole(final[target[p]])' /\ Entries(temp[p])' \subseteq tracked'[p]
      BY <1>0, <1>1, <2>1, <2>3 DEF Whole, Entries
    <3> QED BY <1>1, <2>1, <3>1, <3>2 DEF LocalInv, Prepared, Tracked, Met, Returned
  <2> QED BY <2>2, <2>3
<1>3. CASE Rename(p)
  <2>0. pc[p] = "rename" /\ UNCHANGED <<tracked, prepared, status, rootFlush>>
    BY <1>3 DEF Rename, result
  <2>1. CASE final' = [final EXCEPT ![target[p]] = temp[p]]
             /\ temp' = [temp EXCEPT ![p] = NoDirectory] /\ Goto(p, "flushroot") /\ reason' = reason
    <3>1. pc'[p] = "flushroot" /\ temp'[p] = NoDirectory /\ final'[target[p]] = temp[p]
      BY <1>0, <2>1 DEF Goto
    <3>2. Whole(temp[p])
      BY <1>1, <2>0, OwnPrefix, DirectoryAssumption, BoundsAssumption DEF Whole, Flushed, Files
    <3>3. Whole(final[target[p]])'
      BY <1>0, <3>1, <3>2 DEF Whole
    <3> QED BY <1>1, <2>0, <2>1, <3>1, <3>3 DEF LocalInv, Prepared, Tracked, Met, Returned
  <2>2. CASE final[target[p]] # NoDirectory /\ CleanUp(p, "appeared") /\ UNCHANGED <<final, temp>>
    <3>1. pc'[p] = "cleanup" /\ reason'[p] = "appeared"
      BY <2>2 DEF CleanUp, Goto
    <3>2. Whole(final[target[p]])' /\ Entries(temp[p])' \subseteq tracked'[p]
      BY <1>0, <1>1, <2>0, <2>2 DEF Whole, Entries
    <3> QED BY <1>1, <2>0, <2>2, <3>1, <3>2 DEF LocalInv, Prepared, Tracked, Met, Returned
  <2>3. CASE (\E why \in {"precommit", "unsupported"} : CleanUp(p, why)) /\ UNCHANGED <<final, temp>>
    <3>1. pc'[p] = "cleanup" /\ reason'[p] # "appeared"
      BY <2>3 DEF CleanUp, Goto
    <3> QED BY <1>1, <2>0, <2>3, <3>1, FailedKept
  <2> QED BY <1>3, <2>1, <2>2, <2>3, Zenon DEF Rename
<1>4. CASE FlushRoot(p)
  <2>1. /\ pc[p] = "flushroot" /\ pc'[p] = "load" /\ rootFlush'[p] # "not_attempted"
        /\ UNCHANGED <<final, temp, prepared, tracked, reason, status, residual>>
    BY <1>4 DEF FlushRoot, Goto, result
  <2>2. Whole(final[target[p]])'
    BY <1>0, <2>1 DEF LocalInv, Met, Whole
  <2> QED BY <2>1, <2>2 DEF LocalInv, Prepared, Tracked, Met, Returned
<1>5. CASE LoadPublished(p)
  <2>1. /\ pc[p] = "load" /\ pc'[p] = "done" /\ status'[p] # "none"
        /\ UNCHANGED <<final, temp, prepared, tracked, reason, rootFlush>>
    BY <1>5 DEF LoadPublished, LoadStrict, LoadLink, LoadSolution, Return, Goto, fs, memory
  <2> QED BY <2>1 DEF LocalInv, Prepared, Tracked, Met, Returned
<1> QED BY <1>2, <1>3, <1>4, <1>5

LEMMA EndKept ==
    ASSUME TypeOK, TypeOK', NEW p \in Publishers, LocalInv(p),
           CleanUpTemporary(p) \/ ExistingDestination(p) \/ RemoveRoot(p)
    PROVE  LocalInv(p)'
<1> USE TypeParts
<1>0. /\ target' = target /\ kind' = kind /\ source' = source /\ Own' = Own
      /\ UNCHANGED <<final, prepared, tracked, reason, rootFlush>>
      /\ pc[p] \in {"cleanup", "existing", "rmroot"}
      /\ status[p] = "none" /\ rootFlush[p] = "not_attempted"
  BY DEF CleanUpTemporary, ExistingDestination, RemoveRoot, given, memory, fs, Own, LocalInv, Returned
<1>1. CASE CleanUpTemporary(p)
  <2>0. pc[p] = "cleanup" /\ temp[p] \in Directory
    BY <1>1 DEF CleanUpTemporary, LocalInv, Prepared
  <2>1. CASE CleanedUp(p) /\ (temp'[p] # NoDirectory => kind = "solution" \/ unseen'[p])
    <3>2. \/ pc'[p] = "existing" /\ reason[p] = "appeared" /\ status' = status
          \/ /\ pc'[p] = "rmroot" /\ reason[p] # "appeared" /\ status' = status
             /\ kind # "solution"
          \/ pc'[p] = "done" /\ reason[p] # "appeared" /\ status'[p] # "none"
      BY <2>1 DEF CleanedUp, Goto, Return, result, Strict
    <3>3. reason[p] = "appeared" => Whole(final[target[p]])'
      BY <1>0, <2>0 DEF LocalInv, Met, Whole
    <3> QED BY <1>0, <2>1, <3>2, <3>3 DEF LocalInv, Prepared, Tracked, Met, Returned
  <2>2. CASE LeftOver(p) /\ (Fault \/ Entries(temp[p]) \ tracked[p] # {})
    <3>1. \/ /\ pc'[p] = "existing" /\ reason[p] = "appeared" /\ status' = status
             /\ residual'[p]
          \/ /\ pc'[p] = "done" /\ status'[p] # "none"
             /\ kind = "solution" \/ (reason[p] # "appeared" /\ residual'[p])
      BY <2>2 DEF LeftOver, Goto, Return
    <3>2. reason[p] = "appeared" => Whole(final[target[p]])' /\ faults' # 0
      BY <1>0, <2>0, <2>2, FaultTyped DEF LocalInv, Met, Whole, Tracked
    <3> QED BY <1>0, <3>1, <3>2 DEF LocalInv, Prepared, Tracked, Met, Returned
  <2>3. CASE CleanedUp(p) /\ temp' = [temp EXCEPT ![p] = NoDirectory]
    BY <2>1, <2>3
  <2>4. CASE CleanedUp(p) /\ unseen' = [unseen EXCEPT ![p] = TRUE]
    BY <2>1, <2>4
  <2>5. \/ CleanedUp(p) /\ temp' = [temp EXCEPT ![p] = NoDirectory]
        \/ CleanedUp(p) /\ unseen' = [unseen EXCEPT ![p] = TRUE]
        \/ LeftOver(p) /\ (Fault \/ Entries(temp[p]) \ tracked[p] # {})
    BY <1>1, Zenon DEF CleanUpTemporary
  <2> QED BY <2>2, <2>3, <2>4, <2>5
<1>2. CASE ExistingDestination(p)
  <2>0. pc[p] = "existing" /\ temp' = temp /\ unseen' = unseen
        /\ (temp[p] # NoDirectory => kind = "solution" \/ residual[p] \/ unseen[p])
    BY <1>2 DEF ExistingDestination, fs, memory, LocalInv, Returned
  <2>1. /\ pc'[p] = "done" /\ status'[p] # "none"
        /\ kind = "solution" \/ residual'[p] = residual[p]
        /\ Fault \/ (Loads(final[target[p]]) => status'[p] = "already_present")
    BY <1>2 DEF ExistingDestination, ExistingStrict, ExistingLink, ExistingSolution, Return, Goto, Strict
  <2>2. reason[p] = "appeared" /\ source => Loads(final[target[p]])
    BY <2>0 DEF LocalInv, Met, Loads
  <2>3. pc'[p] = "done" /\ temp'[p] = temp[p] /\ reason'[p] = reason[p]
    BY <1>0, <2>0, <2>1
  <2>4. Returned(p)'
    <3>1. temp'[p] # NoDirectory => kind = "solution" \/ residual'[p] \/ unseen'[p]
      BY <2>0, <2>1
    <3>2. source /\ reason[p] = "appeared" /\ faults' = 0 => status'[p] = "already_present"
      BY <2>1, <2>2, FaultTyped
    <3> QED BY <1>0, <2>1, <2>3, <3>1, <3>2 DEF Returned
  <2> QED BY <2>3, <2>4 DEF LocalInv, Prepared, Tracked, Met
<1>3. CASE RemoveRoot(p)
  <2>1. /\ pc[p] = "rmroot" /\ pc'[p] = "done" /\ status'[p] # "none" /\ temp' = temp
        /\ unseen' = unseen /\ (temp[p] # NoDirectory => unseen[p])
    BY <1>3 DEF RemoveRoot, Return, Goto, memory, LocalInv, Returned
  <2> QED BY <1>0, <2>1 DEF LocalInv, Prepared, Tracked, Met, Returned
<1> QED BY <1>1, <1>2, <1>3

\* Under the final names.
LEMMA FinalKept ==
    ASSUME TypeOK, NEW p \in Publishers, LocalInv(p), FinalInv, Step(p)
    PROVE  FinalInv' /\ \A b \in Bundles : final'[b] # final[b] => Whole(final'[b])
<1> USE TypeParts
<1>1. CASE Rename(p)
  <2>1. \A b \in Bundles : final'[b] # final[b] =>
           /\ final[b] = NoDirectory /\ Whole(final'[b])
           /\ \A i \in Files : final'[b].file[i] # "written"
    BY <1>1, RenameWhole DEF LocalInv
  <2>2. durable' = durable /\ root' = root
    BY <1>1 DEF Rename
  <2> QED BY <2>1, <2>2 DEF FinalInv
<1>2. CASE final' = final
  <2>1. /\ "root" \in durable' => "root" \in durable /\ root'
        /\ durable' \cap Bundles \subseteq durable \cup {b \in Bundles : final[b] # NoDirectory}
    <3>1. CASE FlushRoot(p)
      BY <3>1, BundlesAssumption DEF FlushRoot, FinalInv
    <3>2. CASE RemoveRoot(p)
      BY <3>2 DEF RemoveRoot, FinalInv
    <3>3. CASE CreateRoot(p)
      BY <3>3 DEF CreateRoot, FinalInv
    <3>4. FlushRoot(p) \/ RemoveRoot(p) \/ CreateRoot(p) \/ UNCHANGED <<durable, root>>
      BY Zenon DEF Step, Admit, Derive, InspectRoot, InspectFinal,
         CreateTemporaryDirectory, WriteFile, FlushFile, VerifyFile, SealPrepared, FlushDirectory,
         RecheckFinal, Rename, LoadPublished, CleanUpTemporary, ExistingDestination, fs
    <3> QED BY <3>1, <3>2, <3>3, <3>4 DEF FinalInv
  <2> QED BY <1>2, <2>1 DEF FinalInv
<1>3. final' = final \/ Rename(p)
  BY Zenon DEF Step, Admit, Derive, InspectRoot, CreateRoot, InspectFinal, CreateTemporaryDirectory,
     WriteFile, FlushFile, VerifyFile, SealPrepared, FlushDirectory, RecheckFinal,
     FlushRoot, LoadPublished, CleanUpTemporary, ExistingDestination, RemoveRoot, fs
<1> QED BY <1>1, <1>2, <1>3

\* Who starts over has nothing and has said nothing.
LEMMA RestartKept ==
    ASSUME TypeOK, NEW P \in SUBSET Publishers, StartOver(P), NEW p \in P,
           pc[p] # "done", LocalInv(p), temp'[p] = NoDirectory
    PROVE  LocalInv(p)'
<1>1. /\ pc'[p] = "start" /\ temp'[p] = NoDirectory /\ prepared'[p] = 0 /\ reason'[p] = "none"
      /\ rootFlush'[p] = "not_attempted" /\ status'[p] = "none"
  BY DEF StartOver, LocalInv, Returned
<1> QED BY <1>1 DEF LocalInv, Prepared, Tracked, Met, Returned

LEMMA KillKept ==
    ASSUME IInv, NEW p \in Publishers, Kill(p)
    PROVE  FinalInv' /\ \A q \in Publishers : LocalInv(q)'
<1> USE TypeParts
<1>1. TypeOK /\ FinalInv /\ \A q \in Publishers : LocalInv(q)
  BY DEF IInv, LocalInv
<1>2. /\ StartOver({p}) /\ UNCHANGED <<root, final, durable, given, faults>> /\ pc[p] # "done"
      /\ temp' = [temp EXCEPT ![p] = NoDirectory]
  BY DEF Kill
<1>3. FinalInv'
  BY <1>1, <1>2 DEF FinalInv
<1>4. LocalInv(p)'
  BY <1>1, <1>2, RestartKept
<1>5. Alone(p)
  BY <1>1, <1>2 DEF Alone, StartOver
<1>6. Adds(p)
  BY <1>2 DEF Adds
<1>7. \A q \in Publishers : q # p => LocalInv(q)'
  BY <1>1, <1>2, <1>5, <1>6, OthersKept
<1> QED BY <1>3, <1>4, <1>7

LEMMA PowerLossKept ==
    ASSUME IInv, PowerLoss
    PROVE  FinalInv' /\ \A q \in Publishers : LocalInv(q)'
<1> USE TypeParts
<1>1. TypeOK /\ \A q \in Publishers : LocalInv(q)
  BY DEF IInv, LocalInv
<1>2. StartOver({p \in Publishers : pc[p] # "done"}) /\ UNCHANGED <<given, faults>>
  BY DEF PowerLoss
<1>3. FinalInv'
  <2>1. \A b \in Bundles : \A r \in AfterLoss(b) :
           r # NoDirectory => \A i \in Files : r.file[i] # "written"
    BY DEF AfterLoss, Remains
  <2>2. \A b \in Bundles : final'[b] \in AfterLoss(b)
    BY DEF PowerLoss
  <2>3. \A b \in durable' \cap Bundles : final'[b] # NoDirectory
    BY BundlesAssumption DEF PowerLoss
  <2>4. "root" \in durable' => root'
    BY BundlesAssumption DEF PowerLoss
  <2> QED BY <2>1, <2>2, <2>3, <2>4 DEF FinalInv
<1>4. ASSUME NEW q \in Publishers PROVE LocalInv(q)'
  <2>0. /\ pc[q] # "done" => temp'[q] = NoDirectory
        /\ temp'[q] \in {temp[q], NoDirectory}
    BY <1>1 DEF PowerLoss
  <2>1. CASE pc[q] # "done"
    BY <1>1, <1>2, <2>0, <2>1, RestartKept
  <2>2. CASE pc[q] = "done"
    <3>1. /\ pc'[q] = pc[q] /\ reason'[q] = reason[q] /\ rootFlush'[q] = rootFlush[q]
          /\ status'[q] = status[q] /\ residual'[q] = residual[q] /\ unseen'[q] = unseen[q]
          /\ kind' = kind /\ source' = source /\ faults' = faults
      BY <1>1, <1>2, <2>2 DEF StartOver, given
    <3> QED BY <1>1, <2>0, <2>2, <3>1 DEF LocalInv, Prepared, Tracked, Met, Returned
  <2> QED BY <2>1, <2>2
<1> QED BY <1>3, <1>4

LEMMA Begins == Init => IInv
<1> SUFFICES ASSUME Init PROVE IInv
  OBVIOUS
<1>1. \A b \in Bundles : final[b] # NoDirectory =>
         /\ final[b] \in Directory /\ final[b].synced = TRUE
         /\ \A i \in Files : final[b].file[i] # "written"
  <2> DEFINE stored(s) == [file |-> [i \in Files |-> IF i \in Own THEN s ELSE "absent"], synced |-> TRUE]
  <2>1. \A s \in {"flushed", "other"} :
           /\ stored(s) \in Directory /\ stored(s).synced = TRUE
           /\ \A i \in Files : stored(s).file[i] # "written"
    BY DEF Directory, FileStates
  <2>2. final \in [Bundles -> {NoDirectory, stored("flushed"), stored("other")}]
    BY DEF Init
  <2> HIDE DEF stored
  <2> QED BY <2>1, <2>2
<1>2. TypeOK
  <2>1. final \in [Bundles -> Directory \cup {NoDirectory}]
    BY <1>1 DEF Init
  <2>2. durable \subseteq Bundles \cup {"root"}
    BY DEF Init
  <2>3. /\ rootCreated \in [Publishers -> BOOLEAN] /\ residual \in [Publishers -> BOOLEAN]
        /\ claimed \in [Publishers -> BOOLEAN] /\ unseen \in [Publishers -> BOOLEAN]
    BY DEF Init
  <2>4. root \in BOOLEAN /\ source \in BOOLEAN /\ orphan \in BOOLEAN
    BY Zenon DEF Init
  <2>5. /\ temp \in [Publishers -> Directory \cup {NoDirectory}]
        /\ platform \in {"posix", "windows"} /\ kind \in Kinds /\ target \in [Publishers -> Bundles]
        /\ pc \in [Publishers -> Phases] /\ prepared \in [Publishers -> 0..FileCount]
        /\ tracked \in [Publishers -> SUBSET Files] /\ reason \in [Publishers -> Reasons]
    BY BoundsAssumption DEF Init, Phases, Reasons
  <2>6. /\ rootFlush \in [Publishers -> {"not_attempted", "passed", "unsupported", "failed"}]
        /\ status \in [Publishers -> Statuses]
        /\ faults \in 0..MaxFaults /\ kills \in 0..MaxKills /\ losses \in 0..MaxPowerLosses
    BY BoundsAssumption DEF Init, Statuses
  <2> QED
    BY <2>1, <2>2, <2>3, <2>4, <2>5, <2>6 DEF TypeOK
<1>3. FinalInv
  BY <1>1, BundlesAssumption DEF FinalInv, Init
<1>4. \A p \in Publishers : LocalInv(p)
  BY DEF Init, LocalInv, Prepared, Tracked, Met, Returned
<1> QED BY <1>2, <1>3, <1>4 DEF IInv, LocalInv

LEMMA Continues == IInv /\ [Next]_vars => IInv'
<1> SUFFICES ASSUME IInv, [Next]_vars PROVE IInv'
  OBVIOUS
<1>0. TypeOK /\ FinalInv /\ \A q \in Publishers : LocalInv(q)
  BY DEF IInv, LocalInv
<1>1. TypeOK'
  BY <1>0, TypeNext DEF LocalInv
<1>2. ASSUME NEW p \in Publishers, Step(p) PROVE FinalInv' /\ \A q \in Publishers : LocalInv(q)'
  <2>1. FinalInv' /\ \A b \in Bundles : final'[b] # final[b] => Whole(final'[b])
    BY <1>0, <1>2, FinalKept
  <2>2. LocalInv(p)'
    BY <1>0, <1>1, <1>2, BeginKept, PrepareKept, PublishKept, EndKept, Zenon DEF Step
  <2>3. \A q \in Publishers : q # p => LocalInv(q)'
    BY <1>0, <1>2, <2>1, StepAlone, StepAdds, OthersKept
  <2> QED BY <2>1, <2>2, <2>3
<1>3. ASSUME NEW p \in Publishers, Kill(p) PROVE FinalInv' /\ \A q \in Publishers : LocalInv(q)'
  BY <1>3, KillKept
<1>4. ASSUME PowerLoss PROVE FinalInv' /\ \A q \in Publishers : LocalInv(q)'
  BY <1>4, PowerLossKept
<1>5. ASSUME UNCHANGED vars PROVE FinalInv' /\ \A q \in Publishers : LocalInv(q)'
  BY <1>0, <1>5
  DEF vars, fs, given, memory, result, budgets, FinalInv, LocalInv, Prepared, Tracked, Met, Returned,
      Flushed, Entries, OwnCount, Own, Whole
<1>6. FinalInv' /\ \A q \in Publishers : LocalInv(q)'
  BY <1>2, <1>3, <1>4, <1>5, Zenon DEF Next, Rest
<1> QED BY <1>1, <1>6 DEF IInv, LocalInv

LEMMA Invariance == Spec => []IInv
BY Begins, Continues, PTL DEF Spec

-----------------------------------------------------------------------------
(* The store the publishers implement.                                      *)
Stored  == [b \in Bundles |-> StoredAs(b)]
Synced  == {b \in durable \cap Bundles : "root" \in durable /\ final[b].synced}
PutBy   == {p \in Publishers : pc[p] = "flushroot" \/ rootFlush[p] # "not_attempted"}
Answers == [p \in Publishers |-> AnswerOf(p)]

\* A step the store does not see.
Silent(p) ==
    /\ UNCHANGED <<final, durable, status, claimed, rootFlush, target, kind>>
    /\ pc[p] # "flushroot" /\ pc'[p] # "flushroot"

\* A step that answers.
Answered(p) ==
    /\ UNCHANGED <<final, rootFlush, target, kind>>
    /\ durable' \cap Bundles = durable \cap Bundles
    /\ durable' = durable \/ \A b \in Bundles : final[b] = NoDirectory
    /\ pc[p] \notin {"flushroot", "done"} /\ pc'[p] = "done" /\ status'[p] # "none"
    /\ claimed'[p] => pc[p] = "load"
    /\ ~claimed'[p] /\ pc[p] = "load" => kind = "solution" /\ status'[p] = "publication_blocked"
    /\ status'[p] = "already_present" => Whole(final[target[p]])

LEMMA StepShape ==
    ASSUME TypeOK, NEW p \in Publishers, Step(p)
    PROVE  Silent(p) \/ Answered(p) \/ Rename(p) \/ FlushRoot(p)
<1> USE TypeParts DEF Goto, Return, CleanUp, fs, given, memory, result, budgets, Silent, Answered
<1>1. CASE Admit(p) \/ Derive(p)
  BY <1>1 DEF Admit, Derive
<1>2. CASE InspectRoot(p)
  BY <1>2 DEF InspectRoot
<1>3. CASE CreateRoot(p)
  BY <1>3 DEF CreateRoot
<1>4. CASE InspectFinal(p)
  BY <1>4 DEF InspectFinal
<1>5. CASE CreateTemporaryDirectory(p)
  BY <1>5 DEF CreateTemporaryDirectory
<1>6. CASE WriteFile(p)
  BY <1>6 DEF WriteFile
<1>7. CASE FlushFile(p)
  BY <1>7 DEF FlushFile
<1>8. CASE VerifyFile(p)
  BY <1>8 DEF VerifyFile
<1>9. CASE SealPrepared(p)
  BY <1>9 DEF SealPrepared
<1>10. CASE FlushDirectory(p)
  BY <1>10 DEF FlushDirectory
<1>11. CASE RecheckFinal(p)
  BY <1>11 DEF RecheckFinal
<1>12. CASE LoadPublished(p)
  BY <1>12 DEF LoadPublished, LoadStrict, LoadLink, LoadSolution, Loads
<1>13. CASE CleanUpTemporary(p)
  BY <1>13 DEF CleanUpTemporary, CleanedUp, LeftOver
<1>14. CASE ExistingDestination(p)
  BY <1>14 DEF ExistingDestination, ExistingStrict, ExistingLink, ExistingSolution, Loads
<1>15. CASE RemoveRoot(p)
  <2>1. /\ durable' \cap Bundles = durable \cap Bundles
        /\ durable' = durable \/ \A b \in Bundles : final[b] = NoDirectory
    BY <1>15, BundlesAssumption DEF RemoveRoot, RootEmpty
  <2> QED BY <1>15, <2>1 DEF RemoveRoot
<1> QED
  BY <1>1, <1>2, <1>3, <1>4, <1>5, <1>6, <1>7, <1>8, <1>9, <1>10, <1>11, <1>12, <1>13, <1>14,
     <1>15 DEF Step

\* An invocation that waits has no result.
LEMMA Waits ==
    ASSUME NEW p \in Publishers
    PROVE  Answers[p] = "none" <=> status[p] = "none"
BY DEF Answers, AnswerOf

\* What is stored depends on the final names only, an answer on its result.
LEMMA SameStore ==
    ASSUME FinalInv, UNCHANGED <<final, kind>>, durable' \cap Bundles = durable \cap Bundles,
           durable' = durable \/ \A b \in Bundles : final[b] = NoDirectory
    PROVE  Stored' = Stored /\ Synced' = Synced
<1>1. \A b \in Bundles : StoredAs(b)' = StoredAs(b)
  BY DEF StoredAs, Whole, Own
<1>2. Stored' = Stored
  BY <1>1 DEF Stored
<1>3. CASE durable' = durable
  BY <1>2, <1>3 DEF Synced
<1>4. CASE \A b \in Bundles : final[b] = NoDirectory
  <2>1. durable \cap Bundles = {}
    BY <1>4 DEF FinalInv
  <2> QED BY <1>2, <2>1 DEF Synced
<1> QED BY <1>3, <1>4

LEMMA SameAnswer ==
    ASSUME kind' = kind, NEW q \in Publishers, status'[q] = status[q], claimed'[q] = claimed[q]
    PROVE  Answers'[q] = Answers[q]
BY DEF Answers, AnswerOf

LEMMA SilentStutters ==
    ASSUME TypeOK, FinalInv, NEW p \in Publishers, Step(p), Silent(p)
    PROVE  UNCHANGED Store!vars
<1> USE TypeParts
<1>1. Alone(p)
  BY StepAlone
<1>2. Stored' = Stored /\ Synced' = Synced
  BY SameStore DEF Silent
<1>3. PutBy' = PutBy
  BY <1>1 DEF PutBy, Alone, Silent
<1>4. \A q \in Publishers : Answers'[q] = Answers[q]
  BY SameAnswer DEF Silent
<1>5. Answers' = Answers
  BY <1>4 DEF Answers
<1>6. target' = target
  BY DEF Silent
<1> QED BY <1>2, <1>3, <1>5, <1>6 DEF Store!vars, Stored, Synced, PutBy, Answers

LEMMA AnsweredAnswers ==
    ASSUME IInv, NEW p \in Publishers, Step(p), Answered(p)
    PROVE  Store!Answer(p)
<1> USE TypeParts
<1>0. TypeOK /\ LocalInv(p) /\ FinalInv
  BY DEF IInv, LocalInv
<1>1. Alone(p)
  BY <1>0, StepAlone
<1>2. Stored' = Stored /\ Synced' = Synced
  BY <1>0, SameStore DEF Answered
<1>3. PutBy' = PutBy
  BY <1>0, <1>1 DEF PutBy, Alone, Answered
<1>4. status[p] = "none" /\ (p \in PutBy <=> pc[p] = "load")
  BY <1>0 DEF LocalInv, Returned, Answered, PutBy
<1>5. \A q \in Publishers : q # p => Answers'[q] = Answers[q]
  BY <1>1, SameAnswer DEF Alone, Answered
<1> DEFINE a == Answers'[p]
<1>6. /\ a \in {"published", "present", "refused", "unknown"}
      /\ a = "published" => claimed'[p]
      /\ a = "present" => ~claimed'[p] /\ status'[p] = "already_present"
      /\ a = "refused" => ~claimed'[p] /\ ~(kind = "solution" /\ status'[p] = "publication_blocked")
  BY DEF Answered, Answers, AnswerOf
<1>7. Answers' = [Answers EXCEPT ![p] = a]
  BY <1>5 DEF Answers
<1>8. a = "published" => p \in PutBy
  BY <1>4, <1>6 DEF Answered
<1>9. a \in {"present", "refused"} => p \notin PutBy
  BY <1>4, <1>6 DEF Answered
<1>10. a \in {"published", "present"} => Stored[target[p]] = "whole"
  <2>1. a \in {"published", "present"} => Whole(final[target[p]])
    BY <1>0, <1>6 DEF Answered, LocalInv, Met
  <2>2. Whole(final[target[p]]) => StoredAs(target[p]) = "whole"
    BY DEF StoredAs, Whole
  <2>3. target[p] \in Bundles
    BY <1>0
  <2> QED BY <2>1, <2>2, <2>3 DEF Stored
<1>11. Answers[p] = "none" /\ target' = target
  BY <1>4, Waits DEF Answered
<1> HIDE DEF a
<1> QED
  BY <1>2, <1>3, <1>6, <1>7, <1>8, <1>9, <1>10, <1>11
  DEF Store!Answer, Store!Waiting, Stored, Synced, PutBy, Answers

LEMMA RenamePuts ==
    ASSUME IInv, NEW p \in Publishers, Rename(p)
    PROVE  Store!Put(p) \/ UNCHANGED Store!vars
<1> USE TypeParts
<1>0. TypeOK /\ LocalInv(p) /\ FinalInv
  BY DEF IInv, LocalInv
<1>1. Step(p)
  BY DEF Step
<1>2. Alone(p)
  BY <1>0, <1>1, StepAlone
<1>3. /\ pc[p] = "rename" /\ UNCHANGED <<target, kind, durable, rootFlush, status, claimed>>
      /\ rootFlush[p] = "not_attempted" /\ status[p] = "none"
  BY <1>0 DEF Rename, given, result, LocalInv, Returned
<1>4. Answers' = Answers
  <2>1. \A q \in Publishers : Answers'[q] = Answers[q]
    BY <1>3, SameAnswer
  <2> QED BY <2>1 DEF Answers
<1>5. CASE final' = final /\ pc'[p] # "flushroot"
  BY <1>0, <1>1, <1>3, <1>5, SilentStutters DEF Silent
<1>6. CASE final[target[p]] = NoDirectory /\ final' = [final EXCEPT ![target[p]] = temp[p]]
           /\ Goto(p, "flushroot")
  <2>1. PutBy' = PutBy \cup {p} /\ p \notin PutBy
    BY <1>0, <1>2, <1>3, <1>6 DEF PutBy, Alone, Goto
  <2>2. Synced' = Synced
    <3>1. \A b \in durable \cap Bundles : final'[b] = final[b]
      BY <1>0, <1>6 DEF FinalInv
    <3> QED BY <1>3, <3>1 DEF Synced
  <2>3. Stored' = [Stored EXCEPT ![target[p]] = "whole"] /\ Stored[target[p]] = "missing"
    <3>1. \A b \in Bundles : b # target[p] => StoredAs(b)' = StoredAs(b)
      BY <1>0, <1>3, <1>6 DEF StoredAs, Whole, Own
    <3>2. temp[p] # NoDirectory
      BY <1>0, <1>3, DirectoryAssumption DEF LocalInv, Prepared
    <3>3. target[p] \in Bundles /\ final'[target[p]] = temp[p]
      BY <1>0, <1>6
    <3>4. Whole(final'[target[p]])
      BY <1>0, <1>6, <3>2, <3>3, RenameWhole DEF LocalInv
    <3>5. Whole(final[target[p]])'
      BY <1>3, <3>4 DEF Whole, Own
    <3>6. StoredAs(target[p])' = "whole"
      BY <1>3, <3>5 DEF StoredAs, Whole
    <3>7. StoredAs(target[p]) = "missing"
      BY <1>6 DEF StoredAs
    <3>8. \A b \in Bundles : b # target[p] => Stored'[b] = Stored[b]
      BY <3>1 DEF Stored
    <3>9. Stored'[target[p]] = "whole" /\ Stored[target[p]] = "missing"
      BY <1>3, <3>3, <3>6, <3>7 DEF Stored
    <3>10. Stored \in [Bundles -> {"missing", "whole", "other"}]
           /\ Stored' = [b \in Bundles |-> Stored'[b]]
      BY DEF Stored, StoredAs
    <3> HIDE DEF Stored
    <3> QED BY <3>3, <3>8, <3>9, <3>10
  <2>4. Answers[p] = "none"
    BY <1>3, Waits
  <2> QED
    BY <1>3, <1>4, <2>1, <2>2, <2>3, <2>4
    DEF Store!Put, Store!Waiting, Stored, Synced, PutBy, Answers
<1>7. \/ final' = final /\ pc'[p] # "flushroot"
      \/ /\ final[target[p]] = NoDirectory /\ final' = [final EXCEPT ![target[p]] = temp[p]]
         /\ Goto(p, "flushroot")
  BY <1>0 DEF Rename, CleanUp, Goto
<1> QED BY <1>5, <1>6, <1>7

LEMMA FlushSyncs ==
    ASSUME IInv, NEW p \in Publishers, FlushRoot(p)
    PROVE  Store!Sync
<1> USE TypeParts
<1>0. TypeOK /\ LocalInv(p) /\ FinalInv
  BY DEF IInv, LocalInv
<1>1. Step(p)
  BY DEF Step
<1>2. Alone(p)
  BY <1>0, <1>1, StepAlone
<1>3. pc[p] = "flushroot" /\ UNCHANGED <<target, kind, final, status, claimed>> /\ rootFlush'[p] # "not_attempted"
  BY <1>0 DEF FlushRoot, given, result
<1>4. Answers' = Answers
  <2>1. \A q \in Publishers : Answers'[q] = Answers[q]
    BY <1>3, SameAnswer
  <2> QED BY <2>1 DEF Answers
<1>5. Stored' = Stored
  <2>1. \A b \in Bundles : StoredAs(b)' = StoredAs(b)
    BY <1>3 DEF StoredAs, Whole, Own
  <2> QED BY <2>1 DEF Stored
<1>6. PutBy' = PutBy
  BY <1>2, <1>3 DEF PutBy, Alone
<1>7. Synced \subseteq Synced'
  <2>1. durable \cap Bundles \subseteq durable' /\ ("root" \in durable => "root" \in durable')
    BY <1>0 DEF FinalInv, FlushRoot
  <2> QED BY <1>3, <2>1 DEF Synced
<1>8. Synced' \subseteq {b \in Bundles : Stored[b] # "missing"}
  <2>1. \A b \in durable' \cap Bundles : final[b] # NoDirectory
    BY <1>0, BundlesAssumption DEF FinalInv, FlushRoot
  <2> QED BY <1>3, <2>1 DEF Synced, Stored, StoredAs
<1> QED
  BY <1>3, <1>4, <1>5, <1>6, <1>7, <1>8 DEF Store!Sync, Stored, Synced, PutBy, Answers

LEMMA KillDies ==
    ASSUME IInv, NEW p \in Publishers, Kill(p)
    PROVE  Store!Die(p)
<1> USE TypeParts
<1>0. TypeOK /\ LocalInv(p) /\ FinalInv
  BY DEF IInv, LocalInv
<1>1. /\ UNCHANGED <<target, kind, final, durable, status, claimed>> /\ pc[p] # "done"
      /\ StartOver({p})
  BY DEF Kill, given, StartOver
<1>2. Stored' = Stored /\ Synced' = Synced
  BY <1>0, <1>1, SameStore
<1>3. Answers' = Answers
  <2>1. \A q \in Publishers : Answers'[q] = Answers[q]
    BY <1>1, SameAnswer
  <2> QED BY <2>1 DEF Answers
<1>4. PutBy' = PutBy \ {p}
  BY <1>1 DEF StartOver, PutBy
<1>5. Answers[p] = "none"
  BY <1>0, <1>1, Waits DEF LocalInv, Returned
<1> QED
  BY <1>1, <1>2, <1>3, <1>4, <1>5 DEF Store!Die, Store!Waiting, Stored, Synced, PutBy, Answers

\* What is left of a directory is whole only if it was, and it is all left once its
\* files and entries were flushed.
LEMMA WhatRemains ==
    ASSUME TypeOK, NEW d \in Directory, NEW r \in Remains(d)
    PROVE  /\ r # NoDirectory /\ r.synced
           /\ Whole(r) => Whole(d)
           /\ d.synced /\ (\A i \in Files : d.file[i] # "written") => (Whole(r) <=> Whole(d))
<1>1. r \in Directory /\ r.synced
  BY DEF Remains
<1>2. \A i \in Files : r.file[i] \in {"flushed", "written"} => d.file[i] \in {"flushed", "written"}
  BY DEF Remains
<1>3. d.synced /\ (\A i \in Files : d.file[i] # "written") => \A i \in Files : r.file[i] = d.file[i]
  BY DEF Remains, Directory, FileStates
<1> QED BY <1>1, <1>2, <1>3, OwnPrefix, DirectoryAssumption DEF Whole

LEMMA LossLoses ==
    ASSUME IInv, IInv', PowerLoss
    PROVE  Store!PowerLoss
<1> USE TypeParts
<1>0. TypeOK /\ FinalInv /\ \A p \in Publishers : LocalInv(p)
  BY DEF IInv, LocalInv
<1>1. /\ UNCHANGED <<target, kind, status, claimed>>
      /\ StartOver({p \in Publishers : pc[p] # "done"})
      /\ durable' \cap Bundles = {b \in Bundles : final'[b] # NoDirectory}
      /\ \A b \in Bundles : final'[b] \in AfterLoss(b)
  BY BundlesAssumption DEF PowerLoss, StartOver, given
<1>2. Answers' = Answers
  <2>1. \A q \in Publishers : Answers'[q] = Answers[q]
    BY <1>1, SameAnswer
  <2> QED BY <2>1 DEF Answers
<1>3. PutBy' = {p \in PutBy : Answers[p] # "none"}
  BY <1>0, <1>1, Waits DEF StartOver, PutBy, LocalInv, Returned
<1>4. ASSUME NEW b \in Bundles
      PROVE  /\ b \in Synced \/ Stored[b] = "missing" => Stored'[b] = Stored[b]
             /\ Stored'[b] = "whole" => Stored[b] = "whole"
             /\ final'[b] # NoDirectory => final'[b].synced
             /\ Stored'[b] \in {"missing", "whole", "other"}
             /\ Stored'[b] # "missing" <=> final'[b] # NoDirectory
  <2>1. /\ Stored[b] = IF final[b] = NoDirectory THEN "missing"
                       ELSE IF Whole(final[b]) THEN "whole" ELSE "other"
        /\ Stored'[b] = IF final'[b] = NoDirectory THEN "missing"
                        ELSE IF Whole(final'[b]) THEN "whole" ELSE "other"
    BY <1>1 DEF Stored, StoredAs, Whole, Own
  <2>2. CASE final[b] = NoDirectory
    BY <1>1, <2>1, <2>2 DEF AfterLoss, Synced, FinalInv
  <2>3. CASE final[b] # NoDirectory
    <3>1. final[b] \in Directory /\ \A i \in Files : final[b].file[i] # "written"
      BY <1>0, <2>3 DEF FinalInv
    <3>2. CASE final'[b] \in Remains(final[b])
      <4>1. /\ final'[b] # NoDirectory /\ final'[b].synced
            /\ Whole(final'[b]) => Whole(final[b])
            /\ final[b].synced => (Whole(final'[b]) <=> Whole(final[b]))
        BY <1>0, <3>1, <3>2, WhatRemains
      <4> QED BY <2>1, <2>3, <4>1 DEF Synced
    <3>3. CASE final'[b] = NoDirectory /\ ~({b, "root"} \subseteq durable)
      BY <2>1, <2>3, <3>3 DEF Synced
    <3> QED BY <1>1, <2>3, <3>2, <3>3 DEF AfterLoss
  <2> QED BY <2>2, <2>3
<1>5. Stored' \in [Bundles -> {"missing", "whole", "other"}]
  BY <1>4 DEF Stored
<1>6. Synced' = {b \in Bundles : Stored'[b] # "missing"}
  <2>1. (\E b \in Bundles : final'[b] # NoDirectory) => "root" \in durable'
    BY DEF PowerLoss
  <2> QED BY <1>1, <1>4, <2>1 DEF Synced
<1> QED
  BY <1>1, <1>2, <1>3, <1>4, <1>5, <1>6
  DEF Store!PowerLoss, Store!Waiting, Stored, Synced, PutBy, Answers

LEMMA StoreInit == Init => Store!Init
<1> SUFFICES ASSUME Init PROVE Store!Init
  OBVIOUS
<1>1. IInv /\ TypeOK
  BY Begins DEF IInv
<1>2. target \in [Publishers -> Bundles]
  BY DEF Init
<1>3. Stored \in [Bundles -> {"missing", "whole", "other"}]
  BY DEF Stored, StoredAs
<1>4. Synced = {b \in Bundles : Stored[b] # "missing"}
  <2>1. /\ \A b \in Bundles : b \in durable <=> final[b] # NoDirectory
        /\ \A b \in Bundles : final[b] # NoDirectory => "root" \in durable
    BY BundlesAssumption DEF Init
  <2>2. \A b \in Bundles : final[b] # NoDirectory => final[b].synced
    BY DEF Init
  <2> QED BY <2>1, <2>2 DEF Synced, Stored, StoredAs
<1>5. PutBy = {}
  BY DEF Init, PutBy
<1>6. Answers = [p \in Publishers |-> "none"]
  BY DEF Init, Answers, AnswerOf
<1> QED BY <1>2, <1>3, <1>4, <1>5, <1>6 DEF Store!Init, Stored, Synced, PutBy, Answers

LEMMA StoreNext == IInv /\ IInv' /\ [Next]_vars => [Store!Next]_(Store!vars)
<1> SUFFICES ASSUME IInv, IInv', [Next]_vars PROVE Store!Next \/ UNCHANGED Store!vars
  OBVIOUS
<1>1. ASSUME NEW p \in Publishers, Step(p) PROVE Store!Next \/ UNCHANGED Store!vars
  <2>1. CASE Silent(p)
    BY <1>1, <2>1, SilentStutters DEF IInv
  <2>2. CASE Answered(p)
    BY <1>1, <2>2, AnsweredAnswers DEF Store!Next
  <2>3. CASE Rename(p)
    BY <2>3, RenamePuts DEF Store!Next
  <2>4. CASE FlushRoot(p)
    BY <2>4, FlushSyncs DEF Store!Next
  <2> QED BY <1>1, <2>1, <2>2, <2>3, <2>4, StepShape DEF IInv
<1>2. ASSUME NEW p \in Publishers, Kill(p) PROVE Store!Next
  BY <1>2, KillDies DEF Store!Next
<1>3. CASE PowerLoss
  BY <1>3, LossLoses DEF Store!Next
<1>4. CASE UNCHANGED vars
  <2>1. UNCHANGED <<final, kind, durable, target, pc, rootFlush, status, claimed>>
    BY <1>4 DEF vars, fs, given, memory, result
  <2>2. Stored' = Stored /\ Synced' = Synced
    BY <2>1, SameStore DEF IInv
  <2>3. PutBy' = PutBy /\ Answers' = Answers
    BY <2>1 DEF PutBy, Answers, AnswerOf
  <2> QED BY <2>1, <2>2, <2>3 DEF Store!vars, Stored, Synced, PutBy, Answers
<1> QED BY <1>1, <1>2, <1>3, <1>4 DEF Next, Rest

-----------------------------------------------------------------------------
(* What the runs check, for every instance.                                 *)

\* The variables of the publishers keep their types through every failure, kill and
\* power loss.
THEOREM TypeCorrect == Spec => []TypeOK
<1>1. IInv => TypeOK
  BY DEF IInv
<1> QED BY <1>1, Invariance, PTL

\* A publisher that returns leaves its private directory behind only if its result
\* says so: _cleanup_temporary_directory and every result built after it.  (Not an
\* operator solution's, which cannot, and not when the cleanup's lstat failed.)
THEOREM ResidueNamed == Spec => []ResidueConfessed
<1>1. IInv => ResidueConfessed
  BY DEF IInv, Returned, ResidueConfessed
<1> QED BY <1>1, Invariance, PTL

\* The slower of two publishers of one artifact reports it as present unless a call
\* failed: renameat2(RENAME_NOREPLACE) refused, the private directory was removed and
\* the directory under the final name was loaded.
THEOREM LoserFinds == Spec => []LoserFindsBundle
<1>1. IInv => LoserFindsBundle
  BY DEF IInv, Returned, LoserFindsBundle
<1> QED BY <1>1, Invariance, PTL

\* The publishers implement the store that never replaces: an entry appears whole and
\* only where nothing was, stays, outlives a power loss once its directory and its
\* name were flushed beneath a root that is itself on disk, and no result contradicts
\* it.
THEOREM ImplementsStore == Spec => StoreImplemented
<1>1. Spec => Store!Init /\ [][Store!Next]_(Store!vars)
  BY Invariance, StoreInit, StoreNext, PTL DEF Spec
<1> QED BY <1>1 DEF StoreImplemented, Store!Spec

-----------------------------------------------------------------------------
(* What a result that reports a flush is worth.                             *)
\* A publisher whose artifact is under its final name, as far as it can tell.
Holds(p) == pc[p] \in {"flushroot", "load"} \/ rootFlush[p] = "passed"

\* Once the root was flushed that is on disk (beneath a root that is), and a strict
\* publisher on posix has flushed the directory too.
Holding(p) ==
    /\ Holds(p) => final[target[p]] # NoDirectory
    /\ rootFlush[p] = "passed" =>
          pc[p] \in {"load", "done"} /\ target[p] \in durable /\ platform = "posix"
    /\ Strict /\ platform = "posix" =>
          /\ pc[p] \in {"recheck", "rename"} => temp[p].synced
          /\ Holds(p) => Whole(final[target[p]]) /\ final[target[p]].synced

\* What one publisher holds no other does.
HeldApart ==
    \A p, q \in Publishers : p # q /\ Holds(p) /\ Holds(q) => target[p] # target[q]

HoldInv == HeldApart /\ \A p \in Publishers : Holding(p)

\* A root that was there before any publisher is on disk, and nobody's to remove.
RootInv == root /\ "root" \in durable /\ \A p \in Publishers : ~rootCreated[p]

LEMMA SettledRemains ==
    ASSUME IInv, PowerLoss, NEW b \in Bundles, final[b] # NoDirectory, b \in durable,
           "root" \in durable
    PROVE  /\ final'[b] # NoDirectory /\ {b, "root"} \subseteq durable' /\ final'[b].synced
           /\ final[b].synced => final'[b] = final[b]
<1> USE TypeParts
<1>1. /\ final[b] \in Directory /\ final'[b] \in Remains(final[b])
      /\ \A i \in Files : final[b].file[i] # "written"
  BY DEF IInv, FinalInv, PowerLoss, AfterLoss
<1>2. final'[b] \in Directory /\ final'[b].synced = TRUE
  BY <1>1 DEF Remains, Directory
<1>3. {b, "root"} \subseteq durable' /\ final'[b] # NoDirectory
  BY <1>2, DirectoryAssumption DEF PowerLoss
<1>4. ASSUME final[b].synced PROVE final'[b] = final[b]
  <2>1. \A i \in Files : final'[b].file[i] = final[b].file[i]
    BY <1>1, <1>4 DEF Remains, Directory, FileStates
  <2>2. final[b].synced = TRUE
    BY <1>1, <1>4 DEF Directory
  <2>3. final'[b].file = final[b].file
    BY <1>1, <1>2, <2>1 DEF Directory
  <2> QED BY <1>1, <1>2, <2>2, <2>3 DEF Directory
<1> QED BY <1>2, <1>3, <1>4

\* No step takes an entry off the disk, nor the root it lies in.
LEMMA StepDurable ==
    ASSUME IInv, NEW p \in Publishers, Step(p)
    PROVE  /\ durable \cap Bundles \subseteq durable'
           /\ \A b \in Bundles : "root" \in durable /\ final[b] # NoDirectory => "root" \in durable'
<1>1. CASE FlushRoot(p)
  BY <1>1 DEF FlushRoot, IInv, FinalInv
<1>2. CASE RemoveRoot(p)
  BY <1>2, BundlesAssumption DEF RemoveRoot, RootEmpty
<1>3. CASE ~(FlushRoot(p) \/ RemoveRoot(p))
  <2>1. durable' = durable
    BY <1>3, Zenon DEF Step, Admit, Derive, InspectRoot, CreateRoot, InspectFinal, CreateTemporaryDirectory,
       WriteFile, FlushFile, VerifyFile, SealPrepared, FlushDirectory, RecheckFinal, Rename,
       LoadPublished, CleanUpTemporary, ExistingDestination, fs
  <2> QED BY <2>1
<1> QED BY <1>1, <1>2, <1>3

\* The root stays.
LEMMA RootKept == IInv /\ RootInv /\ [Next]_vars => RootInv'
<1> SUFFICES ASSUME IInv, RootInv, [Next]_vars PROVE RootInv'
  OBVIOUS
<1> USE TypeParts DEF IInv
<1>1. ASSUME NEW p \in Publishers, Step(p) PROVE RootInv'
  <2>1. CASE CreateRoot(p)
    BY <2>1 DEF CreateRoot, RootInv
  <2>2. CASE RemoveRoot(p)
    BY <2>2 DEF RemoveRoot, RootInv, memory
  <2>3. CASE FlushRoot(p)
    BY <2>3 DEF FlushRoot, RootInv
  <2>4. CASE ~(CreateRoot(p) \/ RemoveRoot(p) \/ FlushRoot(p))
    <3>1. UNCHANGED <<root, durable, rootCreated>>
      BY <1>1, <2>4, Zenon DEF Step, Admit, Derive, InspectRoot, InspectFinal,
         CreateTemporaryDirectory, WriteFile, FlushFile, VerifyFile, SealPrepared, FlushDirectory,
         RecheckFinal, Rename, LoadPublished, CleanUpTemporary, ExistingDestination, fs, memory
    <3> QED BY <3>1 DEF RootInv
  <2> QED BY <2>1, <2>2, <2>3, <2>4
<1>2. ASSUME NEW p \in Publishers, Kill(p) PROVE RootInv'
  BY <1>2 DEF Kill, StartOver, RootInv
<1>3. CASE PowerLoss
  <2>1. root' = TRUE /\ "root" \in durable'
    BY <1>3 DEF PowerLoss, RootInv
  <2> QED BY <1>3, <2>1 DEF PowerLoss, StartOver, RootInv
<1>4. CASE UNCHANGED vars
  BY <1>4 DEF vars, fs, memory, RootInv
<1> QED BY <1>1, <1>2, <1>3, <1>4, Zenon DEF Next, Rest

\* Where a step takes its own publisher.
Entered(p) ==
    /\ pc[p] = "rename" /\ pc'[p] = "flushroot" /\ rootFlush'[p] = rootFlush[p]
    /\ final[target[p]] = NoDirectory /\ final' = [final EXCEPT ![target[p]] = temp[p]]
RootFlushed(p) ==
    /\ pc[p] = "flushroot" /\ pc'[p] = "load"
    /\ rootFlush'[p] = "passed" =>
          platform = "posix" /\ {b \in Bundles : final[b] # NoDirectory} \subseteq durable'
GoesOn(p) ==
    /\ rootFlush'[p] = rootFlush[p]
    /\ pc'[p] \notin {"flushroot", "load"}
    /\ pc[p] = "load" => pc'[p] = "done"
    /\ pc'[p] # "done" => pc[p] \notin {"load", "done"}
    /\ pc'[p] \in {"recheck", "rename"} => temp'[p] = temp[p] /\ pc[p] \in {"recheck", "rename"}

LEMMA StepPlace ==
    ASSUME TypeOK, NEW p \in Publishers, Step(p)
    PROVE  Entered(p) \/ RootFlushed(p) \/ FlushDirectory(p) \/ GoesOn(p)
<1> USE TypeParts DEF Goto, Return, CleanUp, fs, given, memory, result, budgets, GoesOn
<1>1. CASE Admit(p) \/ Derive(p)
  BY <1>1 DEF Admit, Derive
<1>2. CASE InspectRoot(p) \/ CreateRoot(p) \/ InspectFinal(p) \/ CreateTemporaryDirectory(p)
  BY <1>2 DEF InspectRoot, CreateRoot, InspectFinal, CreateTemporaryDirectory
<1>3. CASE WriteFile(p)
  BY <1>3 DEF WriteFile
<1>4. CASE FlushFile(p) \/ VerifyFile(p) \/ SealPrepared(p)
  BY <1>4 DEF FlushFile, VerifyFile, SealPrepared
<1>5. CASE RecheckFinal(p)
  BY <1>5 DEF RecheckFinal
<1>6. CASE Rename(p)
  BY <1>6 DEF Rename, Entered
<1>7. CASE FlushRoot(p)
  BY <1>7 DEF FlushRoot, RootFlushed
<1>8. CASE LoadPublished(p)
  BY <1>8 DEF LoadPublished, LoadStrict, LoadLink, LoadSolution
<1>9. CASE CleanUpTemporary(p)
  BY <1>9 DEF CleanUpTemporary, CleanedUp, LeftOver
<1>10. CASE ExistingDestination(p)
  BY <1>10 DEF ExistingDestination, ExistingStrict, ExistingLink, ExistingSolution
<1>11. CASE RemoveRoot(p)
  BY <1>11 DEF RemoveRoot
<1> QED BY <1>1, <1>2, <1>3, <1>4, <1>5, <1>6, <1>7, <1>8, <1>9, <1>10, <1>11 DEF Step

LEMMA PublisherHolds ==
    ASSUME IInv, IInv', HoldInv, NEW p \in Publishers, Step(p)
    PROVE  /\ Holding(p)'
           /\ Holds(p)' => Holds(p) \/ (Entered(p) /\ final[target[p]] = NoDirectory)
<1> USE TypeParts
<1>0. /\ TypeOK /\ Holding(p) /\ Adds(p) /\ durable \cap Bundles \subseteq durable'
      /\ target[p] \in Bundles /\ Prepared(p) /\ Returned(p) /\ Met(p)'
      /\ final \in [Bundles -> Directory \cup {NoDirectory}]
  BY StepAdds, StepDurable DEF HoldInv, IInv
<1>1. /\ target' = target /\ platform' = platform /\ kind' = kind /\ (Strict' <=> Strict)
      /\ Own' = Own
      /\ final[target[p]] # NoDirectory => final'[target[p]] = final[target[p]]
  BY <1>0 DEF Adds, given, Strict, Own
<1>2. Whole(final[target[p]]) /\ final'[target[p]] = final[target[p]] => Whole(final[target[p]])'
  BY <1>1 DEF Whole
<1>3. CASE Entered(p)
  <2>1. temp[p] \in Directory /\ pc[p] = "rename" /\ pc'[p] = "flushroot" /\ rootFlush'[p] = rootFlush[p]
    BY <1>0, <1>3 DEF Entered, Prepared
  <2>2. final'[target[p]] = temp[p] /\ final'[target[p]] # NoDirectory
    BY <1>0, <1>3, <2>1, DirectoryAssumption DEF Entered
  <2>3. Whole(final[target[p]])'
    BY <1>0, <2>1 DEF Met
  <2>4. rootFlush[p] # "passed"
    BY <1>0, <2>1 DEF Returned
  <2> QED BY <1>0, <1>1, <1>3, <2>1, <2>2, <2>3, <2>4 DEF Holding, Holds, Entered
<1>4. CASE RootFlushed(p)
  <2>1. Holds(p) /\ pc'[p] = "load" /\ Holds(p)'
    BY <1>4 DEF RootFlushed, Holds
  <2>2. final[target[p]] # NoDirectory
    BY <1>0, <2>1 DEF Holding
  <2>3. rootFlush'[p] = "passed" => platform = "posix" /\ target[p] \in durable'
    BY <1>0, <1>4, <2>2 DEF RootFlushed
  <2> QED BY <1>0, <1>1, <1>2, <2>1, <2>2, <2>3 DEF Holding
<1>5. CASE GoesOn(p)
  <2>1. Holds(p)' => Holds(p)
    BY <1>5 DEF GoesOn, Holds
  <2>2. rootFlush'[p] = "passed" => pc'[p] \in {"load", "done"}
    BY <1>0, <1>5 DEF GoesOn, Holding
  <2> QED BY <1>0, <1>1, <1>2, <1>5, <2>1, <2>2 DEF Holding, Holds, GoesOn
<1>6. CASE FlushDirectory(p)
  <2>1. /\ pc[p] = "flushdir" /\ pc'[p] \in {"recheck", "rename", "cleanup"} /\ UNCHANGED <<final, durable, rootFlush>>
        /\ Strict /\ platform = "posix" /\ pc'[p] # "cleanup" => temp' = [temp EXCEPT ![p].synced = TRUE]
    BY <1>0, <1>6 DEF FlushDirectory, CleanUp, Goto
  <2>2. temp[p] \in Directory
    BY <1>0, <2>1 DEF Prepared
  <2>3. Strict /\ platform = "posix" /\ pc'[p] # "cleanup" => temp'[p].synced
    BY <1>0, <2>1, <2>2 DEF Directory
  <2>4. rootFlush'[p] # "passed"
    BY <1>0, <2>1 DEF Returned
  <2> QED BY <1>1, <2>1, <2>3, <2>4 DEF Holding, Holds
<1> QED BY <1>0, <1>3, <1>4, <1>5, <1>6, StepPlace

LEMMA StepHeld ==
    ASSUME IInv, IInv', HoldInv, NEW p \in Publishers, Step(p)
    PROVE  HoldInv'
<1> USE TypeParts
<1>0. /\ TypeOK /\ Alone(p) /\ Adds(p) /\ durable \cap Bundles \subseteq durable'
      /\ \A q \in Publishers : Holding(q) /\ target[q] \in Bundles
  BY StepAlone, StepAdds, StepDurable DEF HoldInv, IInv
<1>1. /\ target' = target /\ platform' = platform /\ (Strict' <=> Strict) /\ Own' = Own
      /\ \A b \in Bundles : final[b] # NoDirectory => final'[b] = final[b]
  BY <1>0 DEF Adds, given, Strict, Own
<1>2. ASSUME NEW q \in Publishers, q # p
      PROVE  Holding(q)' /\ (Holds(q)' <=> Holds(q))
  <2>1. /\ pc'[q] = pc[q] /\ temp'[q] = temp[q] /\ rootFlush'[q] = rootFlush[q]
        /\ Holds(q)' <=> Holds(q)
    BY <1>0, <1>2 DEF Alone, Holds
  <2>2. final[target[q]] # NoDirectory =>
           final'[target[q]] = final[target[q]] /\ (Whole(final[target[q]]) => Whole(final[target[q]])')
    BY <1>0, <1>1 DEF Whole
  <2> QED BY <1>0, <1>1, <2>1, <2>2 DEF Holding
<1>3. /\ Holding(p)'
      /\ Holds(p)' => Holds(p) \/ final[target[p]] = NoDirectory
  BY PublisherHolds
<1>4. ASSUME NEW q \in Publishers, q # p, Holds(p)', Holds(q)' PROVE target'[p] # target'[q]
  <2>1. Holds(q) /\ final[target[q]] # NoDirectory
    BY <1>0, <1>2, <1>4 DEF Holding
  <2> QED BY <1>1, <1>3, <1>4, <2>1 DEF HoldInv, HeldApart
<1>5. HeldApart'
  <2> SUFFICES ASSUME NEW q \in Publishers, NEW r \in Publishers, q # r, Holds(q)', Holds(r)'
               PROVE  target'[q] # target'[r]
    BY DEF HeldApart
  <2>1. CASE q # p /\ r # p
    BY <1>1, <1>2, <2>1 DEF HoldInv, HeldApart
  <2> QED BY <1>4, <2>1
<1> QED BY <1>2, <1>3, <1>5 DEF HoldInv

\* Who starts over holds nothing; the others lose nothing they hold.
LEMMA RestartHeld ==
    ASSUME IInv, HoldInv, NEW P \in SUBSET Publishers, StartOver(P), UNCHANGED given,
           \A b \in Bundles : b \in durable /\ final[b] # NoDirectory =>
               /\ b \in durable' /\ final'[b] # NoDirectory
               /\ final[b].synced => final'[b] = final[b],
           \A q \in Publishers \ P :
               pc[q] = "done" \/ (UNCHANGED <<final, durable>> /\ temp'[q] = temp[q])
    PROVE  HoldInv'
<1> USE TypeParts
<1>0. TypeOK /\ \A q \in Publishers : Holding(q) /\ target[q] \in Bundles
  BY DEF HoldInv, IInv
<1>1. target' = target /\ platform' = platform /\ (Strict' <=> Strict) /\ Own' = Own
  BY DEF given, Strict, Own
<1>2. ASSUME NEW q \in P PROVE ~Holds(q)' /\ Holding(q)'
  <2>1. pc'[q] = "start" /\ rootFlush'[q] = "not_attempted"
    BY <1>0 DEF StartOver
  <2> QED BY <2>1 DEF Holds, Holding
<1>3. ASSUME NEW q \in Publishers \ P PROVE Holding(q)' /\ (Holds(q)' <=> Holds(q))
  <2>1. /\ pc'[q] = pc[q] /\ rootFlush'[q] = rootFlush[q]
        /\ Holds(q)' <=> Holds(q)
    BY <1>0 DEF StartOver, Holds
  <2>2. CASE UNCHANGED <<final, durable>> /\ temp'[q] = temp[q]
    <3>1. Whole(final[target[q]])' <=> Whole(final[target[q]])
      BY <1>1, <2>2 DEF Whole
    <3> QED BY <1>0, <1>1, <2>1, <2>2, <3>1 DEF Holding
  <2>3. CASE pc[q] = "done"
    <3>1. Holds(q) => target[q] \in durable /\ final[target[q]] # NoDirectory
      BY <1>0, <2>3 DEF Holding, Holds
    <3>2. Holds(q) => /\ target[q] \in durable' /\ final'[target[q]] # NoDirectory
                      /\ final[target[q]].synced => final'[target[q]] = final[target[q]]
      BY <1>0, <3>1
    <3>3. final'[target[q]] = final[target[q]] => (Whole(final[target[q]])' <=> Whole(final[target[q]]))
      BY <1>1 DEF Whole
    <3>4. rootFlush[q] = "passed" => Holds(q)
      BY DEF Holds
    <3> QED BY <1>0, <1>1, <2>1, <2>3, <3>2, <3>3, <3>4 DEF Holding
  <2> QED BY <1>3, <2>2, <2>3
<1>4. HeldApart'
  BY <1>1, <1>2, <1>3 DEF HoldInv, HeldApart
<1> QED BY <1>2, <1>3, <1>4 DEF HoldInv

LEMMA HeldNext == IInv /\ IInv' /\ RootInv /\ HoldInv /\ [Next]_vars => HoldInv'
<1> SUFFICES ASSUME IInv, IInv', RootInv, HoldInv, [Next]_vars PROVE HoldInv'
  OBVIOUS
<1>1. ASSUME NEW p \in Publishers, Step(p) PROVE HoldInv'
  BY <1>1, StepHeld
<1>2. ASSUME NEW p \in Publishers, Kill(p) PROVE HoldInv'
  <2>1. /\ {p} \in SUBSET Publishers /\ StartOver({p}) /\ UNCHANGED <<final, durable>>
        /\ UNCHANGED given /\ \A q \in Publishers \ {p} : temp'[q] = temp[q]
    BY <1>2, TypeParts DEF Kill, IInv
  <2> QED BY <2>1, RestartHeld
<1>3. ASSUME PowerLoss PROVE HoldInv'
  <2> DEFINE P == {p \in Publishers : pc[p] # "done"}
  <2>1. P \in SUBSET Publishers /\ StartOver(P) /\ UNCHANGED given /\ \A q \in Publishers \ P : pc[q] = "done"
    BY <1>3 DEF PowerLoss
  <2>2. \A b \in Bundles : b \in durable /\ final[b] # NoDirectory =>
               /\ b \in durable' /\ final'[b] # NoDirectory
               /\ final[b].synced => final'[b] = final[b]
    BY <1>3, SettledRemains DEF RootInv
  <2> HIDE DEF P
  <2> QED BY <2>1, <2>2, RestartHeld
<1>4. ASSUME UNCHANGED vars PROVE HoldInv'
  BY <1>4 DEF vars, fs, given, memory, HoldInv, HeldApart, Holding, Holds, Strict, Whole, Own
<1> QED BY <1>1, <1>2, <1>3, <1>4, Zenon DEF Next, Rest

LEMMA HeldAlways == Spec /\ root => []HoldInv
<1>1. Init /\ root => HoldInv /\ RootInv
  BY DEF Init, HoldInv, HeldApart, Holding, Holds, RootInv
<1> QED BY <1>1, HeldNext, RootKept, Invariance, PTL DEF Spec

\* Beneath a root that was there before, a result whose
\* publication_root_flush_status is "passed" is worth what it says: the
\* publisher's artifact is on disk and no other publisher can say the same of it, and
\* what a strict publisher (of bundles and approvals) so reported is whole, for ever:
\* through any kills, failing calls and power losses that follow.  Beneath a root that
\* a publisher made it is not: nobody flushes the root's own name in the data
\* directory, and a power loss may take the root with a flushed entry in it.
THEOREM FlushedForGood ==
    Spec /\ root => [](\A p \in Publishers : rootFlush[p] = "passed" =>
                  /\ target[p] \in durable /\ final[target[p]] # NoDirectory
                  /\ Strict => Whole(final[target[p]])
                  /\ \A q \in Publishers \ {p} :
                        target[q] = target[p] => rootFlush[q] # "passed")
<1>1. HoldInv => \A p \in Publishers : rootFlush[p] = "passed" =>
                  /\ target[p] \in durable /\ final[target[p]] # NoDirectory
                  /\ Strict => Whole(final[target[p]])
                  /\ \A q \in Publishers \ {p} :
                        target[q] = target[p] => rootFlush[q] # "passed"
  BY DEF HoldInv, HeldApart, Holding, Holds
<1> QED BY <1>1, HeldAlways, PTL

\* An entry is never changed again once its directory, its name in the root and the
\* root's own name are on disk, not by a publisher, its cleanup, a kill or a power
\* loss; and between power losses no entry is, on disk or not: nothing of the
\* publishers replaces or repairs.
THEOREM NothingReplaced ==
    Spec => [][\A b \in Bundles : final[b] # NoDirectory =>
                  /\ ~PowerLoss => final'[b] = final[b]
                  /\ {b, "root"} \subseteq durable /\ final[b].synced =>
                        final'[b] = final[b] /\ {b, "root"} \subseteq durable']_vars
<1>1. IInv /\ [Next]_vars =>
        [\A b \in Bundles : final[b] # NoDirectory =>
            /\ ~PowerLoss => final'[b] = final[b]
            /\ {b, "root"} \subseteq durable /\ final[b].synced =>
                  final'[b] = final[b] /\ {b, "root"} \subseteq durable']_vars
  <2> SUFFICES ASSUME IInv, Next, NEW b \in Bundles, final[b] # NoDirectory
               PROVE  /\ ~PowerLoss => final'[b] = final[b]
                      /\ {b, "root"} \subseteq durable /\ final[b].synced =>
                            final'[b] = final[b] /\ {b, "root"} \subseteq durable'
    OBVIOUS
  <2>0. TypeOK
    BY DEF IInv
  <2>1. ASSUME NEW p \in Publishers, Step(p)
        PROVE  /\ final'[b] = final[b] /\ (b \in durable => b \in durable')
               /\ "root" \in durable => "root" \in durable'
    BY <2>0, <2>1, StepAdds, StepDurable DEF Adds
  <2>2. ASSUME NEW p \in Publishers, Kill(p) PROVE UNCHANGED <<final, durable>>
    BY <2>2 DEF Kill
  <2>3. ASSUME UNCHANGED vars PROVE UNCHANGED <<final, durable>>
    BY <2>3 DEF vars, fs
  <2> QED BY <2>1, <2>2, <2>3, SettledRemains DEF Next, Rest
<1> QED BY <1>1, Invariance, PTL DEF Spec
================================================================================
