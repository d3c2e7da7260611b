--------------------------- MODULE EvidenceBundles ----------------------------
(***************************************************************************)
(* Evidence bundles: directories of a JSON body, a Markdown text and a     *)
(* manifest of checksums that ShellForgeAI saves, validates, exports and   *)
(* prunes: operator reports, handoffs, readiness packets, session          *)
(* summaries, triage snapshots, recipe preflights and receipts.            *)
(*                                                                         *)
(* A saver writes its files in place, some of them several times; the      *)
(* directory itself is fresh.  An exporter validates the saved bundle and  *)
(* copies it, most into a directory named after the bundle; a pruner       *)
(* archives and deletes exports file by file.  Nobody holds a lock and     *)
(* each of these invocations may be killed.  Everybody writes in two       *)
(* steps: opening truncates the file, and what is unlinked meanwhile is    *)
(* written nowhere.                                                        *)
(*                                                                         *)
(* A file's content is the number of the write that made it.  "Mutant"     *)
(* marks a plausible bug of the definition after it, used by no            *)
(* specification.                                                          *)
(***************************************************************************)
EXTENDS Naturals, Sequences, FiniteSetsExt, SequencesExt

CONSTANTS
    Bundles,     \* saved bundles, each the work of one saver
    Exporters,   \* invocations of the export commands
    Pruners,     \* invocations of "audit prune --execute --confirm"
    KindsSaved,  \* the kinds the bundles are drawn from
    KindsExported, \* bound: the kinds exporters are started on
    Torn,        \* the content of a file truncated and not written yet
    NoDirectory,
    MaxKills     \* bound: exporters killed

Files == {"body", "text", "body2", "text2", "details", "history", "listing", "manifest"}
Missing == 0
Nothing == [f \in Files |-> Missing]

-----------------------------------------------------------------------------
(* The kinds, one group each: the order of the saver's writes; what its    *)
(* validator requires and parses (a torn file does not parse); how it is   *)
(* exported; what the validator of the export requires and parses.         *)
Checks(required, parsed) == [required |-> required, parsed |-> parsed]

Triple == {"body", "text", "manifest"}

\* How a bundle is exported: into a directory of its own name or a fresh one,
\* looking first at what is there or not, the files copied, and those copied if
\* they are there.
Named(order, extra) == [fixed |-> TRUE, looks |-> TRUE, order |-> order, extra |-> extra]
Fresh(order)        == [fixed |-> FALSE, looks |-> FALSE, order |-> order, extra |-> <<>>]
TripleOrder         == <<"body", "text", "manifest">>
NeverExported       == Fresh(<<>>)

\* Mutant: a report needs no manifest to validate.
OpsReportValidateLoose == Checks({"body", "text"}, {"body", "manifest"})

OpsReportSave           == <<"body", "text", "manifest">>
OpsReportValidate       == Checks(Triple, {"body", "manifest"})
OpsReportExport         == Named(TripleOrder, <<>>)
OpsReportExportValidate == Checks(Triple, {"body"})

V1PacketSave           == <<"body", "text", "manifest">>
V1PacketValidate       == Checks(Triple, {"body", "manifest"})
V1PacketExport         == Named(TripleOrder, <<>>)
V1PacketExportValidate == Checks(Triple, {"body"})

V2HandoffSave           == <<"body", "text", "manifest">>
V2HandoffValidate       == Checks(Triple, {"body", "manifest"})
V2HandoffExport         == Named(TripleOrder, <<>>)
V2HandoffExportValidate == Checks(Triple, {"body", "manifest"})

SummarySave           == <<"body", "text", "manifest">>
SummaryValidate       == Checks(Triple, {"body", "manifest"})
SummaryExport         == Named(TripleOrder, <<>>)
SummaryExportValidate == Checks(Triple, {"body", "manifest"})

\* A triage snapshot validates without its manifest and is exported without
\* looking first; one with details saves a file more.
SnapshotSave           == <<"body", "text", "manifest">>
DetailedSnapshotSave   == <<"body", "text", "details", "manifest">>
SnapshotValidate       == Checks({"body", "text"}, {"body", "manifest"})
SnapshotExport         == [Named(TripleOrder, <<"details">>) EXCEPT !.looks = FALSE]
SnapshotExportValidate == Checks(Triple, {"body"})

PreflightSave     == <<"body", "text", "manifest", "body", "manifest", "body", "manifest">>
PreflightValidate == Checks(Triple, {"body", "manifest"})

\* Mutant: the last manifest of a receipt is not written.
ReceiptSaveStale == <<"body", "text", "manifest", "manifest", "body">>

ReceiptSave           == <<"body", "text", "manifest", "manifest", "body", "manifest">>
ReceiptValidate       == Checks(Triple, {"body", "manifest"})
ReceiptExport         == Fresh(TripleOrder)
ReceiptExportValidate == Checks({}, {})

RecoveryReceiptSave   ==
    <<"body", "body2", "text2", "text", "manifest", "manifest", "body", "body2", "manifest">>
RecoveryReceiptExport == Fresh(<<"body", "body2", "text", "text2", "manifest">>)

\* The checksums of an audit bundle are in checksums.json ("manifest" here);
\* its own manifest.json, which lists the files, is "listing".
AuditBundleSave     ==
    <<"details", "history", "body", "text", "listing", "manifest", "body", "manifest">>
AuditBundleValidate ==
    LET files == {"details", "history", "body", "text", "listing", "manifest"}
    IN  Checks(files, files \ {"text"})

Layout(save, validate, xport, validateExport) ==
    [writes |-> save, required |-> validate.required, parsed |-> validate.parsed,
     xport |-> xport,
     exportRequired |-> validateExport.required, exportParsed |-> validateExport.parsed]

Kinds ==
    [ops       |-> Layout(OpsReportSave, OpsReportValidate, OpsReportExport, OpsReportExportValidate),
     packet    |-> Layout(V1PacketSave, V1PacketValidate, V1PacketExport, V1PacketExportValidate),
     handoff   |-> Layout(V2HandoffSave, V2HandoffValidate, V2HandoffExport, V2HandoffExportValidate),
     summary   |-> Layout(SummarySave, SummaryValidate, SummaryExport, SummaryExportValidate),
     snapshot  |-> Layout(SnapshotSave, SnapshotValidate,
                          SnapshotExport, SnapshotExportValidate),
     detailed  |-> Layout(DetailedSnapshotSave, SnapshotValidate,
                          SnapshotExport, SnapshotExportValidate),
     preflight |-> Layout(PreflightSave, PreflightValidate, NeverExported, Checks({}, {})),
     receipt   |-> Layout(ReceiptSave, ReceiptValidate, ReceiptExport, ReceiptExportValidate),
     recovery  |-> Layout(RecoveryReceiptSave, ReceiptValidate,
                          RecoveryReceiptExport, ReceiptExportValidate),
     audit     |-> Layout(AuditBundleSave, AuditBundleValidate, NeverExported, Checks({}, {}))]

Exportable == KindsExported \ {"preflight", "audit"}

ASSUME KindsAssumption == KindsSaved \subseteq DOMAIN Kinds /\ KindsExported \subseteq DOMAIN Kinds
ASSUME KillsAssumption == MaxKills \in Nat
ASSUME NamesAssumption == Bundles \cap Exporters = {}   \* fresh names are no bundle's
ASSUME TornAssumption == Torn \notin Nat

VARIABLES
    kind,     \* what a bundle is
    saved,    \* its files
    next,     \* the write its saver is at
    saver,    \* "between" two writes, "open" (truncated, not written), "done"
    export,   \* export directories
    pc, of, todo, taken, answer,           \* per exporter
    lost,     \* exporters whose open file was unlinked
    prune, name, keep, listing, archive,   \* per pruner
    disturbed,  \* history: exporters whose directory a pruner deleted from
    undercut,   \* history: names a pruner deleted from while an exporter was at work
    raced,      \* history: pruners whose directory an exporter wrote into
    unkept,     \* history: pruners that deleted what they had not archived
    kills

source  == <<kind, saved, next, saver>>
invoker == <<pc, of, todo, taken, answer>>
pruner  == <<prune, name, keep, listing, archive, unkept>>
spoiled == <<disturbed, undercut>>
vars    == <<source, export, invoker, lost, pruner, spoiled, raced, kills>>

Names    == Bundles \cup Exporters
Contents == 0..9 \cup {Torn}

\* The copies; the export manifest, not there, cut short or whole; its checksums.
Directory == [copies : [Files -> Contents],
              seal : {"none", "cut", "whole"}, sums : [Files -> Contents]]
NewDirectory == [copies |-> Nothing, seal |-> "none", sums |-> Nothing]
ASSUME DirectoryAssumption == NoDirectory \notin Directory
Answers  == {"none", "failed", "exported", "existing", "already_exists", "raised"}

TypeOK ==
    /\ kind \in [Bundles -> KindsSaved]
    /\ saved \in [Bundles -> [Files -> Contents]]
    /\ next \in [Bundles -> 1..10]
    /\ saver \in [Bundles -> {"between", "open", "done"}]
    /\ export \in [Names -> Directory \cup {NoDirectory}]
    /\ pc \in [Exporters -> {"ready", "check", "mkdir", "copy", "fill", "hash", "seal", "sealing", "done"}]
    /\ of \in [Exporters -> Bundles]
    /\ todo \in [Exporters -> Seq(Files)]
    /\ taken \in [Exporters -> [Files -> Contents]]
    /\ answer \in [Exporters -> Answers]
    /\ lost \subseteq Exporters
    /\ prune \in [Pruners -> {"ready", "gather", "archive", "list", "delete", "done"}]
    /\ name \in [Pruners -> Names]
    /\ keep \in [Pruners -> BOOLEAN]
    /\ listing \in [Pruners -> SUBSET (Files \cup {"seal"})]
    /\ archive \in [Pruners -> [Files -> Contents]]
    /\ disturbed \subseteq Exporters /\ undercut \subseteq Names
    /\ raced \subseteq Pruners /\ unkept \subseteq Pruners
    /\ kills \in 0..MaxKills

Init ==
    /\ kind \in [Bundles -> KindsSaved]
    /\ saved = [b \in Bundles |-> Nothing]
    /\ next = [b \in Bundles |-> 1]
    /\ saver = [b \in Bundles |-> "between"]
    /\ export = [n \in Names |-> NoDirectory]
    /\ pc = [e \in Exporters |-> "ready"]
    /\ of \in [Exporters -> Bundles]
    /\ todo = [e \in Exporters |-> <<>>]
    /\ taken = [e \in Exporters |-> Nothing]
    /\ answer = [e \in Exporters |-> "none"]
    /\ lost = {}
    /\ prune = [p \in Pruners |-> "ready"]
    /\ name \in [Pruners -> Names]
    /\ keep \in [Pruners -> BOOLEAN]
    /\ listing = [p \in Pruners |-> {}]
    /\ archive = [p \in Pruners |-> Nothing]
    /\ disturbed = {} /\ undercut = {} /\ raced = {} /\ unkept = {} /\ kills = 0

-----------------------------------------------------------------------------
(* Saving and validating.                                                  *)
Writes(b) == Kinds[kind[b]].writes

\* write_text(): the file is truncated, then written.
OpenFile(b) ==
    /\ saver[b] = "between"
    /\ saved' = [saved EXCEPT ![b][Writes(b)[next[b]]] = Torn]
    /\ saver' = [saver EXCEPT ![b] = "open"]
    /\ UNCHANGED <<kind, next>>

WriteFile(b) ==
    /\ saver[b] = "open"
    /\ saved' = [saved EXCEPT ![b][Writes(b)[next[b]]] = next[b]]
    /\ next' = [next EXCEPT ![b] = @ + 1]
    /\ saver' = [saver EXCEPT ![b] = IF next[b] = Len(Writes(b)) THEN "done" ELSE "between"]
    /\ UNCHANGED kind

Save(b) == OpenFile(b) \/ WriteFile(b)

\* What the manifest of write n says of a file: its last content before n.
Checksum(b, n, f) ==
    LET before == {i \in 1..(n - 1) : Writes(b)[i] = f}
    IN  IF before = {} \/ f = "manifest" THEN Missing ELSE Max(before)

\* What every validator of a saved bundle checks.
Sound(b) ==
    LET layout == Kinds[kind[b]]
        manifest == saved[b]["manifest"]
    IN  /\ \A f \in layout.required : saved[b][f] # Missing
        /\ \A f \in layout.parsed : saved[b][f] # Torn
        /\ manifest # Missing =>
               \A f \in Files : Checksum(b, manifest, f) \in {Missing, saved[b][f]}

-----------------------------------------------------------------------------
(* Exporting.                                                              *)
Plan(e)      == Kinds[kind[of[e]]].xport
FixedName(e) == Plan(e).fixed
Out(e)       == IF FixedName(e) THEN of[e] ELSE e

\* Validation of an export of a bundle of kind k.
ExportSound(n, k) ==
    /\ export[n] # NoDirectory
    /\ export[n].seal = "whole"
    /\ \A f \in Kinds[k].exportRequired : export[n].copies[f] # Missing
    /\ \A f \in Kinds[k].exportParsed : export[n].copies[f] # Torn
    /\ \A f \in Files : export[n].sums[f] \in {Missing, export[n].copies[f]}

Goto(e, phase) == pc' = [pc EXCEPT ![e] = phase]

\* Mutant: success is reported in the words of another command.
AnswerOk(e, a) ==
    Goto(e, "done") /\ answer' = [answer EXCEPT ![e] = IF a = "exported" THEN "ok" ELSE a]

Answer(e, a)   == Goto(e, "done") /\ answer' = [answer EXCEPT ![e] = a]
Writing(e)     == raced' = raced \cup {p \in Pruners : name[p] = Out(e) /\ prune[p] # "ready"}

\* The source is validated before anything else.
Validate(e) ==
    /\ pc[e] = "ready"
    /\ kind[of[e]] \in Exportable
    /\ \/ /\ Sound(of[e])
          /\ Goto(e, "check")
          /\ UNCHANGED answer
       \/ /\ ~Sound(of[e])
          /\ Answer(e, "failed")
    /\ UNCHANGED <<export, of, todo, taken, lost, raced>>

\* Mutant: an export that is there is taken for finished.
CheckTargetTrusting(e) ==
    /\ pc[e] = "check"
    /\ FixedName(e)
    /\ \/ /\ export[Out(e)] = NoDirectory \/ ~Plan(e).looks
          /\ Goto(e, "mkdir")
          /\ UNCHANGED answer
       \/ /\ export[Out(e)] # NoDirectory /\ Plan(e).looks
          /\ Answer(e, "existing")
    /\ UNCHANGED <<export, of, todo, taken, lost, raced>>

\* An export under the bundle's name that validates is the answer; one that does
\* not is left alone.
CheckTarget(e) ==
    /\ pc[e] = "check"
    /\ FixedName(e)
    /\ \/ /\ export[Out(e)] = NoDirectory \/ ~Plan(e).looks
          /\ Goto(e, "mkdir")
          /\ UNCHANGED answer
       \/ /\ export[Out(e)] # NoDirectory /\ Plan(e).looks
          /\ Answer(e, IF ExportSound(Out(e), kind[of[e]]) THEN "existing" ELSE "already_exists")
    /\ UNCHANGED <<export, of, todo, taken, lost, raced>>

\* A receipt export reads the receipt's manifest for the list of files.
ReadManifest(e) ==
    /\ pc[e] = "check"
    /\ ~FixedName(e)
    /\ \/ /\ saved[of[e]]["manifest"] # Torn
          /\ Goto(e, "mkdir")
          /\ UNCHANGED answer
       \/ /\ saved[of[e]]["manifest"] = Torn
          /\ Answer(e, "failed")
    /\ UNCHANGED <<export, of, todo, taken, lost, raced>>

\* The files always copied, then the extra one if it is there.
CopyOrder(e) ==
    Plan(e).order \o (IF \A f \in ToSet(Plan(e).extra) : saved[of[e]][f] # Missing
                      THEN Plan(e).extra ELSE <<>>)

\* mkdir(exist_ok=False): somebody else's directory raises.
MakeDirectory(e) ==
    /\ pc[e] = "mkdir"
    /\ \/ /\ export[Out(e)] = NoDirectory
          /\ export' = [export EXCEPT ![Out(e)] = NewDirectory]
          /\ todo' = [todo EXCEPT ![e] = CopyOrder(e)]
          /\ Goto(e, "copy")
          /\ Writing(e)
          /\ UNCHANGED answer
       \/ /\ export[Out(e)] # NoDirectory
          /\ Answer(e, "raised")
          /\ UNCHANGED <<export, todo, raced>>
    /\ UNCHANGED <<of, taken, lost>>

\* On to the next file.  A receipt export has hashed its copies one by one.
Onward(e) ==
    /\ todo' = [todo EXCEPT ![e] = Tail(@)]
    /\ Goto(e, IF Len(todo[e]) # 1 THEN "copy" ELSE IF FixedName(e) THEN "hash" ELSE "seal")

Made(d) == IF d = NoDirectory THEN NewDirectory ELSE d

\* The copy of a file is opened, which truncates it: write_bytes(), copyfile().
\* A receipt export skips a file that is missing and makes its directory anew; the
\* others raise.
Copy(e) ==
    /\ pc[e] = "copy"
    /\ LET f == Head(todo[e])
           content == saved[of[e]][f]
       IN  \/ /\ FixedName(e)
              /\ content = Missing \/ export[Out(e)] = NoDirectory
              /\ Answer(e, "raised")
              /\ UNCHANGED <<export, todo, taken, lost, raced>>
           \/ /\ ~FixedName(e) /\ content = Missing
              /\ Onward(e)
              /\ UNCHANGED <<export, taken, answer, lost, raced>>
           \/ /\ content # Missing
              /\ FixedName(e) => export[Out(e)] # NoDirectory
              /\ export' = [export EXCEPT ![Out(e)] = [Made(@) EXCEPT !.copies[f] = Torn]]
              /\ taken' = [taken EXCEPT ![e][f] = content]
              /\ lost' = lost \ {e}
              /\ Goto(e, "fill")
              /\ Writing(e)
              /\ UNCHANGED <<todo, answer>>
    /\ UNCHANGED of

\* Is the exporter's open file still the one of its name?  (A directory that is
\* gone was empty.)
Opened(e) == e \notin lost /\ export[Out(e)] # NoDirectory

\* It is written.  A receipt export reads its source only now, and hashes its copy
\* at once: one that is gone raises.
Fill(e) ==
    /\ pc[e] = "fill"
    /\ LET f == Head(todo[e])
           content == IF FixedName(e) THEN taken[e][f] ELSE saved[of[e]][f]
       IN  \/ /\ Opened(e)
              /\ export' = [export EXCEPT ![Out(e)].copies[f] = content]
              /\ taken' = [taken EXCEPT ![e][f] = content]
              /\ Onward(e)
              /\ Writing(e)
              /\ UNCHANGED answer
           \/ /\ ~Opened(e) /\ FixedName(e)
              /\ Onward(e)
              /\ UNCHANGED <<export, taken, answer, raced>>
           \/ /\ ~Opened(e) /\ ~FixedName(e)
              /\ Answer(e, "raised")
              /\ UNCHANGED <<export, todo, taken, raced>>
    /\ UNCHANGED <<of, lost>>

Copied(e) == {f \in Files : taken[e][f] # Missing}

\* The copies are hashed; one that was pruned meanwhile raises.
Hash(e) ==
    /\ pc[e] = "hash"
    /\ LET whole == /\ export[Out(e)] # NoDirectory
                    /\ \A f \in Copied(e) : export[Out(e)].copies[f] # Missing
       IN  \/ /\ ~whole
              /\ Answer(e, "raised")
              /\ UNCHANGED taken
           \/ /\ whole
              /\ taken' = [taken EXCEPT ![e] = [f \in Files |->
                           IF f \in Copied(e) THEN export[Out(e)].copies[f] ELSE Missing]]
              /\ Goto(e, "seal")
              /\ UNCHANGED answer
    /\ UNCHANGED <<export, of, todo, lost, raced>>

\* The export manifest is opened, which truncates it.  (A receipt export writes it
\* twice; the first is complete.)
Seal(e) ==
    /\ pc[e] = "seal"
    /\ \/ /\ export[Out(e)] # NoDirectory
          /\ export' = [export EXCEPT ![Out(e)].seal = "cut"]
          /\ lost' = lost \ {e}
          /\ Goto(e, "sealing")
          /\ Writing(e)
          /\ UNCHANGED answer
       \/ /\ export[Out(e)] = NoDirectory
          /\ Answer(e, "raised")
          /\ UNCHANGED <<export, lost, raced>>
    /\ UNCHANGED <<of, todo, taken>>

\* It is written, and most commands hash it: one that is gone raises.
SealFill(e) ==
    /\ pc[e] = "sealing"
    /\ \/ /\ Opened(e)
          /\ export' = [export EXCEPT ![Out(e)] = [@ EXCEPT !.seal = "whole", !.sums = taken[e]]]
          /\ Answer(e, "exported")
          /\ Writing(e)
       \/ /\ ~Opened(e)
          /\ \E a \in {"exported", "raised"} : Answer(e, a)
          /\ UNCHANGED <<export, raced>>
    /\ UNCHANGED <<of, todo, taken, lost>>

Export(e) ==
    \/ Validate(e) \/ CheckTarget(e) \/ ReadManifest(e)
    \/ MakeDirectory(e) \/ Copy(e) \/ Fill(e) \/ Hash(e) \/ Seal(e) \/ SealFill(e)

\* Exporters that have made a directory of that name and are not done with it.
AtWork(e)   == pc[e] \in {"copy", "fill", "hash", "seal", "sealing"}
WorkingOn(n) == {e \in Exporters : Out(e) = n /\ AtWork(e)}

-----------------------------------------------------------------------------
(* Pruning.                                                                *)
Present(n) == {f \in Files : export[n].copies[f] # Missing}
              \cup (IF export[n].seal # "none" THEN {"seal"} ELSE {})

\* Files are archived in the order of their names and deleted in the reverse one.
NameOrder == [seal |-> 1, manifest |-> 2, listing |-> 3, history |-> 4, details |-> 5,
              body |-> 6, text |-> 7, body2 |-> 8, text2 |-> 9]
FirstListed(p) == CHOOSE f \in listing[p] : \A g \in listing[p] : NameOrder[f] <= NameOrder[g]
LastListed(p)  == CHOOSE f \in listing[p] : \A g \in listing[p] : NameOrder[g] <= NameOrder[f]

PruneTo(p, phase) == prune' = [prune EXCEPT ![p] = phase]

\* Mutant: pruning with --archive deletes before it archives.
SelectDeleting(p) ==
    /\ prune[p] = "ready"
    /\ export[name[p]] # NoDirectory
    /\ PruneTo(p, "list")
    /\ UNCHANGED <<export, lost, name, keep, listing, archive, unkept, spoiled>>

Select(p) ==
    /\ prune[p] = "ready"
    /\ export[name[p]] # NoDirectory
    /\ PruneTo(p, IF keep[p] THEN "gather" ELSE "list")
    /\ UNCHANGED <<export, lost, name, keep, listing, archive, unkept, spoiled>>

\* create_archive() lists the directory, if it is still there.
Gather(p) ==
    /\ prune[p] = "gather"
    /\ listing' = [listing EXCEPT ![p] = IF export[name[p]] = NoDirectory THEN {}
                                         ELSE Present(name[p])]
    /\ PruneTo(p, "archive")
    /\ UNCHANGED <<export, lost, name, keep, archive, unkept, spoiled>>

\* It reads the files it listed.  One that is gone is skipped; one that goes
\* between the test and the read raises.
Archive(p) ==
    /\ prune[p] = "archive"
    /\ \/ /\ listing[p] = {}
          /\ PruneTo(p, "list")
          /\ UNCHANGED <<listing, archive>>
       \/ /\ listing[p] # {}
          /\ LET f == FirstListed(p)
                 there == export[name[p]] # NoDirectory /\ f \in Present(name[p])
             IN  \/ /\ there
                    /\ listing' = [listing EXCEPT ![p] = @ \ {f}]
                    /\ archive' = IF f = "seal" THEN archive
                                  ELSE [archive EXCEPT ![p][f] = export[name[p]].copies[f]]
                    /\ UNCHANGED prune
                 \/ /\ ~there
                    /\ listing' = [listing EXCEPT ![p] = @ \ {f}]
                    /\ UNCHANGED <<prune, archive>>
                 \/ /\ ~there
                    /\ PruneTo(p, "done")
                    /\ UNCHANGED <<listing, archive>>
    /\ UNCHANGED <<export, lost, name, keep, unkept, spoiled>>

\* delete_paths() lists the directory anew.
List(p) ==
    /\ prune[p] = "list"
    /\ \/ /\ export[name[p]] # NoDirectory
          /\ listing' = [listing EXCEPT ![p] = Present(name[p])]
          /\ PruneTo(p, "delete")
       \/ /\ export[name[p]] = NoDirectory
          /\ PruneTo(p, "done")
          /\ UNCHANGED listing
    /\ UNCHANGED <<export, lost, name, keep, archive, unkept, spoiled>>

\* What taking something out of directory n does to the exporters.
Spoils(n) ==
    /\ disturbed' = disturbed \cup {e \in Exporters : Out(e) = n /\ pc[e] # "ready"}
    /\ undercut' = undercut \cup (IF WorkingOn(n) # {} THEN {n} ELSE {})

\* The exporters that have file f open.
Writers(f) == {e \in Exporters : \/ pc[e] = "fill" /\ f = Head(todo[e])
                                 \/ pc[e] = "sealing" /\ f = "seal"}

\* unlink(missing_ok=True), file by file.
Delete(p) ==
    /\ prune[p] = "delete"
    /\ listing[p] # {}
    /\ LET n == name[p]
           f == LastListed(p)
           there == export[n] # NoDirectory /\ f \in Present(n)
       IN  /\ listing' = [listing EXCEPT ![p] = @ \ {f}]
           /\ \/ /\ there
                 /\ export' = IF f = "seal" THEN [export EXCEPT ![n].seal = "none"]
                              ELSE [export EXCEPT ![n].copies[f] = Missing]
                 /\ lost' = lost \cup (Writers(f) \cap WorkingOn(n))
                 /\ unkept' = unkept \cup
                        (IF keep[p] /\ f # "seal" /\ export[n].copies[f] # archive[p][f]
                         THEN {p} ELSE {})
                 /\ Spoils(n)
              \/ /\ ~there
                 /\ UNCHANGED <<export, lost, unkept, spoiled>>
    /\ UNCHANGED <<prune, name, keep, archive>>

\* rmdir() of a directory that is not empty, or gone, is reported as a failure.
RemoveDirectory(p) ==
    /\ prune[p] = "delete"
    /\ listing[p] = {}
    /\ LET n == name[p]
           empty == export[n] # NoDirectory /\ Present(n) = {}
       IN  \/ /\ empty
              /\ export' = [export EXCEPT ![n] = NoDirectory]
              /\ Spoils(n)
           \/ /\ ~empty
              /\ UNCHANGED <<export, spoiled>>
    /\ PruneTo(p, "done")
    /\ UNCHANGED <<lost, name, keep, listing, archive, unkept>>

Prune(p) ==
    Select(p) \/ Gather(p) \/ Archive(p) \/ List(p) \/ Delete(p) \/ RemoveDirectory(p)

-----------------------------------------------------------------------------
\* An exporter is killed.  (A saver or a pruner that is killed takes no further
\* step, as any may in a specification without fairness.)
Kill ==
    /\ kills < MaxKills
    /\ kills' = kills + 1
    /\ \E e \in Exporters :
           /\ pc[e] \notin {"ready", "done"}
           /\ Goto(e, "done")
    /\ UNCHANGED <<source, export, of, todo, taken, answer, lost, pruner, spoiled, raced>>

Next ==
    \/ \E b \in Bundles :
           Save(b) /\ UNCHANGED <<export, invoker, lost, pruner, spoiled, raced, kills>>
    \/ \E e \in Exporters : Export(e) /\ UNCHANGED <<source, pruner, spoiled, kills>>
    \/ \E p \in Pruners : Prune(p) /\ UNCHANGED <<source, invoker, raced, kills>>
    \/ Kill

Spec == Init /\ [][Next]_vars

-----------------------------------------------------------------------------
(* A bundle whose saver finished validates: the checksums the several      *)
(* writes of a receipt leave are those of its final files.                 *)
SavedBundleValidates == \A b \in Bundles : saver[b] = "done" => Sound(b)

(* An export command that answers "exported" leaves an export that         *)
(* validates, whatever was killed under that name before and whoever       *)
(* exports at the same time, until a pruner deletes from it.  A name a     *)
(* pruner deleted from while an exporter was at work on it is excepted:    *)
(* there a second exporter makes the directory anew, and either may hash   *)
(* or leave behind a file the other has just truncated.                    *)
AnsweredExportIsSound ==
    \A e \in Exporters :
        /\ answer[e] \in {"exported", "existing"}
        /\ e \notin disturbed /\ Out(e) \notin undercut
        => ExportSound(Out(e), kind[of[e]])

(* An export of a report, packet, handoff or summary that validates holds  *)
(* the finished files of its bundle, even when the saver was still writing *)
(* as the export began; excepted is a name a pruner deleted from while an  *)
(* exporter was at work on it, where an exporter killed in a write of its  *)
(* own can leave another's checksum of an empty file behind.  (Snapshots,  *)
(* which validate before their manifest exists, and receipts, which        *)
(* validate before they are rewritten, do not have this property.)         *)
SoundExportHoldsSource ==
    \A b \in Bundles :
        Kinds[kind[b]].xport.looks /\ b \notin undercut /\ ExportSound(b, kind[b]) =>
            /\ saver[b] = "done"
            /\ \A f \in Triple : export[b].copies[f] = saved[b][f]

(* Pruning with --archive deletes only what it has archived, however many  *)
(* prune one directory, unless an exporter wrote into it meanwhile.        *)
UnracedPruneArchives == unkept \subseteq raced
=============================================================================
