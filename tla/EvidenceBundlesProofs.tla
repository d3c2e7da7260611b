------------------------- MODULE EvidenceBundlesProofs -------------------------
(***************************************************************************)
(* Proofs about EvidenceBundles, for any number of savers, exporters,      *)
(* pruners and kills, and bundles of any kinds of the table.               *)
(*                                                                         *)
(* Nobody holds a lock: what an exporter may rely on is that a finished    *)
(* bundle does not change (SourceInv), that mkdir() has one winner, so     *)
(* that it is alone at work until a pruner deletes under it (WorkInv), and *)
(* that nobody but a pruner touches an export that is done (AnsweredInv).  *)
(***************************************************************************)
EXTENDS EvidenceBundles, TLAPS

-----------------------------------------------------------------------------
(* Sequences, maxima, listings and directories.                            *)
LEMMA Elements ==
    ASSUME NEW S, NEW s \in Seq(S), s # <<>>
    PROVE  /\ Head(s) \in S /\ Tail(s) \in Seq(S)
           /\ ToSet(s) = {Head(s)} \cup ToSet(Tail(s))
           /\ Len(s) = 1 <=> Tail(s) = <<>>
<1>1. /\ Head(s) \in S /\ Tail(s) \in Seq(S) /\ Len(s) \in Nat \ {0} /\ Head(s) = s[1]
      /\ Len(Tail(s)) = Len(s) - 1 /\ \A i \in 1..(Len(s) - 1) : Tail(s)[i] = s[i + 1]
  OBVIOUS
<1>2. \A t \in Seq(S) : ToSet(t) = {t[i] : i \in 1..Len(t)}
  BY DEF ToSet
<1>3. /\ ToSet(s) = {s[i] : i \in 1..Len(s)}
      /\ ToSet(Tail(s)) = {Tail(s)[i] : i \in 1..Len(Tail(s))}
  BY <1>1, <1>2
<1>4. \A i \in 1..Len(s) : i # 1 => i - 1 \in 1..Len(Tail(s)) /\ Tail(s)[i - 1] = s[i]
  BY <1>1
<1>5. \A i \in 1..Len(Tail(s)) : i + 1 \in 1..Len(s) /\ Tail(s)[i] = s[i + 1]
  BY <1>1
<1>6. ToSet(s) \subseteq {Head(s)} \cup ToSet(Tail(s))
  BY <1>1, <1>3, <1>4
<1>7. {Head(s)} \cup ToSet(Tail(s)) \subseteq ToSet(s)
  BY <1>1, <1>3, <1>5
<1>8. Len(s) = 1 <=> Tail(s) = <<>>
  BY <1>1
<1> QED BY <1>1, <1>6, <1>7, <1>8


\* The largest member of a set that has one.
LEMMA MaxIs ==
    ASSUME NEW S \in SUBSET Nat, NEW m \in S, \A x \in S : x <= m
    PROVE  Max(S) = m
<1>1. m \in S /\ \A y \in S : m >= y
  OBVIOUS
<1>2. Max(S) \in S /\ \A y \in S : Max(S) >= y
  BY <1>1, Zenon DEF Max
<1>3. Max(S) >= m /\ m >= Max(S) /\ Max(S) \in Nat
  BY <1>1, <1>2
<1> QED BY <1>3


\* A listing that is not empty has a first and a last file.
Listed == Files \cup {"seal"}
LEMMA OrderPicks ==
    ASSUME NEW S \in SUBSET Listed, S # {}
    PROVE  /\ (CHOOSE f \in S : \A g \in S : NameOrder[f] <= NameOrder[g]) \in S
           /\ (CHOOSE f \in S : \A g \in S : NameOrder[g] <= NameOrder[f]) \in S
<1>0. /\ NameOrder["seal"] = 1 /\ NameOrder["manifest"] = 2 /\ NameOrder["listing"] = 3
      /\ NameOrder["history"] = 4 /\ NameOrder["details"] = 5 /\ NameOrder["body"] = 6
      /\ NameOrder["text"] = 7 /\ NameOrder["body2"] = 8 /\ NameOrder["text2"] = 9
  BY DEF NameOrder
<1>1. \E f \in S : \A g \in S : NameOrder[f] <= NameOrder[g]
  <2>1. CASE "seal" \in S
    <3>1. \A g \in S : NameOrder["seal"] <= NameOrder[g]
      BY <1>0, <2>1 DEF Listed, Files
    <3> QED BY <2>1, <3>1
  <2>2. CASE "manifest" \in S /\ S \cap {"seal"} = {}
    <3>1. \A g \in S : NameOrder["manifest"] <= NameOrder[g]
      BY <1>0, <2>2 DEF Listed, Files
    <3> QED BY <2>2, <3>1
  <2>3. CASE "listing" \in S /\ S \cap {"seal", "manifest"} = {}
    <3>1. \A g \in S : NameOrder["listing"] <= NameOrder[g]
      BY <1>0, <2>3 DEF Listed, Files
    <3> QED BY <2>3, <3>1
  <2>4. CASE "history" \in S /\ S \cap {"seal", "manifest", "listing"} = {}
    <3>1. \A g \in S : NameOrder["history"] <= NameOrder[g]
      BY <1>0, <2>4 DEF Listed, Files
    <3> QED BY <2>4, <3>1
  <2>5. CASE "details" \in S /\ S \cap {"seal", "manifest", "listing", "history"} = {}
    <3>1. \A g \in S : NameOrder["details"] <= NameOrder[g]
      BY <1>0, <2>5 DEF Listed, Files
    <3> QED BY <2>5, <3>1
  <2>6. CASE "body" \in S /\ S \cap {"seal", "manifest", "listing", "history", "details"} = {}
    <3>1. \A g \in S : NameOrder["body"] <= NameOrder[g]
      BY <1>0, <2>6 DEF Listed, Files
    <3> QED BY <2>6, <3>1
  <2>7. CASE "text" \in S /\ S \cap {"seal", "manifest", "listing", "history", "details", "body"} = {}
    <3>1. \A g \in S : NameOrder["text"] <= NameOrder[g]
      BY <1>0, <2>7 DEF Listed, Files
    <3> QED BY <2>7, <3>1
  <2>8. CASE "body2" \in S /\ S \cap {"seal", "manifest", "listing", "history", "details", "body", "text"} = {}
    <3>1. \A g \in S : NameOrder["body2"] <= NameOrder[g]
      BY <1>0, <2>8 DEF Listed, Files
    <3> QED BY <2>8, <3>1
  <2>9. CASE "text2" \in S /\ S \cap {"seal", "manifest", "listing", "history", "details", "body", "text", "body2"} = {}
    <3>1. \A g \in S : NameOrder["text2"] <= NameOrder[g]
      BY <1>0, <2>9 DEF Listed, Files
    <3> QED BY <2>9, <3>1
  <2> QED BY <2>1, <2>2, <2>3, <2>4, <2>5, <2>6, <2>7, <2>8, <2>9 DEF Listed, Files
<1>2. \E f \in S : \A g \in S : NameOrder[g] <= NameOrder[f]
  <2>1. CASE "text2" \in S
    <3>1. \A g \in S : NameOrder[g] <= NameOrder["text2"]
      BY <1>0, <2>1 DEF Listed, Files
    <3> QED BY <2>1, <3>1
  <2>2. CASE "body2" \in S /\ S \cap {"text2"} = {}
    <3>1. \A g \in S : NameOrder[g] <= NameOrder["body2"]
      BY <1>0, <2>2 DEF Listed, Files
    <3> QED BY <2>2, <3>1
  <2>3. CASE "text" \in S /\ S \cap {"text2", "body2"} = {}
    <3>1. \A g \in S : NameOrder[g] <= NameOrder["text"]
      BY <1>0, <2>3 DEF Listed, Files
    <3> QED BY <2>3, <3>1
  <2>4. CASE "body" \in S /\ S \cap {"text2", "body2", "text"} = {}
    <3>1. \A g \in S : NameOrder[g] <= NameOrder["body"]
      BY <1>0, <2>4 DEF Listed, Files
    <3> QED BY <2>4, <3>1
  <2>5. CASE "details" \in S /\ S \cap {"text2", "body2", "text", "body"} = {}
    <3>1. \A g \in S : NameOrder[g] <= NameOrder["details"]
      BY <1>0, <2>5 DEF Listed, Files
    <3> QED BY <2>5, <3>1
  <2>6. CASE "history" \in S /\ S \cap {"text2", "body2", "text", "body", "details"} = {}
    <3>1. \A g \in S : NameOrder[g] <= NameOrder["history"]
      BY <1>0, <2>6 DEF Listed, Files
    <3> QED BY <2>6, <3>1
  <2>7. CASE "listing" \in S /\ S \cap {"text2", "body2", "text", "body", "details", "history"} = {}
    <3>1. \A g \in S : NameOrder[g] <= NameOrder["listing"]
      BY <1>0, <2>7 DEF Listed, Files
    <3> QED BY <2>7, <3>1
  <2>8. CASE "manifest" \in S /\ S \cap {"text2", "body2", "text", "body", "details", "history", "listing"} = {}
    <3>1. \A g \in S : NameOrder[g] <= NameOrder["manifest"]
      BY <1>0, <2>8 DEF Listed, Files
    <3> QED BY <2>8, <3>1
  <2>9. CASE "seal" \in S /\ S \cap {"text2", "body2", "text", "body", "details", "history", "listing", "manifest"} = {}
    <3>1. \A g \in S : NameOrder[g] <= NameOrder["seal"]
      BY <1>0, <2>9 DEF Listed, Files
    <3> QED BY <2>9, <3>1
  <2> QED BY <2>1, <2>2, <2>3, <2>4, <2>5, <2>6, <2>7, <2>8, <2>9 DEF Listed, Files
<1> QED BY <1>1, <1>2, Zenon

-----------------------------------------------------------------------------
(* What is written into an export directory.                               *)
Stores == [Names -> Directory \cup {NoDirectory}]

\* Directory n becomes d, and no other changes.
Becomes(n, d) ==
    /\ export' \in Stores
    /\ d \in Directory /\ export'[n] = d /\ d # NoDirectory
    /\ \A m \in Names : m # n => export'[m] = export[m]

LEMMA PutIn ==
    ASSUME export \in Stores, NEW n \in Names, NEW d \in Directory,
           export' = [export EXCEPT ![n] = d]
    PROVE  Becomes(n, d)
BY DirectoryAssumption DEF Stores, Becomes

LEMMA FieldsOf ==
    ASSUME NEW d \in Directory
    PROVE  /\ d.copies \in [Files -> Contents] /\ d.sums \in [Files -> Contents]
           /\ d.seal \in {"none", "cut", "whole"}
BY DEF Directory

LEMMA NewIn == NewDirectory \in Directory /\ Nothing \in [Files -> Contents]
<1>1. Nothing \in [Files -> Contents]
  BY DEF Nothing, Missing, Contents
<1> QED BY <1>1 DEF NewDirectory, Directory

LEMMA CopyIn ==
    ASSUME export \in Stores, NEW n \in Names, export[n] # NoDirectory,
           NEW f \in Files, NEW c \in Contents, export' = [export EXCEPT ![n].copies[f] = c]
    PROVE  Becomes(n, [export[n] EXCEPT !.copies[f] = c])
<1>1. export[n] \in Directory
  BY DEF Stores
<1>2. [export[n] EXCEPT !.copies[f] = c] \in Directory
  BY <1>1 DEF Directory
<1> QED BY <1>1, <1>2, PutIn

LEMMA OpenIn ==
    ASSUME export \in Stores, NEW n \in Names, NEW f \in Files,
           export' = [export EXCEPT ![n] = [Made(@) EXCEPT !.copies[f] = Torn]]
    PROVE  Becomes(n, [Made(export[n]) EXCEPT !.copies[f] = Torn]) /\ Made(export[n]) \in Directory
<1>1. Made(export[n]) \in Directory
  BY NewIn DEF Stores, Made
<1>2. [Made(export[n]) EXCEPT !.copies[f] = Torn] \in Directory
  BY <1>1 DEF Directory, Contents
<1> QED BY <1>1, <1>2, PutIn

LEMMA SealIn ==
    ASSUME export \in Stores, NEW n \in Names, export[n] # NoDirectory,
           NEW s \in {"none", "cut", "whole"}, export' = [export EXCEPT ![n].seal = s]
    PROVE  Becomes(n, [export[n] EXCEPT !.seal = s])
<1>1. export[n] \in Directory
  BY DEF Stores
<1>2. [export[n] EXCEPT !.seal = s] \in Directory
  BY <1>1 DEF Directory
<1> QED BY <1>1, <1>2, PutIn

LEMMA SumsIn ==
    ASSUME export \in Stores, NEW n \in Names, export[n] # NoDirectory,
           NEW s \in [Files -> Contents],
           export' = [export EXCEPT ![n] = [@ EXCEPT !.seal = "whole", !.sums = s]]
    PROVE  Becomes(n, [export[n] EXCEPT !.seal = "whole", !.sums = s])
<1>1. export[n] \in Directory
  BY DEF Stores
<1>2. [export[n] EXCEPT !.seal = "whole", !.sums = s] \in Directory
  BY <1>1 DEF Directory
<1> QED BY <1>1, <1>2, PutIn

-----------------------------------------------------------------------------
(* The table of kinds, read off row by row.                                *)
SavedWell(k) ==
    LET w == Kinds[k].writes IN
    /\ w \in Seq(Files) /\ Len(w) \in 1..9 /\ w[Len(w)] = "manifest"
    /\ \A f \in Kinds[k].required : f \in Files /\ \E i \in 1..Len(w) : w[i] = f
    /\ Kinds[k].parsed \subseteq Files

ExportedWell(k) ==
    LET w == Kinds[k].writes
        x == Kinds[k].xport
    IN
    /\ x.order \in Seq(Files) /\ x.order # <<>> /\ "body" \in ToSet(x.order)
    /\ x.extra \in Seq(Files)
    /\ "body" \in Kinds[k].required
    /\ x.fixed => /\ Triple \subseteq ToSet(x.order)
                  /\ "body" \in Kinds[k].parsed
                  /\ \A i \in 2..Len(w) : w[i] # "body"
                  /\ Kinds[k].exportRequired = Triple
                  /\ Kinds[k].exportParsed \subseteq IF x.looks THEN Files ELSE {"body"}
    /\ x.looks => /\ x.fixed
                  /\ Len(w) = 3 /\ w[1] = "body" /\ w[2] = "text" /\ w[3] = "manifest"
                  /\ Kinds[k].required = Triple
                  /\ Kinds[k].parsed = {"body", "manifest"}
    /\ ~x.fixed => Kinds[k].exportRequired = {} /\ Kinds[k].exportParsed = {}

LEMMA SequenceRows ==
    /\ <<>> \in Seq(Files) /\ Len(<<>>) = 0
    /\ <<"details">> \in Seq(Files)
    /\ TripleOrder \in Seq(Files) /\ TripleOrder # <<>> /\ Triple \subseteq ToSet(TripleOrder)
    /\ LET order == <<"body", "body2", "text", "text2", "manifest">>
       IN  order \in Seq(Files) /\ order # <<>> /\ Triple \subseteq ToSet(order)
BY DEF TripleOrder, Triple, ToSet, Files

LEMMA SavedRows == \A k \in DOMAIN Kinds : SavedWell(k)
<1>1. SavedWell("ops")
  <2>1. /\ Kinds["ops"].writes = OpsReportSave /\ Kinds["ops"].required = Triple
        /\ Kinds["ops"].parsed = {"body", "manifest"}
    BY DEF Kinds, Layout, OpsReportValidate, Checks
  <2> QED BY <2>1 DEF SavedWell, OpsReportSave, Triple, Files
<1>2. SavedWell("packet")
  <2>1. /\ Kinds["packet"].writes = V1PacketSave /\ Kinds["packet"].required = Triple
        /\ Kinds["packet"].parsed = {"body", "manifest"}
    BY DEF Kinds, Layout, V1PacketValidate, Checks
  <2> QED BY <2>1 DEF SavedWell, V1PacketSave, Triple, Files
<1>3. SavedWell("handoff")
  <2>1. /\ Kinds["handoff"].writes = V2HandoffSave /\ Kinds["handoff"].required = Triple
        /\ Kinds["handoff"].parsed = {"body", "manifest"}
    BY DEF Kinds, Layout, V2HandoffValidate, Checks
  <2> QED BY <2>1 DEF SavedWell, V2HandoffSave, Triple, Files
<1>4. SavedWell("summary")
  <2>1. /\ Kinds["summary"].writes = SummarySave /\ Kinds["summary"].required = Triple
        /\ Kinds["summary"].parsed = {"body", "manifest"}
    BY DEF Kinds, Layout, SummaryValidate, Checks
  <2> QED BY <2>1 DEF SavedWell, SummarySave, Triple, Files
<1>5. SavedWell("snapshot")
  <2>1. /\ Kinds["snapshot"].writes = SnapshotSave /\ Kinds["snapshot"].required = {"body", "text"}
        /\ Kinds["snapshot"].parsed = {"body", "manifest"}
    BY DEF Kinds, Layout, SnapshotValidate, Checks
  <2> QED BY <2>1 DEF SavedWell, SnapshotSave, Triple, Files
<1>6. SavedWell("detailed")
  <2>1. /\ Kinds["detailed"].writes = DetailedSnapshotSave /\ Kinds["detailed"].required = {"body", "text"}
        /\ Kinds["detailed"].parsed = {"body", "manifest"}
    BY DEF Kinds, Layout, SnapshotValidate, Checks
  <2> QED BY <2>1 DEF SavedWell, DetailedSnapshotSave, Triple, Files
<1>7. SavedWell("preflight")
  <2>1. /\ Kinds["preflight"].writes = PreflightSave /\ Kinds["preflight"].required = Triple
        /\ Kinds["preflight"].parsed = {"body", "manifest"}
    BY DEF Kinds, Layout, PreflightValidate, Checks
  <2> QED BY <2>1 DEF SavedWell, PreflightSave, Triple, Files
<1>8. SavedWell("receipt")
  <2>1. /\ Kinds["receipt"].writes = ReceiptSave /\ Kinds["receipt"].required = Triple
        /\ Kinds["receipt"].parsed = {"body", "manifest"}
    BY DEF Kinds, Layout, ReceiptValidate, Checks
  <2> QED BY <2>1 DEF SavedWell, ReceiptSave, Triple, Files
<1>9. SavedWell("recovery")
  <2>1. /\ Kinds["recovery"].writes = RecoveryReceiptSave /\ Kinds["recovery"].required = Triple
        /\ Kinds["recovery"].parsed = {"body", "manifest"}
    BY DEF Kinds, Layout, ReceiptValidate, Checks
  <2> QED BY <2>1 DEF SavedWell, RecoveryReceiptSave, Triple, Files
<1>10. SavedWell("audit")
  <2>1. /\ Kinds["audit"].writes = AuditBundleSave
        /\ Kinds["audit"].required = {"details", "history", "body", "text", "listing", "manifest"}
        /\ Kinds["audit"].parsed = Kinds["audit"].required \ {"text"}
    BY DEF Kinds, Layout, AuditBundleValidate, Checks
  <2> QED BY <2>1 DEF SavedWell, AuditBundleSave, Files
<1>11. DOMAIN Kinds = {"ops", "packet", "handoff", "summary", "snapshot", "detailed",
                       "preflight", "receipt", "recovery", "audit"}
  BY DEF Kinds
<1> QED BY <1>1, <1>2, <1>3, <1>4, <1>5, <1>6, <1>7, <1>8, <1>9, <1>10, <1>11

LEMMA ExportedRows == \A k \in DOMAIN Kinds \ {"preflight", "audit"} : ExportedWell(k)
<1>1. ExportedWell("ops")
  <2>1. /\ Kinds["ops"].writes = OpsReportSave /\ Kinds["ops"].required = Triple
        /\ Kinds["ops"].parsed = {"body", "manifest"}
    BY DEF Kinds, Layout, OpsReportValidate, Checks
  <2>2. /\ Kinds["ops"].xport.fixed /\ Kinds["ops"].xport.looks
        /\ Kinds["ops"].xport.order = TripleOrder /\ Kinds["ops"].xport.extra = <<>>
    BY DEF Kinds, Layout, OpsReportExport, Named
  <2>3. /\ Kinds["ops"].exportRequired = Triple
        /\ Kinds["ops"].exportParsed = {"body"}
    BY DEF Kinds, Layout, OpsReportExportValidate, Checks
  <2> QED BY <2>1, <2>2, <2>3, SequenceRows DEF ExportedWell, OpsReportSave, Triple, Files
<1>2. ExportedWell("packet")
  <2>1. /\ Kinds["packet"].writes = V1PacketSave /\ Kinds["packet"].required = Triple
        /\ Kinds["packet"].parsed = {"body", "manifest"}
    BY DEF Kinds, Layout, V1PacketValidate, Checks
  <2>2. /\ Kinds["packet"].xport.fixed /\ Kinds["packet"].xport.looks
        /\ Kinds["packet"].xport.order = TripleOrder /\ Kinds["packet"].xport.extra = <<>>
    BY DEF Kinds, Layout, V1PacketExport, Named
  <2>3. /\ Kinds["packet"].exportRequired = Triple
        /\ Kinds["packet"].exportParsed = {"body"}
    BY DEF Kinds, Layout, V1PacketExportValidate, Checks
  <2> QED BY <2>1, <2>2, <2>3, SequenceRows DEF ExportedWell, V1PacketSave, Triple, Files
<1>3. ExportedWell("handoff")
  <2>1. /\ Kinds["handoff"].writes = V2HandoffSave /\ Kinds["handoff"].required = Triple
        /\ Kinds["handoff"].parsed = {"body", "manifest"}
    BY DEF Kinds, Layout, V2HandoffValidate, Checks
  <2>2. /\ Kinds["handoff"].xport.fixed /\ Kinds["handoff"].xport.looks
        /\ Kinds["handoff"].xport.order = TripleOrder /\ Kinds["handoff"].xport.extra = <<>>
    BY DEF Kinds, Layout, V2HandoffExport, Named
  <2>3. /\ Kinds["handoff"].exportRequired = Triple
        /\ Kinds["handoff"].exportParsed = {"body", "manifest"}
    BY DEF Kinds, Layout, V2HandoffExportValidate, Checks
  <2> QED BY <2>1, <2>2, <2>3, SequenceRows DEF ExportedWell, V2HandoffSave, Triple, Files
<1>4. ExportedWell("summary")
  <2>1. /\ Kinds["summary"].writes = SummarySave /\ Kinds["summary"].required = Triple
        /\ Kinds["summary"].parsed = {"body", "manifest"}
    BY DEF Kinds, Layout, SummaryValidate, Checks
  <2>2. /\ Kinds["summary"].xport.fixed /\ Kinds["summary"].xport.looks
        /\ Kinds["summary"].xport.order = TripleOrder /\ Kinds["summary"].xport.extra = <<>>
    BY DEF Kinds, Layout, SummaryExport, Named
  <2>3. /\ Kinds["summary"].exportRequired = Triple
        /\ Kinds["summary"].exportParsed = {"body", "manifest"}
    BY DEF Kinds, Layout, SummaryExportValidate, Checks
  <2> QED BY <2>1, <2>2, <2>3, SequenceRows DEF ExportedWell, SummarySave, Triple, Files
<1>5. ExportedWell("snapshot")
  <2>1. /\ Kinds["snapshot"].writes = SnapshotSave /\ Kinds["snapshot"].required = {"body", "text"}
        /\ Kinds["snapshot"].parsed = {"body", "manifest"}
    BY DEF Kinds, Layout, SnapshotValidate, Checks
  <2>2. /\ Kinds["snapshot"].xport.fixed /\ ~Kinds["snapshot"].xport.looks
        /\ Kinds["snapshot"].xport.order = TripleOrder /\ Kinds["snapshot"].xport.extra = <<"details">>
    BY DEF Kinds, Layout, SnapshotExport, Named
  <2>3. /\ Kinds["snapshot"].exportRequired = Triple
        /\ Kinds["snapshot"].exportParsed = {"body"}
    BY DEF Kinds, Layout, SnapshotExportValidate, Checks
  <2> QED BY <2>1, <2>2, <2>3, SequenceRows DEF ExportedWell, SnapshotSave, Triple
<1>6. ExportedWell("detailed")
  <2>1. /\ Kinds["detailed"].writes = DetailedSnapshotSave /\ Kinds["detailed"].required = {"body", "text"}
        /\ Kinds["detailed"].parsed = {"body", "manifest"}
    BY DEF Kinds, Layout, SnapshotValidate, Checks
  <2>2. /\ Kinds["detailed"].xport.fixed /\ ~Kinds["detailed"].xport.looks
        /\ Kinds["detailed"].xport.order = TripleOrder /\ Kinds["detailed"].xport.extra = <<"details">>
    BY DEF Kinds, Layout, SnapshotExport, Named
  <2>3. /\ Kinds["detailed"].exportRequired = Triple
        /\ Kinds["detailed"].exportParsed = {"body"}
    BY DEF Kinds, Layout, SnapshotExportValidate, Checks
  <2> QED BY <2>1, <2>2, <2>3, SequenceRows DEF ExportedWell, DetailedSnapshotSave, Triple
<1>7. ExportedWell("receipt")
  <2>1. Kinds["receipt"].required = Triple
    BY DEF Kinds, Layout, ReceiptValidate, Checks
  <2>2. /\ ~Kinds["receipt"].xport.fixed /\ ~Kinds["receipt"].xport.looks
        /\ Kinds["receipt"].xport.extra = <<>>
        /\ Kinds["receipt"].xport.order = TripleOrder
    BY DEF Kinds, Layout, ReceiptExport, Fresh
  <2>3. Kinds["receipt"].exportRequired = {} /\ Kinds["receipt"].exportParsed = {}
    BY DEF Kinds, Layout, ReceiptExportValidate, Checks
  <2> QED BY <2>1, <2>2, <2>3, SequenceRows DEF ExportedWell, Triple
<1>8. ExportedWell("recovery")
  <2>1. Kinds["recovery"].required = Triple
    BY DEF Kinds, Layout, ReceiptValidate, Checks
  <2>2. /\ ~Kinds["recovery"].xport.fixed /\ ~Kinds["recovery"].xport.looks
        /\ Kinds["recovery"].xport.extra = <<>>
        /\ Kinds["recovery"].xport.order = <<"body", "body2", "text", "text2", "manifest">>
    BY DEF Kinds, Layout, RecoveryReceiptExport, Fresh
  <2>3. Kinds["recovery"].exportRequired = {} /\ Kinds["recovery"].exportParsed = {}
    BY DEF Kinds, Layout, ReceiptExportValidate, Checks
  <2> QED BY <2>1, <2>2, <2>3, SequenceRows DEF ExportedWell, Triple
<1>9. DOMAIN Kinds = {"ops", "packet", "handoff", "summary", "snapshot", "detailed",
                      "preflight", "receipt", "recovery", "audit"}
  BY DEF Kinds
<1> QED BY <1>1, <1>2, <1>3, <1>4, <1>5, <1>6, <1>7, <1>8, <1>9
-----------------------------------------------------------------------------
(* The inductive invariant, one part for each idea of why it all works.    *)

\* A file holds what the saver last wrote to it, or is the one being written.
WroteLast(b, f) ==
    /\ saved[b][f] \in 0..(next[b] - 1)
    /\ saved[b][f] # 0 => Writes(b)[saved[b][f]] = f
    /\ \A i \in 1..(next[b] - 1) : Writes(b)[i] = f => i <= saved[b][f]

WriteInv(b) ==
    /\ next[b] \in 1..(Len(Writes(b)) + 1)
    /\ saver[b] = "done" <=> next[b] = Len(Writes(b)) + 1
    /\ \A f \in Files :
           \/ WroteLast(b, f)
           \/ saver[b] = "open" /\ f = Writes(b)[next[b]] /\ saved[b][f] = Torn

\* An exporter that has answered with an export; one whose bundle was sound.
Answered(e) == answer[e] \in {"exported", "existing"}
Past(e)     == AtWork(e) \/ Answered(e) \/ pc[e] \in {"check", "mkdir"}

PhaseInv(e) ==
    /\ pc[e] # "done" => answer[e] = "none"
    /\ pc[e] \in {"ready", "check", "mkdir"} => taken[e] = Nothing
    /\ Past(e) => kind[of[e]] \in Exportable
    /\ pc[e] \in {"copy", "fill"} => todo[e] # <<>>
    /\ pc[e] = "hash" => FixedName(e)
    /\ answer[e] = "existing" => FixedName(e) /\ Plan(e).looks

BaseInv == TypeOK /\ (\A b \in Bundles : WriteInv(b)) /\ (\A e \in Exporters : PhaseInv(e))

LEMMA BundleRow ==
    ASSUME TypeOK, NEW b \in Bundles PROVE SavedWell(kind[b])
BY SavedRows, KindsAssumption DEF TypeOK

LEMMA ExporterRow ==
    ASSUME TypeOK, NEW e \in Exporters, kind[of[e]] \in Exportable
    PROVE  of[e] \in Bundles /\ Out(e) \in Names /\ ExportedWell(kind[of[e]])
<1>1. of[e] \in Bundles /\ Out(e) \in Names
  BY DEF TypeOK, Out, Names
<1>2. kind[of[e]] \in DOMAIN Kinds \ {"preflight", "audit"}
  BY KindsAssumption DEF Exportable
<1> QED BY <1>1, <1>2, ExportedRows

LEMMA OutName == ASSUME TypeOK, NEW e \in Exporters PROVE of[e] \in Bundles /\ Out(e) \in Names
BY DEF TypeOK, Out, Names

LEMMA JoinWell ==
    ASSUME NEW s \in Seq(Files), NEW t \in Seq(Files), s # <<>>
    PROVE  s \o t \in Seq(Files) /\ s \o t # <<>> /\ ToSet(s) \subseteq ToSet(s \o t)
<1> DEFINE u == s \o t
<1>1. /\ u \in Seq(Files) /\ Len(u) = Len(s) + Len(t) /\ Len(s) \in Nat \ {0} /\ Len(t) \in Nat
      /\ \A i \in 1..Len(s) : u[i] = s[i] /\ i \in 1..Len(u)
  OBVIOUS
<1>2. \A v \in Seq(Files) : ToSet(v) = {v[i] : i \in 1..Len(v)}
  BY DEF ToSet
<1> HIDE DEF u
<1>3. u # <<>>
  BY <1>1
<1>4. ToSet(s) = {s[i] : i \in 1..Len(s)} /\ ToSet(u) = {u[i] : i \in 1..Len(u)}
  BY <1>1, <1>2
<1>5. ToSet(s) \subseteq ToSet(u)
  BY <1>1, <1>4
<1> QED BY <1>1, <1>3, <1>5 DEF u

LEMMA CopyOrderWell ==
    ASSUME TypeOK, NEW e \in Exporters, kind[of[e]] \in Exportable
    PROVE  /\ CopyOrder(e) \in Seq(Files) /\ CopyOrder(e) # <<>>
           /\ ToSet(Plan(e).order) \subseteq ToSet(CopyOrder(e))
<1>1. ExportedWell(kind[of[e]])
  BY ExporterRow
<1>2. /\ Plan(e).order \in Seq(Files) /\ Plan(e).order # <<>> /\ Plan(e).extra \in Seq(Files)
  BY <1>1 DEF ExportedWell, Plan
<1> DEFINE first == Plan(e).order
           more  == IF \A f \in ToSet(Plan(e).extra) : saved[of[e]][f] # Missing
                    THEN Plan(e).extra ELSE <<>>
<1>3. more \in Seq(Files)
  BY <1>2
<1>4. CopyOrder(e) = first \o more
  BY DEF CopyOrder
<1>5. first \in Seq(Files) /\ first # <<>>
  BY <1>2
<1> HIDE DEF more
<1> QED BY <1>3, <1>4, <1>5, JoinWell

\* What never changes.
LEMMA Fixed ==
    ASSUME [Next]_vars
    PROVE  /\ kind' = kind /\ of' = of /\ name' = name /\ keep' = keep
           /\ disturbed \subseteq disturbed' /\ undercut \subseteq undercut'
           /\ raced \subseteq raced'
<1> DEFINE Keeps == /\ kind' = kind /\ of' = of /\ name' = name /\ keep' = keep
                    /\ disturbed \subseteq disturbed' /\ undercut \subseteq undercut'
                    /\ raced \subseteq raced'
<1>1. CASE UNCHANGED vars
  BY <1>1 DEF vars, source, invoker, pruner, spoiled
<1>2. ASSUME NEW b \in Bundles, Save(b),
             UNCHANGED <<export, invoker, lost, pruner, spoiled, raced, kills>>
      PROVE  Keeps
  BY <1>2 DEF Save, OpenFile, WriteFile, invoker, pruner, spoiled
<1>3. ASSUME NEW e \in Exporters, Export(e), UNCHANGED <<source, pruner, spoiled, kills>>
      PROVE  Keeps
  BY <1>3 DEF Export, Validate, CheckTarget, ReadManifest, MakeDirectory, Copy, Fill, Hash,
      Seal, SealFill, Writing, source, pruner, spoiled
<1>4. ASSUME NEW p \in Pruners, Prune(p), UNCHANGED <<source, invoker, raced, kills>>
      PROVE  Keeps
  BY <1>4 DEF Prune, Select, Gather, Archive, List, Delete, RemoveDirectory, Spoils, source,
      invoker, spoiled
<1>5. CASE Kill
  BY <1>5 DEF Kill, source, pruner, spoiled
<1> QED BY <1>1, <1>2, <1>3, <1>4, <1>5 DEF Next

LEMMA SameNames ==
    ASSUME kind' = kind, of' = of
    PROVE  /\ \A b \in Bundles : Writes(b)' = Writes(b)
           /\ \A e \in Exporters : /\ Plan(e)' = Plan(e) /\ FixedName(e)' = FixedName(e)
                                   /\ Out(e)' = Out(e)
BY DEF Writes, Plan, FixedName, Out

\* What a step does to a bundle.
LEMMA OtherSavers ==
    ASSUME TypeOK, [Next]_vars, NEW b \in Bundles
    PROVE  \/ saved'[b] = saved[b] /\ next'[b] = next[b] /\ saver'[b] = saver[b]
           \/ OpenFile(b) \/ WriteFile(b)
<1>1. CASE UNCHANGED source
  BY <1>1 DEF source
<1>2. ASSUME NEW c \in Bundles, Save(c), c # b
      PROVE  saved'[b] = saved[b] /\ next'[b] = next[b] /\ saver'[b] = saver[b]
  BY <1>2 DEF Save, OpenFile, WriteFile, TypeOK
<1> QED BY <1>1, <1>2 DEF Next, vars, Save, Kill, source

\* What a step does to an exporter.
Same(d) == pc'[d] = pc[d] /\ todo'[d] = todo[d] /\ taken'[d] = taken[d] /\ answer'[d] = answer[d]
Own(d)  == Export(d) /\ UNCHANGED <<source, pruner, spoiled, kills>>

LEMMA OthersSame ==
    ASSUME TypeOK, NEW e \in Exporters, Export(e), NEW d \in Exporters, d # e
    PROVE  Same(d)
BY DEF Export, Validate, CheckTarget, ReadManifest, MakeDirectory, Copy, Fill, Hash, Seal,
    SealFill, Onward, Answer, Goto, TypeOK, Same

LEMMA OtherExporters ==
    ASSUME TypeOK, [Next]_vars, NEW d \in Exporters
    PROVE  \/ Same(d) /\ ~Own(d)
           \/ /\ pc[d] \notin {"ready", "done"} /\ pc'[d] = "done"
              /\ todo'[d] = todo[d] /\ taken'[d] = taken[d] /\ answer'[d] = answer[d]
              /\ UNCHANGED <<source, export, spoiled>>
           \/ Own(d)
<1>1. CASE UNCHANGED invoker
  BY <1>1 DEF invoker, Same
<1>2. ASSUME NEW e \in Exporters, Export(e), UNCHANGED <<source, pruner, spoiled, kills>>, e # d
      PROVE  Same(d)
  BY <1>2, OthersSame
<1>3. CASE Kill
  BY <1>3 DEF Kill, Goto, TypeOK, Same
<1> QED BY <1>1, <1>2, <1>3 DEF Next, vars, Own

-----------------------------------------------------------------------------
(* Types, the saver's progress and the exporter's phases.                  *)
LEMMA WritesAt ==
    ASSUME TypeOK, NEW b \in Bundles, WriteInv(b), saver[b] # "done"
    PROVE  /\ Len(Writes(b)) \in 1..9 /\ Writes(b) \in Seq(Files)
           /\ next[b] \in 1..Len(Writes(b)) /\ Writes(b)[next[b]] \in Files
<1>1. Writes(b) \in Seq(Files) /\ Len(Writes(b)) \in 1..9
  BY BundleRow DEF SavedWell, Writes
<1>2. next[b] \in 1..Len(Writes(b))
  BY <1>1 DEF WriteInv
<1> QED BY <1>1, <1>2

LEMMA OnwardEffect ==
    ASSUME BaseInv, NEW e \in Exporters, pc[e] \in {"copy", "fill"}, Onward(e)
    PROVE  /\ todo[e] \in Seq(Files) /\ todo[e] # <<>> /\ Head(todo[e]) \in Files
           /\ todo' \in [Exporters -> Seq(Files)] /\ todo'[e] = Tail(todo[e])
           /\ ToSet(todo[e]) = {Head(todo[e])} \cup ToSet(todo'[e])
           /\ pc'[e] \in {"copy", "hash", "seal"}
           /\ pc'[e] = "hash" => FixedName(e)
           /\ pc'[e] = "copy" <=> todo'[e] # <<>>
           /\ pc' \in [Exporters -> {"ready", "check", "mkdir", "copy", "fill", "hash", "seal",
                                     "sealing", "done"}]
<1>1. todo[e] \in Seq(Files) /\ todo[e] # <<>> /\ TypeOK
  BY DEF BaseInv, PhaseInv, TypeOK
<1>2. /\ Head(todo[e]) \in Files /\ Tail(todo[e]) \in Seq(Files)
      /\ ToSet(todo[e]) = {Head(todo[e])} \cup ToSet(Tail(todo[e]))
      /\ Len(todo[e]) = 1 <=> Tail(todo[e]) = <<>>
  BY <1>1, Elements
<1>4. todo' \in [Exporters -> Seq(Files)] /\ todo'[e] = Tail(todo[e])
  BY <1>1, <1>2 DEF Onward, TypeOK
<1>5. pc'[e] = IF todo'[e] # <<>> THEN "copy" ELSE IF FixedName(e) THEN "hash" ELSE "seal"
  BY <1>1, <1>2, <1>4 DEF Onward, Goto, TypeOK
<1>6. pc' \in [Exporters -> {"ready", "check", "mkdir", "copy", "fill", "hash", "seal",
                            "sealing", "done"}]
  BY <1>1 DEF Onward, Goto, TypeOK
<1> QED BY <1>1, <1>2, <1>4, <1>5, <1>6

\* What an exporter has read of its bundle, or of its copies.
LEMMA ReadTypes ==
    ASSUME TypeOK, NEW e \in Exporters
    PROVE  /\ of[e] \in Bundles /\ Out(e) \in Names
           /\ \A f \in Files : saved[of[e]][f] \in Contents /\ taken[e][f] \in Contents
           /\ export[Out(e)] # NoDirectory =>
                  \A f \in Files : export[Out(e)].copies[f] \in Contents
<1>1. of[e] \in Bundles /\ Out(e) \in Names
  BY OutName
<1>2. export[Out(e)] # NoDirectory => export[Out(e)] \in Directory
  BY <1>1 DEF TypeOK
<1> QED BY <1>1, <1>2 DEF TypeOK, Directory

\* What an exporter's own steps do to its directory.
LEMMA ExportTypes ==
    ASSUME BaseInv, NEW e \in Exporters, Export(e)
    PROVE  export' \in Stores /\ \A n \in Names : n # Out(e) => export'[n] = export[n]
<1>1. /\ TypeOK /\ export \in Stores /\ of[e] \in Bundles /\ Out(e) \in Names
      /\ \A f \in Files : saved[of[e]][f] \in Contents /\ taken[e][f] \in Contents
      /\ taken[e] \in [Files -> Contents]
  BY ReadTypes DEF BaseInv, TypeOK, Stores
<1>2. PICK n \in Names, f \in Files : n = Out(e) /\ (pc[e] \in {"copy", "fill"} => f = Head(todo[e]))
  <2>1. pc[e] \in {"copy", "fill"} => Head(todo[e]) \in Files
    BY <1>1, Elements DEF BaseInv, PhaseInv, TypeOK
  <2>2. "body" \in Files
    BY DEF Files
  <2> QED BY <1>1, <2>1, <2>2
<1>3. CASE export' = export
  BY <1>1, <1>3
<1>4. CASE MakeDirectory(e)
  BY <1>1, <1>2, <1>3, <1>4, NewIn, PutIn DEF MakeDirectory, Becomes
<1>5. CASE Copy(e)
  <2>1. CASE export' = [export EXCEPT ![n] = [Made(@) EXCEPT !.copies[f] = Torn]]
    BY <1>1, <1>2, <2>1, OpenIn DEF Becomes
  <2> QED BY <1>2, <1>3, <1>5, <2>1 DEF Copy
<1>6. CASE Fill(e)
  <2>1. ASSUME NEW c \in Contents, export[n] # NoDirectory,
               export' = [export EXCEPT ![n].copies[f] = c]
        PROVE  export' \in Stores /\ \A m \in Names : m # Out(e) => export'[m] = export[m]
    BY <1>1, <1>2, <2>1, CopyIn DEF Becomes
  <2> QED BY <1>1, <1>2, <1>3, <1>6, <2>1 DEF Fill, Opened
<1>7. CASE Seal(e)
  BY <1>1, <1>2, <1>3, <1>7, SealIn DEF Seal, Becomes
<1>8. CASE SealFill(e)
  <2>1. PICK s \in [Files -> Contents] : s = taken[e]
    BY <1>1
  <2>2. CASE export[n] # NoDirectory /\ export' = [export EXCEPT ![n] = [@ EXCEPT !.seal = "whole", !.sums = s]]
    BY <1>1, <1>2, <2>2, SumsIn DEF Becomes
  <2> QED BY <1>2, <1>3, <1>8, <2>1, <2>2 DEF SealFill, Opened
<1> QED BY <1>3, <1>4, <1>5, <1>6, <1>7, <1>8 DEF Export, Validate, CheckTarget, ReadManifest,
    Hash

\* A pruner takes files, a manifest or the directory away, of what it prunes.
Takes(n) ==
    /\ export[n] # NoDirectory
    /\ export'[n] # NoDirectory =>
        /\ \A f \in Files : export'[n].copies[f] \in {Missing, export[n].copies[f]}
        /\ export'[n].seal \in {"none", export[n].seal} /\ export'[n].sums = export[n].sums
    /\ \A e \in Exporters : Out(e) = n =>
           /\ pc[e] # "ready" => e \in disturbed'
           /\ AtWork(e) => n \in undercut'

LEMMA SpoilsAll ==
    ASSUME NEW n \in Names, Spoils(n), NEW e \in Exporters, Out(e) = n
    PROVE  (pc[e] # "ready" => e \in disturbed') /\ (AtWork(e) => n \in undercut')
BY DEF Spoils, WorkingOn

LEMMA PruneEffect ==
    ASSUME TypeOK, NEW p \in Pruners, Prune(p), NEW n \in Names
    PROVE  export' \in Stores /\ (export'[n] = export[n] \/ (n = name[p] /\ Takes(n)))
<1>0. PICK m \in Names : m = name[p]
  BY DEF TypeOK
<1>1. export \in Stores
  BY DEF TypeOK, Stores
<1>2. CASE UNCHANGED export
  BY <1>1, <1>2
<1>3. CASE Delete(p)
  <2>1. PICK f \in Files \cup {"seal"} : f = LastListed(p)
    <3>1. listing[p] \in SUBSET Listed /\ listing[p] # {}
      BY <1>3 DEF TypeOK, Listed, Delete
    <3> QED BY <3>1, OrderPicks DEF LastListed, Listed
  <2>2. CASE export[m] # NoDirectory /\ f = "seal" /\ Spoils(m) /\ export' = [export EXCEPT ![m].seal = "none"]
    <3>1. Becomes(m, [export[m] EXCEPT !.seal = "none"]) /\ export[m] \in Directory
      BY <1>1, <2>2, SealIn DEF Stores
    <3>2. /\ export'[m].copies = export[m].copies /\ export'[m].sums = export[m].sums
          /\ export'[m].seal = "none"
      BY <3>1 DEF Becomes, Directory
    <3> QED BY <1>0, <2>2, <3>1, <3>2, SpoilsAll DEF Takes, Becomes
  <2>3. CASE export[m] # NoDirectory /\ f # "seal" /\ Spoils(m) /\ export' = [export EXCEPT ![m].copies[f] = Missing]
    <3>0. f \in Files /\ Missing \in Contents
      BY <2>3 DEF Missing, Contents
    <3>1. Becomes(m, [export[m] EXCEPT !.copies[f] = Missing]) /\ export[m] \in Directory
      BY <1>1, <2>3, <3>0, CopyIn DEF Stores
    <3>2. /\ export'[m].copies = [export[m].copies EXCEPT ![f] = Missing]
          /\ export'[m].sums = export[m].sums /\ export'[m].seal = export[m].seal
          /\ export[m].copies \in [Files -> Contents]
      BY <3>1 DEF Becomes, Directory
    <3> QED BY <1>0, <2>3, <3>0, <3>1, <3>2, SpoilsAll DEF Takes, Becomes
  <2> QED BY <1>0, <1>2, <1>3, <2>1, <2>2, <2>3 DEF Delete
<1>4. CASE RemoveDirectory(p)
  <2>1. CASE export[m] # NoDirectory /\ Spoils(m) /\ export' = [export EXCEPT ![m] = NoDirectory]
    BY <1>0, <1>1, <2>1, SpoilsAll DEF Takes, Stores
  <2> QED BY <1>0, <1>2, <1>4, <2>1 DEF RemoveDirectory
<1> QED BY <1>2, <1>3, <1>4 DEF Prune, Select, Gather, Archive, List

LEMMA TypeStep ==
    ASSUME BaseInv, [Next]_vars PROVE TypeOK'
<1> USE DEF BaseInv
<1>1. CASE UNCHANGED vars
  BY <1>1 DEF TypeOK, vars, source, invoker, pruner, spoiled
<1>2. ASSUME NEW b \in Bundles, Save(b),
             UNCHANGED <<export, invoker, lost, pruner, spoiled, raced, kills>>
      PROVE  TypeOK'
  <2>1. saver[b] # "done" => next[b] \in 1..9 /\ next[b] + 1 \in 1..10 /\ next[b] \in Contents
    BY WritesAt DEF Contents
  <2>2. CASE OpenFile(b)
    <3>1. saved' \in [Bundles -> [Files -> Contents]]
      BY <2>2 DEF OpenFile, TypeOK, Contents
    <3>2. saver' \in [Bundles -> {"between", "open", "done"}]
      BY <2>2 DEF OpenFile, TypeOK
    <3> QED BY <1>2, <2>2, <3>1, <3>2 DEF OpenFile, TypeOK, invoker, pruner, spoiled
  <2>3. CASE WriteFile(b)
    <3>1. saved' \in [Bundles -> [Files -> Contents]]
      BY <2>1, <2>3 DEF WriteFile, TypeOK
    <3>2. saver' \in [Bundles -> {"between", "open", "done"}]
      BY <2>3 DEF WriteFile, TypeOK
    <3>3. next' \in [Bundles -> 1..10]
      BY <2>1, <2>3 DEF WriteFile, TypeOK
    <3> QED BY <1>2, <2>3, <3>1, <3>2, <3>3 DEF WriteFile, TypeOK, invoker, pruner, spoiled
  <2> QED BY <1>2, <2>2, <2>3 DEF Save
<1>3. ASSUME NEW e \in Exporters, Export(e), UNCHANGED <<source, pruner, spoiled, kills>>
      PROVE  TypeOK'
  <2>0. TypeOK
    OBVIOUS
  <2>1. raced' \subseteq Pruners /\ lost' \subseteq Exporters /\ of' = of
    BY <1>3 DEF Export, Validate, CheckTarget, ReadManifest, MakeDirectory, Copy, Fill, Hash,
        Seal, SealFill, Writing, TypeOK
  <2>2. export' \in [Names -> Directory \cup {NoDirectory}]
    BY <1>3, ExportTypes DEF Stores
  <2> DEFINE Phases == {"ready", "check", "mkdir", "copy", "fill", "hash", "seal", "sealing", "done"}
             Well == /\ pc' \in [Exporters -> Phases] /\ answer' \in [Exporters -> Answers]
                     /\ todo' \in [Exporters -> Seq(Files)]
                     /\ taken' \in [Exporters -> [Files -> Contents]]
  <2>3. Well
    <3>1. CASE Validate(e) \/ CheckTarget(e) \/ ReadManifest(e)
      BY <2>0, <3>1 DEF Validate, CheckTarget, ReadManifest, Answer, Goto, TypeOK, Answers
    <3>2. CASE MakeDirectory(e)
      <4>1. pc[e] = "mkdir" => CopyOrder(e) \in Seq(Files)
        BY CopyOrderWell DEF PhaseInv, Past
      <4>2. todo' \in [Exporters -> Seq(Files)]
        BY <2>0, <3>2, <4>1 DEF MakeDirectory, TypeOK
      <4>3. pc' \in [Exporters -> Phases] /\ answer' \in [Exporters -> Answers]
        BY <2>0, <3>2 DEF MakeDirectory, Answer, Goto, TypeOK, Answers
      <4> QED BY <2>0, <3>2, <4>2, <4>3 DEF MakeDirectory, TypeOK
    <3>3. CASE Copy(e)
      <4>1. /\ todo[e] \in Seq(Files) /\ todo[e] # <<>> /\ pc[e] = "copy"
        BY <3>3 DEF Copy, PhaseInv, TypeOK
      <4>2. PICK f \in Files, c \in Contents : f = Head(todo[e]) /\ c = saved[of[e]][f]
        BY <2>0, <4>1, Elements, ReadTypes
      <4>3. CASE Answer(e, "raised") /\ UNCHANGED <<todo, taken>>
        BY <2>0, <4>3 DEF Answer, Goto, TypeOK, Answers
      <4>4. CASE Onward(e) /\ UNCHANGED <<taken, answer>>
        BY <2>0, <4>1, <4>4, OnwardEffect DEF TypeOK
      <4>5. CASE taken' = [taken EXCEPT ![e][f] = c] /\ Goto(e, "fill") /\ UNCHANGED <<todo, answer>>
        BY <2>0, <4>5 DEF Goto, TypeOK
      <4> QED BY <3>3, <4>2, <4>3, <4>4, <4>5 DEF Copy
    <3>4. CASE Fill(e)
      <4>1. /\ todo[e] \in Seq(Files) /\ todo[e] # <<>> /\ pc[e] = "fill"
        BY <3>4 DEF Fill, PhaseInv, TypeOK
      <4>2. PICK f \in Files, c \in Contents :
                f = Head(todo[e]) /\ c = IF FixedName(e) THEN taken[e][f] ELSE saved[of[e]][f]
        BY <2>0, <4>1, Elements, ReadTypes
      <4>3. CASE Answer(e, "raised") /\ UNCHANGED <<todo, taken>>
        BY <2>0, <4>3 DEF Answer, Goto, TypeOK, Answers
      <4>4. CASE Onward(e) /\ answer' = answer /\ (taken' = taken \/ taken' = [taken EXCEPT ![e][f] = c])
        <5>1. [taken EXCEPT ![e][f] = c] \in [Exporters -> [Files -> Contents]]
          BY <2>0 DEF TypeOK
        <5>2. taken' \in [Exporters -> [Files -> Contents]]
          BY <2>0, <4>4, <5>1 DEF TypeOK
        <5> QED BY <2>0, <4>1, <4>4, <5>2, OnwardEffect DEF TypeOK
      <4> QED BY <3>4, <4>2, <4>3, <4>4 DEF Fill
    <3>5. CASE Hash(e)
      <4>1. CASE Answer(e, "raised") /\ taken' = taken
        BY <2>0, <3>5, <4>1 DEF Hash, Answer, Goto, TypeOK, Answers
      <4>2. CASE /\ export[Out(e)] # NoDirectory
                 /\ taken' = [taken EXCEPT ![e] = [f \in Files |->
                              IF f \in Copied(e) THEN export[Out(e)].copies[f] ELSE Missing]]
                 /\ Goto(e, "seal") /\ answer' = answer
        <5>1. [f \in Files |-> IF f \in Copied(e) THEN export[Out(e)].copies[f] ELSE Missing]
              \in [Files -> Contents]
          BY <2>0, <4>2, ReadTypes DEF Missing, Contents
        <5>2. taken' \in [Exporters -> [Files -> Contents]]
          BY <2>0, <4>2, <5>1 DEF TypeOK
        <5> QED BY <2>0, <3>5, <4>2, <5>2 DEF Hash, Goto, TypeOK
      <4> QED BY <3>5, <4>1, <4>2 DEF Hash
    <3>6. CASE Seal(e) \/ SealFill(e)
      <4>1. /\ UNCHANGED <<todo, taken>>
            /\ \/ Goto(e, "sealing") /\ answer' = answer
               \/ Answer(e, "exported") \/ Answer(e, "raised")
        BY <3>6 DEF Seal, SealFill
      <4> QED BY <2>0, <4>1 DEF Answer, Goto, TypeOK, Answers
    <3> QED BY <1>3, <3>1, <3>2, <3>3, <3>4, <3>5, <3>6 DEF Export
  <2>4. /\ UNCHANGED <<kind, saved, next, saver, of, kills, disturbed, undercut>>
        /\ UNCHANGED <<prune, name, keep, listing, archive, unkept>>
    BY <1>3, <2>1 DEF source, pruner, spoiled
  <2> HIDE DEF BaseInv
  <2> QED BY <2>0, <2>1, <2>2, <2>3, <2>4, Zenon DEF TypeOK
<1>4. ASSUME NEW p \in Pruners, Prune(p), UNCHANGED <<source, invoker, raced, kills>>
      PROVE  TypeOK'
  <2>1. /\ name[p] \in Names /\ disturbed' \subseteq Exporters /\ undercut' \subseteq Names
        /\ unkept' \subseteq Pruners /\ lost' \subseteq Exporters
        /\ prune' \in [Pruners -> {"ready", "gather", "archive", "list", "delete", "done"}]
    BY <1>4 DEF Prune, Select, Gather, Archive, List, Delete, RemoveDirectory, Spoils, Writers,
        WorkingOn, PruneTo, TypeOK, spoiled
  <2>2. Present(name[p]) \subseteq Files \cup {"seal"}
    BY DEF Present
  <2>3. listing' \in [Pruners -> SUBSET (Files \cup {"seal"})]
    BY <1>4, <2>2 DEF Prune, Select, Gather, Archive, List, Delete, RemoveDirectory, TypeOK
  <2>4. archive' \in [Pruners -> [Files -> Contents]]
    <3>1. CASE archive' = archive
      BY <3>1 DEF TypeOK
    <3>2. CASE /\ FirstListed(p) # "seal" /\ listing[p] # {}
               /\ export[name[p]] # NoDirectory
               /\ archive' = [archive EXCEPT ![p][FirstListed(p)] = export[name[p]].copies[FirstListed(p)]]
      <4>1. FirstListed(p) \in Files
        <5>1. listing[p] \in SUBSET Listed
          BY DEF TypeOK, Listed
        <5> QED BY <3>2, <5>1, OrderPicks DEF FirstListed, Listed
      <4>2. export[name[p]] \in Directory
        BY <2>1, <3>2 DEF TypeOK
      <4>3. export[name[p]].copies[FirstListed(p)] \in Contents
        BY <4>1, <4>2 DEF Directory
      <4> QED BY <3>2, <4>3 DEF TypeOK
    <3> QED BY <1>4, <3>1, <3>2 DEF Prune, Select, Gather, Archive, List, Delete, RemoveDirectory
  <2>5. export' \in [Names -> Directory \cup {NoDirectory}]
    BY <1>4, <2>1, PruneEffect DEF Stores
  <2>6. name' = name /\ keep' = keep
    BY <1>4 DEF Prune, Select, Gather, Archive, List, Delete, RemoveDirectory
  <2> QED BY <1>4, <2>1, <2>3, <2>4, <2>5, <2>6 DEF TypeOK, source, invoker
<1>5. CASE Kill
  <2>1. kills' \in 0..MaxKills
    BY <1>5, KillsAssumption DEF Kill, TypeOK
  <2> QED BY <1>5, <2>1 DEF Kill, TypeOK, source, pruner, spoiled, Goto
<1> QED BY <1>1, <1>2, <1>3, <1>4, <1>5 DEF Next

LEMMA WriteStep ==
    ASSUME BaseInv, [Next]_vars PROVE \A b \in Bundles : WriteInv(b)'
<1> USE DEF BaseInv
<1>1. kind' = kind /\ \A b \in Bundles : Writes(b)' = Writes(b)
  BY Fixed, SameNames
<1> SUFFICES ASSUME NEW b \in Bundles PROVE WriteInv(b)'
  OBVIOUS
<1>2. Writes(b)' = Writes(b) /\ WriteInv(b) /\ Len(Writes(b)) \in 1..9
  BY <1>1, BundleRow DEF SavedWell, Writes
<1>3. CASE saved'[b] = saved[b] /\ next'[b] = next[b] /\ saver'[b] = saver[b]
  BY <1>2, <1>3 DEF WriteInv, WroteLast
<1>5. CASE OpenFile(b)
  <2>0. PICK f \in Files : f = Writes(b)[next[b]]
    BY <1>2, <1>5, WritesAt DEF OpenFile
  <2>1. /\ saver[b] = "between" /\ saver'[b] = "open" /\ next'[b] = next[b]
        /\ saved'[b] = [saved[b] EXCEPT ![f] = Torn]
    BY <1>2, <1>5, <2>0, WritesAt DEF OpenFile, TypeOK
  <2>2. \A g \in Files : g # f => saved'[b][g] = saved[b][g]
    BY <2>1 DEF TypeOK
  <2>3. saved'[b][f] = Torn
    BY <2>1 DEF TypeOK
  <2>4. \A g \in Files : WroteLast(b, g)
    BY <1>2, <2>0, <2>1 DEF WriteInv
  <2>5. \A g \in Files : g # f => WroteLast(b, g)'
    BY <1>2, <2>1, <2>2, <2>4 DEF WroteLast
  <2> QED BY <1>2, <2>0, <2>1, <2>3, <2>5 DEF WriteInv
<1>6. CASE WriteFile(b)
  <2> DEFINE n == next[b]
  <2>0. PICK f \in Files : f = Writes(b)[n]
    BY <1>2, <1>6, WritesAt DEF WriteFile
  <2>1. /\ saver[b] = "open" /\ n \in 1..Len(Writes(b)) /\ next'[b] = n + 1
        /\ saver'[b] = (IF n = Len(Writes(b)) THEN "done" ELSE "between")
        /\ saved'[b] = [saved[b] EXCEPT ![f] = n]
    BY <1>2, <1>6, <2>0, WritesAt DEF WriteFile, TypeOK
  <2>2. \A g \in Files : g # f => saved'[b][g] = saved[b][g]
    BY <2>1 DEF TypeOK
  <2>3. saved'[b][f] = n
    BY <2>1 DEF TypeOK
  <2>4. \A g \in Files : g # f => WroteLast(b, g)
    BY <1>2, <2>0, <2>1 DEF WriteInv
  <2> HIDE DEF n
  <2>5. ASSUME NEW g \in Files, g # f PROVE WroteLast(b, g)'
    <3>1. saved[b][g] \in 0..(n - 1) /\ saved'[b][g] = saved[b][g]
      BY <2>2, <2>4, <2>5 DEF WroteLast, n
    <3>2. saved'[b][g] \in 0..(next'[b] - 1)
      BY <1>2, <2>1, <3>1
    <3>3. \A i \in 1..(next'[b] - 1) : i = n \/ i \in 1..(n - 1)
      BY <1>2, <2>1
    <3> QED BY <1>2, <2>0, <2>1, <2>4, <2>5, <3>1, <3>2, <3>3 DEF WroteLast, n
  <2>6. WroteLast(b, f)'
    BY <1>2, <2>0, <2>1, <2>3 DEF WroteLast, n
  <2>7. next'[b] \in 1..(Len(Writes(b)) + 1) /\ (saver'[b] = "done" <=> next'[b] = Len(Writes(b)) + 1)
    BY <1>2, <2>1
  <2> QED BY <1>2, <2>5, <2>6, <2>7 DEF WriteInv
<1> DEFINE Idle == saved'[b] = saved[b] /\ next'[b] = next[b] /\ saver'[b] = saver[b]
<1>7. Idle \/ OpenFile(b) \/ WriteFile(b)
  BY OtherSavers
<1> QED BY <1>3, <1>5, <1>6, <1>7

LEMMA PhaseStep ==
    ASSUME BaseInv, [Next]_vars PROVE \A e \in Exporters : PhaseInv(e)'
<1>1. /\ kind' = kind /\ of' = of
      /\ \A e \in Exporters : Plan(e)' = Plan(e) /\ FixedName(e)' = FixedName(e)
  BY Fixed, SameNames
<1> SUFFICES ASSUME NEW d \in Exporters PROVE PhaseInv(d)'
  OBVIOUS
<1>2. PhaseInv(d) /\ TypeOK
  BY DEF BaseInv
<1> USE <1>1, <1>2 DEF PhaseInv, Past, Answered, AtWork
<1>3. CASE Same(d)
  BY <1>3 DEF Same
<1>4. CASE pc[d] \notin {"ready", "done"} /\ pc'[d] = "done" /\ answer'[d] = answer[d]
  BY <1>4
<1>5. CASE Export(d)
  <2>1. CASE Validate(d)
    BY <2>1 DEF Validate, Answer, Goto, TypeOK
  <2>2. CASE CheckTarget(d)
    BY <2>2 DEF CheckTarget, Answer, Goto, TypeOK
  <2>3. CASE ReadManifest(d)
    BY <2>3 DEF ReadManifest, Answer, Goto, TypeOK
  <2>4. CASE MakeDirectory(d)
    <3>1. CopyOrder(d) # <<>>
      BY <2>4, CopyOrderWell DEF MakeDirectory
    <3> QED BY <2>4, <3>1 DEF MakeDirectory, Answer, Goto, TypeOK
  <2>5. CASE Copy(d) \/ Fill(d)
    <3>1. pc[d] \in {"copy", "fill"} /\ todo[d] # <<>> /\ kind[of[d]] \in Exportable
      BY <2>5 DEF Copy, Fill
    <3>2. CASE Answer(d, "raised")
      BY <3>1, <3>2 DEF Answer, Goto, TypeOK
    <3>3. CASE Onward(d) /\ answer' = answer
      <4>1. /\ pc'[d] \in {"copy", "hash", "seal"} /\ (pc'[d] = "hash" => FixedName(d))
            /\ pc'[d] = "copy" <=> todo'[d] # <<>>
        BY <3>1, <3>3, OnwardEffect
      <4> QED BY <3>1, <3>3, <4>1
    <3>4. CASE Goto(d, "fill") /\ UNCHANGED <<todo, answer>>
      BY <3>1, <3>4 DEF Goto, TypeOK
    <3> QED BY <2>5, <3>2, <3>3, <3>4 DEF Copy, Fill
  <2>6. CASE Hash(d)
    BY <2>6 DEF Hash, Answer, Goto, TypeOK
  <2>7. CASE Seal(d) \/ SealFill(d)
    BY <2>7 DEF Seal, SealFill, Answer, Goto, TypeOK
  <2> QED BY <1>5, <2>1, <2>2, <2>3, <2>4, <2>5, <2>6, <2>7 DEF Export
<1> QED BY <1>3, <1>4, <1>5, OtherExporters DEF Own

-----------------------------------------------------------------------------
(* A bundle that is done, and one an exporter found sound.                 *)
LEMMA DoneWell ==
    ASSUME BaseInv, NEW b \in Bundles, saver[b] = "done"
    PROVE  /\ Len(Writes(b)) \in 1..9 /\ Writes(b)[Len(Writes(b))] = "manifest"
           /\ next[b] = Len(Writes(b)) + 1
           /\ \A f \in Files : WroteLast(b, f) /\ saved[b][f] \in Nat
<1>1. Len(Writes(b)) \in 1..9 /\ Writes(b)[Len(Writes(b))] = "manifest"
  BY BundleRow DEF BaseInv, SavedWell, Writes
<1>2. next[b] = Len(Writes(b)) + 1 /\ \A f \in Files : WroteLast(b, f)
  BY DEF BaseInv, WriteInv
<1>3. \A f \in Files : saved[b][f] \in Nat
  BY <1>1, <1>2 DEF WroteLast
<1> QED BY <1>1, <1>2, <1>3

LEMMA SavedSound ==
    ASSUME BaseInv, NEW b \in Bundles, saver[b] = "done" PROVE Sound(b)
<1> DEFINE last == Len(Writes(b))
           layout == Kinds[kind[b]]
<1>1. /\ last \in 1..9 /\ Writes(b)[last] = "manifest" /\ next[b] = last + 1
      /\ \A f \in Files : WroteLast(b, f) /\ saved[b][f] \in Nat
  BY DoneWell
<1>2. \A f \in layout.required : f \in Files /\ \E i \in 1..last : Writes(b)[i] = f
  BY BundleRow DEF BaseInv, SavedWell, Writes
<1>3. \A f \in layout.parsed : f \in Files
  BY BundleRow DEF BaseInv, SavedWell
<1>4. \A f \in layout.required : saved[b][f] # Missing
  <2> TAKE f \in layout.required
  <2>1. PICK i \in 1..last : f \in Files /\ Writes(b)[i] = f
    BY <1>2
  <2> QED BY <1>1, <2>1 DEF WroteLast, Missing
<1>5. \A f \in layout.parsed : saved[b][f] # Torn
  BY <1>1, <1>3, TornAssumption
<1>6. saved[b]["manifest"] = last
  <2>1. "manifest" \in Files
    BY DEF Files
  <2> QED BY <1>1, <2>1 DEF WroteLast
<1>7. \A f \in Files : Checksum(b, last, f) \in {Missing, saved[b][f]}
  <2> TAKE f \in Files
  <2> DEFINE before == {i \in 1..(last - 1) : Writes(b)[i] = f}
  <2> SUFFICES ASSUME before # {}, f # "manifest" PROVE Max(before) = saved[b][f]
    BY DEF Checksum
  <2>1. /\ \A i \in before : i <= saved[b][f]
        /\ saved[b][f] # 0 /\ saved[b][f] \in 0..last /\ Writes(b)[saved[b][f]] = f
    BY <1>1 DEF WroteLast
  <2>2. saved[b][f] \in before
    BY <1>1, <2>1
  <2>3. before \in SUBSET Nat
    BY <1>1
  <2> HIDE DEF before
  <2> QED BY <2>1, <2>2, <2>3, MaxIs
<1> QED BY <1>4, <1>5, <1>6, <1>7 DEF Sound

\* What an exporter found in its bundle stays so: a finished bundle does not
\* change, and the body of a bundle exported under its name is written once.
SourceInv(e) == Past(e) =>
    /\ saved[of[e]]["body"] # Missing
    /\ FixedName(e) => saved[of[e]]["body"] # Torn
    /\ Plan(e).looks => saver[of[e]] = "done"

LEMMA DoneStays ==
    ASSUME BaseInv, [Next]_vars, NEW b \in Bundles, saver[b] = "done"
    PROVE  saver'[b] = "done" /\ saved'[b] = saved[b]
BY OtherSavers DEF BaseInv, OpenFile, WriteFile

LEMMA WrittenStays ==
    ASSUME BaseInv, [Next]_vars, NEW b \in Bundles, NEW f \in Files, saved[b][f] # Missing
    PROVE  saved'[b][f] # Missing
<1>1. CASE saved'[b] = saved[b]
  BY <1>1
<1>2. CASE OpenFile(b)
  BY <1>2, TornAssumption DEF OpenFile, BaseInv, TypeOK, Missing
<1>3. CASE WriteFile(b)
  <2>1. next[b] \in 1..10
    BY DEF BaseInv, TypeOK
  <2> QED BY <1>3, <2>1 DEF WriteFile, BaseInv, TypeOK, Missing
<1> QED BY <1>1, <1>2, <1>3, OtherSavers DEF BaseInv

LEMMA BodyStays ==
    ASSUME BaseInv, [Next]_vars, NEW e \in Exporters, FixedName(e), kind[of[e]] \in Exportable,
           saved[of[e]]["body"] \notin {Missing, Torn}
    PROVE  saved'[of[e]]["body"] \notin {Missing, Torn}
<1> PICK b \in Bundles : b = of[e]
  BY OutName DEF BaseInv
<1>1. "body" \in Files /\ TypeOK /\ WriteInv(b)
  BY DEF Files, BaseInv
<1>2. \A i \in 2..Len(Writes(b)) : Writes(b)[i] # "body"
  BY <1>1, ExporterRow DEF ExportedWell, FixedName, Plan, Writes
<1>3. saved'[b]["body"] # Missing
  BY <1>1, WrittenStays
<1>4. CASE OpenFile(b)
  <2>1. WroteLast(b, "body") /\ next[b] \in 1..Len(Writes(b)) /\ Len(Writes(b)) \in Nat
    BY <1>1, <1>4, WritesAt DEF OpenFile, WriteInv
  <2>2. next[b] \in 2..Len(Writes(b))
    BY <2>1 DEF WroteLast, Missing
  <2>3. Writes(b)[next[b]] # "body"
    BY <1>2, <2>2
  <2> QED BY <1>1, <1>4, <2>3 DEF OpenFile, TypeOK
<1>5. CASE WriteFile(b)
  <2>1. next[b] \in 1..10 /\ next[b] # Torn
    BY <1>1, TornAssumption DEF TypeOK
  <2> QED BY <1>1, <1>3, <1>5, <2>1 DEF WriteFile, TypeOK
<1> QED BY <1>1, <1>3, <1>4, <1>5, OtherSavers

LEMMA SoundLooks ==
    ASSUME BaseInv, NEW e \in Exporters, kind[of[e]] \in Exportable, Sound(of[e])
    PROVE  /\ saved[of[e]]["body"] # Missing
           /\ FixedName(e) => saved[of[e]]["body"] # Torn
           /\ Plan(e).looks => saver[of[e]] = "done"
<1> PICK b \in Bundles : b = of[e]
  BY OutName DEF BaseInv
<1>1. ExportedWell(kind[b])
  BY ExporterRow DEF BaseInv
<1>2. saved[b]["body"] # Missing /\ (FixedName(e) => saved[b]["body"] # Torn)
  BY <1>1 DEF ExportedWell, Sound, FixedName, Plan
<1>3. ASSUME Plan(e).looks PROVE saver[b] = "done"
  <2>1. /\ Len(Writes(b)) = 3 /\ Writes(b)[1] = "body" /\ Writes(b)[2] = "text"
        /\ Kinds[kind[b]].required = Triple /\ Kinds[kind[b]].parsed = {"body", "manifest"}
    BY <1>1, <1>3 DEF ExportedWell, Plan, Writes
  <2>2. "manifest" \in Files /\ saved[b]["manifest"] \notin {Missing, Torn} /\ WriteInv(b)
    BY <2>1 DEF Sound, Triple, Files, BaseInv
  <2>3. WroteLast(b, "manifest") /\ next[b] \in 1..4
    BY <2>1, <2>2 DEF WriteInv
  <2>4. saved[b]["manifest"] \in 1..(next[b] - 1) /\ Writes(b)[saved[b]["manifest"]] = "manifest"
    BY <2>2, <2>3 DEF WroteLast, Missing
  <2>5. next[b] = 4
    BY <2>1, <2>3, <2>4
  <2> QED BY <2>1, <2>2, <2>5 DEF WriteInv
<1> QED BY <1>2, <1>3

LEMMA SourceStep ==
    ASSUME BaseInv, [Next]_vars, \A e \in Exporters : SourceInv(e)
    PROVE  \A e \in Exporters : SourceInv(e)'
<1>1. /\ kind' = kind /\ of' = of
      /\ \A e \in Exporters : Plan(e)' = Plan(e) /\ FixedName(e)' = FixedName(e)
  BY Fixed, SameNames
<1> SUFFICES ASSUME NEW e \in Exporters, Past(e)' PROVE
        /\ saved'[of[e]]["body"] # Missing
        /\ FixedName(e) => saved'[of[e]]["body"] # Torn
        /\ Plan(e).looks => saver'[of[e]] = "done"
  BY <1>1 DEF SourceInv
<1>2. CASE Past(e)
  <2>1. /\ SourceInv(e) /\ kind[of[e]] \in Exportable /\ of[e] \in Bundles /\ "body" \in Files
    BY <1>2, OutName DEF BaseInv, PhaseInv, Files
  <2> QED BY <1>2, <2>1, WrittenStays, BodyStays, DoneStays DEF SourceInv
<1>3. CASE ~Past(e)
  <2>1. Own(e)
    BY <1>3, OtherExporters DEF BaseInv, Same, Past, Answered, AtWork, PhaseInv
  <2>2. pc[e] = "ready"
    BY <1>3, <2>1 DEF Own, Export, Validate, CheckTarget, ReadManifest, MakeDirectory, Copy, Fill,
        Hash, Seal, SealFill, Past, AtWork
  <2>3. Validate(e) /\ UNCHANGED source
    BY <2>1, <2>2 DEF Own, Export, Validate, CheckTarget, ReadManifest, MakeDirectory, Copy, Fill,
        Hash, Seal, SealFill
  <2>4. Sound(of[e])
    BY <1>3, <2>3 DEF Validate, Answer, Goto, Past, Answered, AtWork, BaseInv, TypeOK
  <2> QED BY <2>3, <2>4, SoundLooks DEF Validate, source
<1> QED BY <1>2, <1>3

-----------------------------------------------------------------------------
(* Who writes an export directory.                                         *)

\* The files an exporter needs, and those it has copied.
Needed(e) == IF FixedName(e) THEN Triple ELSE {"body"}
Got(e)    == Needed(e) \ (IF pc[e] \in {"copy", "fill"} THEN ToSet(todo[e]) ELSE {})

LEMMA NeededFiles == \A e \in Exporters : Got(e) \subseteq Needed(e) /\ Needed(e) \subseteq Files
BY DEF Got, Needed, Triple, Files

\* Only exporters of one bundle share a name, and nobody shares a fresh one.
LEMMA SharedName ==
    ASSUME TypeOK, NEW d \in Exporters, NEW e \in Exporters, Out(d) = Out(e), d # e
    PROVE  FixedName(d) /\ FixedName(e) /\ of[d] = of[e]
BY NamesAssumption DEF Out, TypeOK

\* Who changed an export directory: a pruner, an exporter that makes it, or one at
\* work on it.
LEMMA ExportChange ==
    ASSUME BaseInv, [Next]_vars, NEW n \in Names
    PROVE  \/ export'[n] = export[n]
           \/ Takes(n) /\ UNCHANGED <<source, invoker>>
           \/ \E d \in Exporters :
                  /\ Out(d) = n /\ Own(d)
                  /\ (MakeDirectory(d) /\ export[n] = NoDirectory) \/ AtWork(d)
<1>0. TypeOK
  BY DEF BaseInv
<1>1. CASE UNCHANGED export
  BY <1>1
<1>2. ASSUME NEW p \in Pruners, Prune(p), UNCHANGED <<source, invoker, raced, kills>>
      PROVE  export'[n] = export[n] \/ (Takes(n) /\ UNCHANGED <<source, invoker>>)
  BY <1>0, <1>2, PruneEffect
<1>3. ASSUME NEW e \in Exporters, Own(e), export'[n] # export[n]
      PROVE  Out(e) = n /\ ((MakeDirectory(e) /\ export[n] = NoDirectory) \/ AtWork(e))
  <2>1. Out(e) = n
    BY <1>3, ExportTypes DEF Own
  <2>2. CASE MakeDirectory(e)
    BY <1>3, <2>1, <2>2 DEF MakeDirectory
  <2>3. CASE ~MakeDirectory(e)
    BY <1>3, <2>1, <2>3 DEF Own, Export, Validate, CheckTarget, ReadManifest, Copy, Fill, Hash,
        Seal, SealFill, AtWork
  <2> QED BY <2>2, <2>3
<1> QED BY <1>1, <1>2, <1>3 DEF Next, vars, Kill, Own

\* Who loses an open file: exporters a pruner undercuts.
LEMMA LostChange ==
    ASSUME TypeOK, [Next]_vars, NEW e \in Exporters, e \in lost', e \notin lost
    PROVE  Out(e) \in undercut'
<1>1. ASSUME NEW p \in Pruners, Prune(p) PROVE Out(e) \in undercut'
  <2>1. Delete(p) /\ e \in WorkingOn(name[p]) /\ Spoils(name[p])
    BY <1>1 DEF Prune, Select, Gather, Archive, List, Delete, RemoveDirectory
  <2> QED BY <2>1 DEF WorkingOn, Spoils
<1>2. ASSUME NEW d \in Exporters, Export(d) PROVE lost' \subseteq lost
  BY <1>2 DEF Export, Validate, CheckTarget, ReadManifest, MakeDirectory, Copy, Fill, Hash, Seal,
      SealFill
<1> QED BY <1>1, <1>2 DEF Next, vars, Kill

\* An exporter that comes to be at work has just made its directory.
LEMMA ComesToWork ==
    ASSUME BaseInv, [Next]_vars, NEW d \in Exporters, AtWork(d)', ~AtWork(d)
    PROVE  /\ Own(d) /\ MakeDirectory(d) /\ export[Out(d)] = NoDirectory
           /\ export'[Out(d)] = NewDirectory /\ export'[Out(d)] # NoDirectory
           /\ pc'[d] = "copy" /\ todo'[d] = CopyOrder(d) /\ taken'[d] = Nothing
           /\ kind[of[d]] \in Exportable
<1>0. TypeOK /\ PhaseInv(d) /\ Out(d) \in Names /\ export \in Stores
  BY OutName DEF BaseInv, TypeOK, Stores
<1>1. Own(d)
  BY <1>0, OtherExporters DEF Same, AtWork
<1>2. CASE Validate(d) \/ CheckTarget(d) \/ ReadManifest(d)
  BY <1>0, <1>2 DEF Validate, CheckTarget, ReadManifest, Answer, Goto, AtWork, TypeOK
<1>3. MakeDirectory(d)
  BY <1>1, <1>2 DEF Own, Export, Copy, Fill, Hash, Seal, SealFill, AtWork
<1>4. /\ export[Out(d)] = NoDirectory /\ export' = [export EXCEPT ![Out(d)] = NewDirectory]
      /\ pc'[d] = "copy" /\ todo'[d] = CopyOrder(d)
  BY <1>0, <1>3 DEF MakeDirectory, Answer, Goto, AtWork, TypeOK
<1>5. taken'[d] = Nothing /\ kind[of[d]] \in Exportable
  BY <1>0, <1>3 DEF MakeDirectory, PhaseInv, Past
<1>6. Becomes(Out(d), NewDirectory)
  BY <1>0, <1>4, NewIn, PutIn
<1> QED BY <1>1, <1>3, <1>4, <1>5, <1>6 DEF Becomes

-----------------------------------------------------------------------------
(* An exporter at work is alone until a pruner deletes under it.           *)

\* What is in the directory of an exporter at work, and what it has copied: all
\* but the file it is writing.
Holds(e) ==
    /\ export[Out(e)] # NoDirectory
    /\ pc[e] \in {"fill", "sealing"} => e \notin lost
    /\ export[Out(e)].seal = IF pc[e] = "sealing" THEN "cut" ELSE "none"
    /\ \A f \in Files : export[Out(e)].copies[f] =
           IF pc[e] = "fill" /\ f = Head(todo[e]) THEN Torn ELSE taken[e][f]
    /\ pc[e] = "fill" => taken[e][Head(todo[e])] # Missing
    /\ \A f \in Got(e) : taken[e][f] # Missing
    /\ FixedName(e) => taken[e]["body"] # Torn
    /\ Plan(e).looks => \A f \in Files : taken[e][f] \in {Missing, saved[of[e]][f]}

Alone(e) == \A d \in Exporters : AtWork(d) /\ Out(d) = Out(e) => d = e

WorkInv(e) == AtWork(e) /\ Out(e) \notin undercut => Alone(e) /\ Holds(e)

\* The names and plans of a step, for any exporter.
LEMMA StepNames ==
    ASSUME [Next]_vars, NEW e \in Exporters
    PROVE  /\ kind' = kind /\ of' = of /\ Plan(e)' = Plan(e) /\ FixedName(e)' = FixedName(e)
           /\ Out(e)' = Out(e) /\ Needed(e)' = Needed(e)
           /\ Out(e) \notin undercut' => Out(e) \notin undercut
BY Fixed, SameNames DEF Needed

\* A new directory, of which nothing is copied yet.
LEMMA NewHolds ==
    ASSUME BaseInv, [Next]_vars, NEW e \in Exporters, AtWork(e)', ~AtWork(e)
    PROVE  Holds(e)'
<1>1. /\ export'[Out(e)] = NewDirectory /\ export'[Out(e)] # NoDirectory
      /\ pc'[e] = "copy" /\ todo'[e] = CopyOrder(e) /\ taken'[e] = Nothing
      /\ kind[of[e]] \in Exportable
  BY ComesToWork
<1>2. /\ kind' = kind /\ of' = of /\ Plan(e)' = Plan(e) /\ FixedName(e)' = FixedName(e)
      /\ Out(e)' = Out(e) /\ Needed(e)' = Needed(e)
  BY StepNames
<1>3. Needed(e) \subseteq ToSet(CopyOrder(e))
  <2>1. ToSet(Plan(e).order) \subseteq ToSet(CopyOrder(e))
    BY <1>1, CopyOrderWell DEF BaseInv
  <2>2. ExportedWell(kind[of[e]])
    BY <1>1, ExporterRow DEF BaseInv
  <2> QED BY <2>1, <2>2 DEF ExportedWell, Needed, FixedName, Plan
<1>4. Got(e)' = {}
  BY <1>1, <1>2, <1>3 DEF Got
<1>5. /\ NewDirectory.copies = Nothing /\ NewDirectory.seal = "none"
      /\ \A f \in Files : Nothing[f] = Missing
      /\ "body" \in Files /\ Missing # Torn
  BY TornAssumption DEF NewDirectory, Nothing, Files, Missing
<1> QED BY <1>1, <1>2, <1>4, <1>5 DEF Holds

\* An exporter alone at work goes on: copying a file, writing it, hashing the copies,
\* writing the manifest.
LEMMA OwnHolds ==
    ASSUME BaseInv, [Next]_vars, NEW e \in Exporters, Own(e), AtWork(e), AtWork(e)', Holds(e),
           SourceInv(e)
    PROVE  Holds(e)'
<1>1. /\ kind' = kind /\ of' = of /\ Plan(e)' = Plan(e) /\ FixedName(e)' = FixedName(e)
      /\ Out(e)' = Out(e) /\ Needed(e)' = Needed(e)
  BY StepNames
<1>2. /\ TypeOK /\ PhaseInv(e) /\ saved' = saved /\ export \in Stores
      /\ of[e] \in Bundles /\ Out(e) \in Names /\ export[Out(e)] \in Directory
      /\ taken[e] \in [Files -> Contents] /\ "body" \in Files
  BY OutName DEF BaseInv, Own, source, TypeOK, Stores, Holds, Files
<1>3. /\ saved[of[e]]["body"] # Missing
      /\ FixedName(e) => saved[of[e]]["body"] # Torn
  BY DEF SourceInv, Past
<1>4. /\ ExportedWell(kind[of[e]])
      /\ Plan(e).looks => FixedName(e)
  <2>1. ExportedWell(kind[of[e]])
    BY <1>2, ExporterRow DEF PhaseInv, Past
  <2> QED BY <2>1 DEF ExportedWell, Plan, FixedName
<1>5. ASSUME pc[e] \in {"copy", "fill"}, Onward(e)
      PROVE  /\ Got(e)' \subseteq Got(e) \cup {Head(todo[e])}
             /\ pc'[e] \in {"copy", "hash", "seal"}
  <2>1. /\ ToSet(todo[e]) = {Head(todo[e])} \cup ToSet(todo'[e])
        /\ pc'[e] \in {"copy", "hash", "seal"}
        /\ pc'[e] # "copy" => todo'[e] = <<>>
    BY <1>5, OnwardEffect
  <2>2. ToSet(<<>>) = {}
    BY DEF ToSet
  <2> QED BY <1>1, <1>5, <2>1, <2>2 DEF Got
<1>6. CASE Copy(e)
  <2>0. pc[e] = "copy" /\ todo[e] \in Seq(Files) /\ todo[e] # <<>>
    BY <1>2, <1>6 DEF Copy, PhaseInv, TypeOK
  <2>1. PICK f \in Files, c \in Contents : f = Head(todo[e]) /\ c = saved[of[e]][f]
    BY <1>2, <2>0, Elements, ReadTypes
  <2>2. CASE ~FixedName(e) /\ c = Missing /\ Onward(e) /\ UNCHANGED <<export, taken, lost>>
    <3>1. Got(e)' \subseteq Got(e) \cup {f} /\ pc'[e] \in {"copy", "hash", "seal"} /\ f # "body"
      BY <1>3, <1>5, <2>0, <2>1, <2>2
    <3>2. Got(e)' \subseteq Got(e)
      BY <1>1, <2>2, <3>1, NeededFiles DEF Got, Needed
    <3> QED BY <1>1, <1>2, <2>0, <2>2, <3>1, <3>2 DEF Holds
  <2>3. CASE /\ c # Missing /\ Goto(e, "fill") /\ lost' = lost \ {e} /\ todo' = todo
             /\ export' = [export EXCEPT ![Out(e)] = [Made(@) EXCEPT !.copies[f] = Torn]]
             /\ taken' = [taken EXCEPT ![e][f] = c]
    <3>1. Becomes(Out(e), [export[Out(e)] EXCEPT !.copies[f] = Torn])
      <4>1. Made(export[Out(e)]) = export[Out(e)]
        BY DEF Holds, Made
      <4> QED BY <1>2, <2>3, <4>1, OpenIn
    <3>2. /\ export'[Out(e)] # NoDirectory /\ export'[Out(e)].seal = export[Out(e)].seal
          /\ export'[Out(e)].copies = [export[Out(e)].copies EXCEPT ![f] = Torn]
          /\ export[Out(e)].copies \in [Files -> Contents]
      BY <1>2, <3>1 DEF Becomes, Directory
    <3>3. pc'[e] = "fill" /\ taken'[e] = [taken[e] EXCEPT ![f] = c]
      BY <1>2, <2>3 DEF Goto, TypeOK
    <3>4. Got(e)' = Got(e) /\ f \notin Got(e)
      <4>1. f \in ToSet(todo[e])
        BY <2>0, <2>1, Elements
      <4> QED BY <1>1, <2>0, <2>3, <3>3, <4>1 DEF Got
    <3>5. \A g \in Files : taken'[e][g] = IF g = f THEN c ELSE taken[e][g]
      BY <1>2, <3>3
    <3>6. \A g \in Files : export'[Out(e)].copies[g] = IF g = f THEN Torn ELSE taken[e][g]
      BY <2>0, <3>2 DEF Holds
    <3>7. Got(e) \subseteq Files
      BY NeededFiles
    <3>8. /\ \A g \in Got(e)' : taken'[e][g] # Missing
          /\ FixedName(e)' => taken'[e]["body"] # Torn
          /\ Plan(e)'.looks => \A g \in Files : taken'[e][g] \in {Missing, saved'[of'[e]][g]}
      BY <1>1, <1>2, <1>3, <2>1, <3>4, <3>5, <3>7 DEF Holds
    <3>9. /\ export'[Out(e)'] # NoDirectory
          /\ pc'[e] \in {"fill", "sealing"} => e \notin lost'
          /\ export'[Out(e)'].seal = IF pc'[e] = "sealing" THEN "cut" ELSE "none"
          /\ \A g \in Files : export'[Out(e)'].copies[g] =
                 IF pc'[e] = "fill" /\ g = Head(todo'[e]) THEN Torn ELSE taken'[e][g]
          /\ pc'[e] = "fill" => taken'[e][Head(todo'[e])] # Missing
      BY <1>1, <2>0, <2>1, <2>3, <3>2, <3>3, <3>5, <3>6 DEF Holds
    <3> QED BY <3>8, <3>9 DEF Holds
  <2>4. ~Answer(e, "raised")
    BY <1>2 DEF Answer, Goto, AtWork, TypeOK
  <2> QED BY <1>6, <2>1, <2>2, <2>3, <2>4 DEF Copy
<1>7. CASE Fill(e)
  <2>0. pc[e] = "fill" /\ todo[e] \in Seq(Files) /\ todo[e] # <<>> /\ Opened(e)
    BY <1>2, <1>7 DEF Fill, PhaseInv, TypeOK, Opened, Holds
  <2>1. PICK f \in Files, c \in Contents :
            f = Head(todo[e]) /\ c = IF FixedName(e) THEN taken[e][f] ELSE saved[of[e]][f]
    BY <1>2, <2>0, Elements, ReadTypes
  <2>2. /\ export' = [export EXCEPT ![Out(e)].copies[f] = c] /\ taken' = [taken EXCEPT ![e][f] = c]
        /\ Onward(e) /\ lost' = lost
    BY <1>7, <2>0, <2>1 DEF Fill
  <2>3. /\ export'[Out(e)] # NoDirectory /\ export'[Out(e)].seal = export[Out(e)].seal
        /\ export'[Out(e)].copies = [export[Out(e)].copies EXCEPT ![f] = c]
        /\ export[Out(e)].copies \in [Files -> Contents]
    <3>1. Becomes(Out(e), [export[Out(e)] EXCEPT !.copies[f] = c])
      BY <1>2, <2>2, CopyIn DEF Holds
    <3> QED BY <1>2, <3>1 DEF Becomes, Directory
  <2>4. Got(e)' \subseteq Got(e) \cup {f} /\ pc'[e] \in {"copy", "hash", "seal"}
    BY <1>5, <2>0, <2>1, <2>2
  <2>5. \A g \in Files : /\ taken'[e][g] = IF g = f THEN c ELSE taken[e][g]
                         /\ export'[Out(e)].copies[g] = taken'[e][g]
    <3>1. taken'[e] = [taken[e] EXCEPT ![f] = c]
      BY <1>2, <2>2 DEF TypeOK
    <3>2. \A g \in Files : g # f => export[Out(e)].copies[g] = taken[e][g]
      BY <2>1 DEF Holds
    <3> QED BY <1>2, <2>3, <3>1, <3>2
  <2>6. f \in Needed(e) => c # Missing
    <3>1. CASE FixedName(e)
      BY <2>0, <2>1, <3>1 DEF Holds
    <3>2. CASE ~FixedName(e)
      BY <1>3, <2>1, <3>2 DEF Needed
    <3> QED BY <3>1, <3>2
  <2>7. Got(e) \subseteq Files /\ Got(e)' \subseteq Needed(e)
    BY <1>1, NeededFiles DEF Got
  <2>8. /\ \A g \in Got(e)' : taken'[e][g] # Missing
        /\ FixedName(e)' => taken'[e]["body"] # Torn
        /\ Plan(e)'.looks => \A g \in Files : taken'[e][g] \in {Missing, saved'[of'[e]][g]}
    BY <1>1, <1>2, <1>4, <2>1, <2>4, <2>5, <2>6, <2>7 DEF Holds
  <2>9. /\ export'[Out(e)'] # NoDirectory
        /\ export'[Out(e)'].seal = IF pc'[e] = "sealing" THEN "cut" ELSE "none"
        /\ \A g \in Files : export'[Out(e)'].copies[g] = taken'[e][g]
    BY <1>1, <2>0, <2>3, <2>4, <2>5 DEF Holds
  <2> QED BY <2>4, <2>8, <2>9 DEF Holds
<1>8. CASE Hash(e)
  <2>1. /\ pc[e] = "hash" /\ pc'[e] = "seal" /\ UNCHANGED <<export, todo, lost>>
        /\ taken' = [taken EXCEPT ![e] = [f \in Files |->
                     IF f \in Copied(e) THEN export[Out(e)].copies[f] ELSE Missing]]
    BY <1>2, <1>8 DEF Hash, Answer, Goto, AtWork, TypeOK
  <2>2. \A f \in Files : taken'[e][f] = taken[e][f]
    BY <1>2, <2>1 DEF Copied, Holds, TypeOK
  <2>3. Got(e)' = Got(e) /\ Got(e) \subseteq Files
    BY <1>1, <2>1, NeededFiles DEF Got
  <2> QED BY <1>1, <1>2, <2>1, <2>2, <2>3 DEF Holds
<1>9. CASE Seal(e)
  <2>1. /\ pc[e] = "seal" /\ pc'[e] = "sealing" /\ UNCHANGED <<todo, taken>> /\ lost' = lost \ {e}
        /\ export' = [export EXCEPT ![Out(e)].seal = "cut"]
    BY <1>2, <1>9 DEF Seal, Answer, Goto, AtWork, TypeOK
  <2>2. /\ export'[Out(e)] # NoDirectory /\ export'[Out(e)].seal = "cut"
        /\ export'[Out(e)].copies = export[Out(e)].copies
    <3>1. Becomes(Out(e), [export[Out(e)] EXCEPT !.seal = "cut"])
      BY <1>2, <2>1, SealIn DEF Holds
    <3> QED BY <1>2, <3>1 DEF Becomes, Directory
  <2>3. Got(e)' = Got(e)
    BY <1>1, <2>1 DEF Got
  <2> QED BY <1>1, <1>2, <2>1, <2>2, <2>3 DEF Holds
<1>10. ~Validate(e) /\ ~CheckTarget(e) /\ ~ReadManifest(e) /\ ~MakeDirectory(e) /\ ~SealFill(e)
  BY <1>2 DEF Validate, CheckTarget, ReadManifest, MakeDirectory, SealFill, Answer, Goto, AtWork,
      TypeOK
<1> QED BY <1>6, <1>7, <1>8, <1>9, <1>10 DEF Own, Export

WorksInv == \A e \in Exporters : SourceInv(e) /\ WorkInv(e)

\* Nobody touches the directory of an exporter alone at work, but itself.
LEMMA WorkUntouched ==
    ASSUME BaseInv, WorksInv, [Next]_vars, NEW e \in Exporters, AtWork(e), ~Own(e),
           Out(e) \notin undercut'
    PROVE  export'[Out(e)] = export[Out(e)]
<1>1. Alone(e) /\ Holds(e) /\ Out(e) \in Names
  BY StepNames, OutName DEF WorksInv, WorkInv, BaseInv
<1>2. ~Takes(Out(e))
  BY DEF Takes
<1> QED BY <1>1, <1>2, ExportChange DEF Alone, Holds

LEMMA WorkStep ==
    ASSUME BaseInv, WorksInv, [Next]_vars PROVE \A e \in Exporters : WorkInv(e)'
<1> SUFFICES ASSUME NEW e \in Exporters, AtWork(e)', Out(e)' \notin undercut'
             PROVE  Alone(e)' /\ Holds(e)'
  BY DEF WorkInv
<1>1. /\ kind' = kind /\ of' = of /\ Plan(e)' = Plan(e) /\ FixedName(e)' = FixedName(e)
      /\ Out(e)' = Out(e) /\ Needed(e)' = Needed(e) /\ Out(e) \notin undercut
      /\ \A d \in Exporters : Out(d)' = Out(d)
  BY StepNames
<1>2. TypeOK /\ SourceInv(e) /\ of[e] \in Bundles
  BY OutName DEF BaseInv, WorksInv
<1>3. CASE AtWork(e)
  <2>1. Alone(e) /\ Holds(e)
    BY <1>1, <1>3 DEF WorksInv, WorkInv
  <2>2. Alone(e)'
    <3> SUFFICES ASSUME NEW d \in Exporters, AtWork(d)', Out(d) = Out(e) PROVE AtWork(d)
      BY <1>1, <2>1 DEF Alone
    <3> QED BY <2>1, ComesToWork DEF Holds
  <2>3. CASE Own(e)
    BY <1>2, <1>3, <2>1, <2>2, <2>3, OwnHolds
  <2>4. CASE ~Own(e)
    <3>1. Same(e)
      BY <1>2, <2>4, OtherExporters DEF AtWork
    <3>2. export'[Out(e)] = export[Out(e)]
      BY <1>1, <1>3, <2>4, WorkUntouched
    <3>3. Plan(e).looks => saved'[of[e]] = saved[of[e]]
      BY <1>2, <1>3, DoneStays DEF SourceInv, Past
    <3>4. e \notin lost => e \notin lost'
      BY <1>1, <1>2, LostChange
    <3>5. Got(e)' = Got(e)
      BY <1>1, <3>1 DEF Got, Same
    <3>6. Holds(e)'
      BY <1>1, <2>1, <3>1, <3>2, <3>3, <3>4, <3>5 DEF Holds, Same
    <3> QED BY <2>2, <3>6
  <2> QED BY <2>3, <2>4
<1>4. CASE ~AtWork(e)
  <2>1. Own(e) /\ export[Out(e)] = NoDirectory
    BY <1>4, ComesToWork
  <2>2. Alone(e)'
    <3> SUFFICES ASSUME NEW d \in Exporters, AtWork(d)', Out(d) = Out(e), d # e PROVE FALSE
      BY <1>1 DEF Alone
    <3>1. AtWork(d)
      BY <1>2, <2>1, OthersSame DEF Own, Same, AtWork
    <3> QED BY <1>1, <2>1, <3>1 DEF WorksInv, WorkInv, Holds
  <2> QED BY <1>4, <2>2, NewHolds
<1> QED BY <1>3, <1>4

-----------------------------------------------------------------------------
(* What is left behind: an export that is sealed, and one that was         *)
(* answered with.                                                          *)

\* The checksums of a sealed export are those of its finished bundle.
StoreInv(b) ==
    /\ Kinds[kind[b]].xport.looks /\ b \notin undercut
    /\ export[b] # NoDirectory /\ export[b].seal = "whole"
    => /\ saver[b] = "done"
       /\ \A f \in Files : export[b].sums[f] \in {Missing, saved[b][f]}
       /\ \A f \in Triple : export[b].sums[f] # Missing

\* An export that was answered with validates, and nobody is at work on it.
AnsweredInv(e) ==
    Answered(e) /\ e \notin disturbed /\ Out(e) \notin undercut =>
        /\ ExportSound(Out(e), kind[of[e]])
        /\ \A d \in Exporters : AtWork(d) => Out(d) # Out(e)

\* The last step of an exporter alone at work.
LEMMA SealedBy ==
    ASSUME BaseInv, WorksInv, [Next]_vars, NEW d \in Exporters, Own(d), AtWork(d), ~AtWork(d)',
           Out(d) \notin undercut', export'[Out(d)] # export[Out(d)] \/ Answered(d)'
    PROVE  /\ pc[d] = "sealing" /\ pc'[d] = "done" /\ Alone(d) /\ Holds(d) /\ SourceInv(d)
           /\ export'[Out(d)] # NoDirectory /\ export'[Out(d)].seal = "whole"
           /\ \A f \in Files : /\ export'[Out(d)].copies[f] = taken[d][f]
                               /\ export'[Out(d)].sums[f] = taken[d][f]
<1>1. /\ TypeOK /\ PhaseInv(d) /\ Out(d) \in Names /\ export \in Stores
      /\ Alone(d) /\ Holds(d) /\ SourceInv(d) /\ taken[d] \in [Files -> Contents]
  BY StepNames, OutName DEF BaseInv, WorksInv, WorkInv, TypeOK, Stores
<1>2. export[Out(d)] \in Directory
  BY <1>1 DEF Holds, Stores
<1>3. ~Validate(d) /\ ~CheckTarget(d) /\ ~ReadManifest(d) /\ ~MakeDirectory(d)
  BY DEF Validate, CheckTarget, ReadManifest, MakeDirectory, AtWork
<1>4. ~Copy(d) /\ ~Fill(d)
  <2>1. pc[d] \in {"copy", "fill"} /\ Onward(d) => AtWork(d)'
    BY OnwardEffect DEF AtWork
  <2>2. Goto(d, "fill") => AtWork(d)'
    BY <1>1 DEF Goto, AtWork, TypeOK
  <2>3. Answer(d, "raised") => answer'[d] = "raised"
    BY <1>1 DEF Answer, TypeOK
  <2> QED BY <2>1, <2>2, <2>3 DEF Copy, Fill, Answered
<1>5. ~Hash(d) /\ ~Seal(d)
  BY <1>1 DEF Hash, Seal, Goto, Answer, AtWork, Answered, TypeOK
<1>6. SealFill(d) /\ pc[d] = "sealing" /\ Opened(d)
  BY <1>1, <1>3, <1>4, <1>5 DEF Own, Export, SealFill, Opened, Holds
<1>7. /\ pc'[d] = "done"
      /\ export' = [export EXCEPT ![Out(d)] = [@ EXCEPT !.seal = "whole", !.sums = taken[d]]]
  BY <1>1, <1>6 DEF SealFill, Answer, Goto, TypeOK
<1>8. Becomes(Out(d), [export[Out(d)] EXCEPT !.seal = "whole", !.sums = taken[d]])
  BY <1>1, <1>7, SumsIn DEF Holds
<1>9. /\ export'[Out(d)] # NoDirectory /\ export'[Out(d)].seal = "whole"
      /\ export'[Out(d)].copies = export[Out(d)].copies /\ export'[Out(d)].sums = taken[d]
  BY <1>2, <1>8 DEF Becomes, Directory
<1> QED BY <1>1, <1>6, <1>7, <1>9 DEF Holds

LEMMA StoreStep ==
    ASSUME BaseInv, WorksInv, [Next]_vars, \A b \in Bundles : StoreInv(b),
           \A e \in Exporters : WorkInv(e)'
    PROVE  \A b \in Bundles : StoreInv(b)'
<1>1. /\ kind' = kind /\ of' = of /\ undercut \subseteq undercut'
      /\ \A d \in Exporters : Out(d)' = Out(d)
  BY Fixed, SameNames
<1> SUFFICES ASSUME NEW b \in Bundles, Kinds[kind[b]].xport.looks, b \notin undercut',
                    export'[b] # NoDirectory, export'[b].seal = "whole"
             PROVE  /\ saver'[b] = "done"
                    /\ \A f \in Files : export'[b].sums[f] \in {Missing, saved'[b][f]}
                    /\ \A f \in Triple : export'[b].sums[f] # Missing
  BY <1>1 DEF StoreInv
<1>2. StoreInv(b) /\ b \notin undercut /\ b \in Names
  BY <1>1 DEF Names
<1>3. CASE export'[b] = export[b] \/ Takes(b)
  <2>1. export[b] # NoDirectory /\ export[b].seal = "whole" /\ export'[b].sums = export[b].sums
    BY <1>3 DEF Takes
  <2>2. saver[b] = "done" /\ saved'[b] = saved[b] /\ saver'[b] = "done"
    BY <1>2, <2>1, DoneStays DEF StoreInv
  <2> QED BY <1>2, <2>1, <2>2 DEF StoreInv
<1>4. ASSUME NEW d \in Exporters, Out(d) = b, Own(d), export'[b] # export[b],
             (MakeDirectory(d) /\ export[b] = NoDirectory) \/ AtWork(d)
      PROVE  /\ saver'[b] = "done"
             /\ \A f \in Files : export'[b].sums[f] \in {Missing, saved'[b][f]}
             /\ \A f \in Triple : export'[b].sums[f] # Missing
  <2>1. of[d] = b /\ FixedName(d) /\ Plan(d).looks
    BY <1>4, NamesAssumption DEF Out, Plan
  <2>2. ~AtWork(d)'
    <3>1. WorkInv(d)' /\ Out(d)' = b
      BY <1>1, <1>4
    <3> QED BY <3>1 DEF WorkInv, Holds
  <2>3. AtWork(d)
    <3>1. MakeDirectory(d) /\ export[b] = NoDirectory => AtWork(d)'
      BY <1>4 DEF MakeDirectory, Goto, AtWork, BaseInv, TypeOK
    <3> QED BY <1>4, <2>2, <3>1
  <2>4. /\ pc[d] = "sealing" /\ Holds(d) /\ SourceInv(d)
        /\ \A f \in Files : export'[b].sums[f] = taken[d][f]
    BY <1>4, <2>2, <2>3, SealedBy
  <2>5. saver[b] = "done" /\ saved'[b] = saved[b] /\ saver'[b] = "done"
    BY <2>1, <2>3, <2>4, DoneStays DEF SourceInv, Past
  <2>6. Got(d) = Triple /\ Triple \subseteq Files
    BY <2>1, <2>4 DEF Got, Needed, Triple, Files
  <2> QED BY <2>1, <2>4, <2>5, <2>6 DEF Holds
<1> QED BY <1>2, <1>3, <1>4, ExportChange

LEMMA AnsweredStep ==
    ASSUME BaseInv, WorksInv, [Next]_vars, \A e \in Exporters : AnsweredInv(e)
    PROVE  \A e \in Exporters : AnsweredInv(e)'
<1>1. /\ kind' = kind /\ of' = of /\ undercut \subseteq undercut' /\ disturbed \subseteq disturbed'
      /\ \A d \in Exporters : Out(d)' = Out(d)
  BY Fixed, SameNames
<1> SUFFICES ASSUME NEW e \in Exporters, Answered(e)', e \notin disturbed', Out(e) \notin undercut'
             PROVE  /\ ExportSound(Out(e), kind[of[e]])'
                    /\ \A d \in Exporters : AtWork(d)' => Out(d) # Out(e)
  BY <1>1 DEF AnsweredInv
<1>2. /\ TypeOK /\ PhaseInv(e) /\ Out(e) \in Names /\ of[e] \in Bundles
      /\ Out(e) \notin undercut /\ e \notin disturbed /\ AnsweredInv(e)
  BY <1>1, OutName DEF BaseInv
<1>3. CASE Same(e) /\ ~Own(e)
  <2>1. Answered(e) /\ pc[e] = "done"
    BY <1>2, <1>3 DEF Same, Answered, PhaseInv
  <2>2. /\ ExportSound(Out(e), kind[of[e]]) /\ export[Out(e)] # NoDirectory
        /\ \A d \in Exporters : AtWork(d) => Out(d) # Out(e)
    BY <1>2, <2>1 DEF AnsweredInv, ExportSound
  <2>3. ~Takes(Out(e))
    BY <2>1 DEF Takes
  <2>4. export'[Out(e)] = export[Out(e)]
    BY <1>2, <2>2, <2>3, ExportChange
  <2>5. ExportSound(Out(e), kind[of[e]])'
    BY <1>1, <2>2, <2>4 DEF ExportSound
  <2>6. \A d \in Exporters : AtWork(d)' => Out(d) # Out(e)
    BY <2>2, ComesToWork
  <2> QED BY <2>5, <2>6
<1>4. CASE Own(e)
  <2>1. \A d \in Exporters : d # e => (AtWork(d)' <=> AtWork(d))
    BY <1>2, <1>4, OthersSame DEF Own, Same, AtWork
  <2>2. CASE AtWork(e)
    <3>0. ~AtWork(e)'
      BY PhaseStep DEF PhaseInv, Answered, AtWork
    <3>1. /\ pc[e] = "sealing" /\ pc'[e] = "done" /\ Alone(e) /\ Holds(e) /\ SourceInv(e)
          /\ export'[Out(e)] # NoDirectory /\ export'[Out(e)].seal = "whole"
          /\ \A f \in Files : /\ export'[Out(e)].copies[f] = taken[e][f]
                              /\ export'[Out(e)].sums[f] = taken[e][f]
      BY <1>4, <2>2, <3>0, SealedBy
    <3>2. ExportedWell(kind[of[e]]) /\ (Plan(e).looks => saver[of[e]] = "done")
      BY <1>2, <2>2, <3>1, ExporterRow DEF PhaseInv, Past, SourceInv
    <3>3. \A f \in Kinds[kind[of[e]]].exportRequired : f \in Files /\ taken[e][f] # Missing
      <4>1. Got(e) = Needed(e) /\ \A f \in Got(e) : f \in Files /\ taken[e][f] # Missing
        BY <3>1, NeededFiles DEF Got, Holds
      <4>2. Kinds[kind[of[e]]].exportRequired \subseteq Needed(e)
        BY <3>2 DEF ExportedWell, Needed, FixedName, Plan
      <4> QED BY <4>1, <4>2
    <3>4. \A f \in Kinds[kind[of[e]]].exportParsed : f \in Files /\ taken[e][f] # Torn
      <4>1. CASE Plan(e).looks
        <5>1. \A f \in Files : taken[e][f] # Torn
          BY <1>2, <3>1, <3>2, <4>1, DoneWell, TornAssumption DEF Holds, Missing
        <5>2. Kinds[kind[of[e]]].exportParsed \subseteq Files
          BY <3>2, <4>1 DEF ExportedWell, Plan
        <5> QED BY <5>1, <5>2
      <4>2. CASE ~Plan(e).looks
        <5>1. /\ Kinds[kind[of[e]]].exportParsed \subseteq {"body"} /\ "body" \in Files
              /\ ~FixedName(e) => Kinds[kind[of[e]]].exportParsed = {}
          BY <3>2, <4>2 DEF ExportedWell, Plan, FixedName, Files
        <5> QED BY <3>1, <5>1 DEF Holds
      <4> QED BY <4>1, <4>2
    <3>5. ExportSound(Out(e), kind[of[e]])'
      BY <1>1, <3>1, <3>3, <3>4 DEF ExportSound
    <3>6. \A d \in Exporters : AtWork(d)' => Out(d) # Out(e)
      BY <2>1, <3>0, <3>1 DEF Alone
    <3> QED BY <3>5, <3>6
  <2>3. CASE ~AtWork(e)
    <3>1. ~Copy(e) /\ ~Fill(e) /\ ~Hash(e) /\ ~Seal(e) /\ ~SealFill(e)
      BY <2>3 DEF Copy, Fill, Hash, Seal, SealFill, AtWork
    <3>2. ~Validate(e) /\ ~ReadManifest(e) /\ ~MakeDirectory(e)
      BY <1>2 DEF Validate, ReadManifest, MakeDirectory, Answer, Answered, PhaseInv, TypeOK
    <3>3. CheckTarget(e)
      BY <1>4, <3>1, <3>2 DEF Own, Export
    <3>4. /\ ExportSound(Out(e), kind[of[e]]) /\ export' = export /\ pc'[e] = "done"
      BY <1>2, <3>3 DEF CheckTarget, Answer, Goto, Answered, PhaseInv, TypeOK
    <3>5. ExportSound(Out(e), kind[of[e]])'
      BY <1>1, <3>4 DEF ExportSound
    <3>6. \A d \in Exporters : AtWork(d) => Out(d) # Out(e)
      BY <1>2, <3>4 DEF ExportSound, WorksInv, WorkInv, Holds
    <3>7. \A d \in Exporters : AtWork(d)' => Out(d) # Out(e)
      BY <2>1, <3>4, <3>6 DEF AtWork
    <3> QED BY <3>5, <3>7
  <2> QED BY <2>2, <2>3
<1>5. CASE pc[e] \notin {"ready", "done"} /\ pc'[e] = "done" /\ answer'[e] = answer[e]
  BY <1>2, <1>5 DEF PhaseInv, Answered
<1> QED BY <1>2, <1>3, <1>4, <1>5, OtherExporters

-----------------------------------------------------------------------------
(* Pruning.                                                                *)

\* While it archives, lists and deletes, an undisturbed pruner has archived every
\* file that is still there, or has it on its list.
PruneInv(p) ==
    /\ keep[p] /\ p \notin raced /\ prune[p] \in {"archive", "list", "delete"}
    /\ export[name[p]] # NoDirectory
    => \A f \in Files : export[name[p]].copies[f] # Missing =>
           \/ archive[p][f] = export[name[p]].copies[f]
           \/ prune[p] = "archive" /\ f \in listing[p]

\* What a step does to a pruner.
LEMMA OtherPruners ==
    ASSUME TypeOK, [Next]_vars, NEW p \in Pruners
    PROVE  \/ prune'[p] = prune[p] /\ listing'[p] = listing[p] /\ archive'[p] = archive[p]
           \/ Prune(p) /\ UNCHANGED <<source, invoker, raced, kills>>
<1>1. CASE UNCHANGED pruner
  BY <1>1 DEF pruner
<1>2. ASSUME NEW q \in Pruners, Prune(q), q # p
      PROVE  prune'[p] = prune[p] /\ listing'[p] = listing[p] /\ archive'[p] = archive[p]
  BY <1>2 DEF Prune, Select, Gather, Archive, List, Delete, RemoveDirectory, PruneTo, TypeOK
<1> QED BY <1>1, <1>2 DEF Next, vars, Kill

\* A writing exporter races the pruners of its directory.
LEMMA WritersRace ==
    ASSUME NEW d \in Exporters, Own(d), export' # export,
           NEW p \in Pruners, name[p] = Out(d), prune[p] # "ready"
    PROVE  p \in raced'
BY DEF Own, Export, Validate, CheckTarget, ReadManifest, MakeDirectory, Copy, Fill, Hash, Seal,
    SealFill, Writing

LEMMA PruneStep ==
    ASSUME BaseInv, \A p \in Pruners : PruneInv(p), [Next]_vars
    PROVE  \A p \in Pruners : PruneInv(p)'
<1> SUFFICES ASSUME NEW p \in Pruners, keep'[p], p \notin raced', prune'[p] \in {"archive", "list", "delete"},
                    export'[name'[p]] # NoDirectory,
                    NEW f \in Files, export'[name'[p]].copies[f] # Missing
             PROVE  \/ archive'[p][f] = export'[name'[p]].copies[f]
                    \/ prune'[p] = "archive" /\ f \in listing'[p]
  BY DEF PruneInv
<1>0. TypeOK
  BY DEF BaseInv
<1>1. name' = name /\ keep' = keep /\ p \notin raced
  BY Fixed
<1>2. PICK n \in Names : n = name[p]
  BY <1>0 DEF TypeOK
<1>3. CASE prune'[p] = prune[p] /\ listing'[p] = listing[p] /\ archive'[p] = archive[p]
  <2>1. CASE export'[n] = export[n]
    BY <1>1, <1>2, <1>3, <2>1 DEF PruneInv
  <2>2. CASE Takes(n)
    <3>1. export[n] # NoDirectory /\ export'[n].copies[f] = export[n].copies[f]
      BY <1>1, <1>2, <2>2 DEF Takes
    <3> QED BY <1>1, <1>2, <1>3, <3>1 DEF PruneInv
  <2>3. ASSUME NEW d \in Exporters, Out(d) = n, Own(d) PROVE export'[n] = export[n]
    BY <1>2, <1>3, <2>3, WritersRace
  <2> QED BY <2>1, <2>2, <2>3, ExportChange
<1>4. CASE Prune(p)
  <2>1. CASE Select(p)
    BY <1>0, <1>1, <1>2, <2>1 DEF Select, PruneTo
  <2>2. CASE Gather(p)
    <3>1. f # "seal" /\ export' = export /\ prune'[p] = "archive" /\ listing'[p] = Present(n)
      BY <1>0, <1>1, <1>2, <2>2 DEF Gather, PruneTo, Files, TypeOK
    <3> QED BY <1>1, <1>2, <3>1 DEF Present
  <2>3. CASE Archive(p)
    <3>1. export' = export /\ prune[p] = "archive" /\ name' = name
      BY <2>3 DEF Archive
    <3>2. archive[p][f] = export[n].copies[f] \/ f \in listing[p]
      BY <1>1, <1>2, <3>1 DEF PruneInv
    <3>3. CASE listing[p] = {} /\ UNCHANGED <<listing, archive>>
      BY <1>2, <3>1, <3>2, <3>3
    <3>4. CASE listing[p] # {}
      <4>1. PICK g \in listing[p] : g = FirstListed(p)
        <5>1. listing[p] \in SUBSET Listed
          BY <1>0 DEF TypeOK, Listed
        <5> QED BY <3>4, <5>1, OrderPicks DEF FirstListed
      <4>2. f # "seal" /\ f \in Present(n)
        BY <1>2, <3>1 DEF Files, Present
      <4>3. CASE f = g
        <5>1. archive' = [archive EXCEPT ![p][f] = export[n].copies[f]]
          BY <1>1, <1>2, <2>3, <3>1, <3>4, <4>1, <4>2, <4>3 DEF Archive
        <5> QED BY <1>0, <1>2, <3>1, <5>1 DEF TypeOK
      <4>4. CASE f # g
        <5>1. /\ listing'[p] = listing[p] \ {g} /\ prune'[p] = "archive"
              /\ \/ archive' = archive
                 \/ archive' = [archive EXCEPT ![p][g] = export[n].copies[g]]
          BY <1>0, <1>2, <2>3, <3>1, <3>4, <4>1 DEF Archive, PruneTo, TypeOK
        <5>2. archive'[p][f] = archive[p][f]
          BY <1>0, <4>4, <5>1 DEF TypeOK
        <5> QED BY <1>2, <3>1, <3>2, <4>4, <5>1, <5>2
      <4> QED BY <4>3, <4>4
    <3> QED BY <2>3, <3>3, <3>4 DEF Archive
  <2>4. CASE List(p)
    BY <1>0, <1>1, <1>2, <2>4 DEF List, PruneTo, PruneInv, TypeOK
  <2>5. CASE Delete(p)
    <3>1. prune[p] = "delete" /\ prune' = prune /\ archive' = archive
      BY <2>5 DEF Delete
    <3>2. export[n] # NoDirectory /\ export'[n].copies[f] = export[n].copies[f]
      <4>1. export'[n] = export[n] \/ Takes(n)
        BY <1>0, <1>4, PruneEffect
      <4> QED BY <1>1, <1>2, <4>1 DEF Takes
    <3> QED BY <1>1, <1>2, <3>1, <3>2 DEF PruneInv
  <2>6. CASE RemoveDirectory(p)
    BY <1>0, <2>6 DEF RemoveDirectory, PruneTo, TypeOK
  <2> QED BY <1>4, <2>1, <2>2, <2>3, <2>4, <2>5, <2>6 DEF Prune
<1> QED BY <1>0, <1>3, <1>4, OtherPruners

LEMMA UnkeptStep ==
    ASSUME TypeOK, \A p \in Pruners : PruneInv(p), UnracedPruneArchives, [Next]_vars
    PROVE  UnracedPruneArchives'
<1>1. raced \subseteq raced'
  BY Fixed
<1>2. CASE unkept' = unkept
  BY <1>1, <1>2 DEF UnracedPruneArchives
<1>3. ASSUME NEW p \in Pruners, Delete(p), p \in unkept', p \notin unkept PROVE p \in raced
  <2>1. PICK f \in Files \cup {"seal"} : f = LastListed(p)
    <3>1. listing[p] \in SUBSET Listed /\ listing[p] # {}
      BY <1>3 DEF TypeOK, Listed, Delete
    <3> QED BY <3>1, OrderPicks DEF LastListed, Listed
  <2>2. /\ keep[p] /\ f # "seal" /\ export[name[p]] # NoDirectory /\ prune[p] = "delete"
        /\ f \in Present(name[p]) /\ export[name[p]].copies[f] # archive[p][f]
    BY <1>3, <2>1 DEF Delete
  <2>3. f \in Files /\ export[name[p]].copies[f] # Missing
    BY <2>2 DEF Present
  <2> QED BY <2>2, <2>3 DEF PruneInv
<1>4. ASSUME NEW p \in Pruners, Delete(p) PROVE UnracedPruneArchives'
  <2>1. unkept' \subseteq unkept \cup {p}
    BY <1>4 DEF Delete
  <2> QED BY <1>1, <1>3, <1>4, <2>1 DEF UnracedPruneArchives
<1> QED BY <1>2, <1>4 DEF Next, vars, pruner, Kill, Prune, Select, Gather, Archive, List,
    RemoveDirectory

-----------------------------------------------------------------------------
(* Everything together.                                                    *)
BundleInv ==
    /\ BaseInv /\ WorksInv
    /\ \A b \in Bundles : StoreInv(b)
    /\ \A e \in Exporters : AnsweredInv(e)
    /\ \A p \in Pruners : PruneInv(p)
    /\ UnracedPruneArchives

LEMMA InitBundle == Init => BundleInv
<1> SUFFICES ASSUME Init PROVE BundleInv
  OBVIOUS
<1>1. TypeOK
  <2>1. Nothing \in [Files -> Contents] /\ <<>> \in Seq(Files)
    BY DEF Nothing, Missing, Contents
  <2> QED BY <2>1, KillsAssumption DEF Init, TypeOK, Answers
<1>2. \A b \in Bundles : WriteInv(b)
  <2> TAKE b \in Bundles
  <2>1. Len(Writes(b)) \in 1..9
    BY <1>1, BundleRow DEF SavedWell, Writes
  <2>2. next[b] = 1 /\ saver[b] = "between" /\ \A f \in Files : saved[b][f] = 0
    BY DEF Init, Nothing, Missing
  <2>3. \A f \in Files : WroteLast(b, f)
    BY <2>2 DEF WroteLast
  <2>4. 1 \in 1..(Len(Writes(b)) + 1) /\ 1 # Len(Writes(b)) + 1
    BY <2>1
  <2> QED BY <2>2, <2>3, <2>4, Zenon DEF WriteInv
<1>3. \A e \in Exporters : pc[e] = "ready" /\ answer[e] = "none" /\ taken[e] = Nothing
  BY DEF Init
<1>4. \A b \in Bundles : export[b] = NoDirectory
  BY DEF Init, Names
<1>5. \A p \in Pruners : prune[p] = "ready"
  BY DEF Init
<1>6. \A e \in Exporters : ~AtWork(e) /\ ~Answered(e) /\ ~Past(e)
  BY <1>3 DEF AtWork, Answered, Past
<1>7. BaseInv
  BY <1>1, <1>2, <1>3, <1>6 DEF BaseInv, PhaseInv
<1>8. WorksInv
  BY <1>6 DEF WorksInv, SourceInv, WorkInv
<1>9. (\A b \in Bundles : StoreInv(b)) /\ \A e \in Exporters : AnsweredInv(e)
  BY <1>4, <1>6 DEF StoreInv, AnsweredInv
<1>10. (\A p \in Pruners : PruneInv(p)) /\ UnracedPruneArchives
  BY <1>5 DEF PruneInv, UnracedPruneArchives, Init
<1> QED BY <1>7, <1>8, <1>9, <1>10 DEF BundleInv

LEMMA BundleStep == BundleInv /\ [Next]_vars => BundleInv'
<1> SUFFICES ASSUME BundleInv, [Next]_vars PROVE BundleInv'
  OBVIOUS
<1> USE DEF BundleInv
<1>1. TypeOK
  BY DEF BaseInv
<1>2. BaseInv'
  BY TypeStep, WriteStep, PhaseStep DEF BaseInv
<1>3. \A e \in Exporters : SourceInv(e)'
  BY SourceStep DEF WorksInv
<1>4. \A e \in Exporters : WorkInv(e)'
  BY WorkStep
<1>5. WorksInv'
  BY <1>3, <1>4 DEF WorksInv
<1>6. \A b \in Bundles : StoreInv(b)'
  BY <1>4, StoreStep
<1>7. \A e \in Exporters : AnsweredInv(e)'
  BY AnsweredStep
<1>8. (\A p \in Pruners : PruneInv(p)') /\ UnracedPruneArchives'
  BY <1>1, PruneStep, UnkeptStep
<1> QED BY <1>2, <1>5, <1>6, <1>7, <1>8

LEMMA BundleInvariant == Spec => []BundleInv
BY InitBundle, BundleStep, PTL DEF Spec

(* Every variable keeps its type: no write, copy or checksum of a bundle   *)
(* is outside its table, and no exporter runs out of files to copy.        *)
THEOREM BundleTypes == Spec => []TypeOK
<1>1. BundleInv => TypeOK
  BY DEF BundleInv, BaseInv
<1> QED BY <1>1, BundleInvariant, PTL

(* Whatever order its kind writes its files in, and however often, a       *)
(* bundle whose saver finished validates.                                  *)
THEOREM FinishedBundlesValidate == Spec => []SavedBundleValidates
<1>1. BundleInv => SavedBundleValidates
  BY SavedSound DEF BundleInv, SavedBundleValidates
<1> QED BY <1>1, BundleInvariant, PTL

(* An export of a kind that looks first, if it validates, is of a finished *)
(* bundle and holds its files, with any number of savers, exporters,       *)
(* pruners and kills, each write in its two steps: validation before the   *)
(* copy is enough where no pruner deleted from the name under an exporter. *)
THEOREM SoundExports == Spec => []SoundExportHoldsSource
<1>1. BundleInv => SoundExportHoldsSource
  <2> SUFFICES ASSUME BundleInv, NEW b \in Bundles, Kinds[kind[b]].xport.looks,
                      b \notin undercut, ExportSound(b, kind[b])
               PROVE  saver[b] = "done" /\ \A f \in Triple : export[b].copies[f] = saved[b][f]
    BY DEF SoundExportHoldsSource
  <2>1. /\ export[b] # NoDirectory /\ export[b].seal = "whole" /\ Triple \subseteq Files
        /\ \A f \in Files : export[b].sums[f] \in {Missing, export[b].copies[f]}
    BY DEF ExportSound, Triple, Files
  <2>2. /\ saver[b] = "done"
        /\ \A f \in Files : export[b].sums[f] \in {Missing, saved[b][f]}
        /\ \A f \in Triple : export[b].sums[f] # Missing
    BY <2>1 DEF BundleInv, StoreInv
  <2> QED BY <2>1, <2>2
<1> QED BY <1>1, BundleInvariant, PTL

(* A command that answers "exported" or "existing" leaves an export that   *)
(* validates until a pruner deletes from it, with any number of exporters  *)
(* racing it to the name and whatever was killed there before, where no    *)
(* pruner deleted from the name under an exporter.                         *)
THEOREM AnsweredExports == Spec => []AnsweredExportIsSound
<1>1. BundleInv => AnsweredExportIsSound
  BY DEF BundleInv, AnsweredInv, Answered, AnsweredExportIsSound
<1> QED BY <1>1, BundleInvariant, PTL

(* Any number of pruners with --archive, pruning the same directories and  *)
(* skipping what another took, delete only what they archived, unless an   *)
(* exporter wrote into the directory meanwhile.                            *)
THEOREM PruningArchives == Spec => []UnracedPruneArchives
<1>1. BundleInv => UnracedPruneArchives
  BY DEF BundleInv
<1> QED BY <1>1, BundleInvariant, PTL
================================================================================
