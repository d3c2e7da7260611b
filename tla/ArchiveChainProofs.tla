--------------------------- MODULE ArchiveChainProofs ---------------------------
(***************************************************************************)
(* Proofs about ArchiveChain, for any number of operators, candidates,     *)
(* changes, jumps and kills.                                               *)
(*                                                                         *)
(* A document is trusted for what it says of the chain, so the invariant   *)
(* says of every document, from the moment its command has worked it out:  *)
(* its status is backed by what was reached before (Backed).  A copy is    *)
(* trusted for its hash, so the invariant says of every hash, from the     *)
(* moment it is taken: the copy is not older than the plan (FreshInv).     *)
(***************************************************************************)
EXTENDS ArchiveChain, TLAPS

Links == {"review", "dryrun", "validation", "packet", "decision"}

\* What a document d of stage s says of the chain is so, if R was reached.
Backed(s, d, R) ==
    /\ s = "review" /\ d.level = "ready" => d.id # None
    /\ s = "dryrun" /\ d.level = "ready" => d.id # None /\ <<"review", d.id>> \in R
    /\ s = "validation" /\ d.level = "ready" => d.id # None
    /\ s = "packet" /\ d.level = "ready"
          => d.id # None /\ <<"dryrun", d.id>> \in R /\ <<"validation", d.id>> \in R
    /\ s \in {"gate", "report"} /\ d.level # "bad" => \A l \in Links : <<l, d.id>> \in R

\* Nothing on disk or about to be written claims a link that is missing, and what
\* carries the chain on is remembered.
ChainInv ==
    /\ \A s \in Stages : /\ Backed(s, Read(s), reached)
                         /\ Carries(s, Read(s)) => <<s, Read(s).id>> \in reached
    /\ \A o \in Operators : pc[o] \in {"open", "body"} => Backed(at[o], draft[o], reached)
    /\ \A id \in PlanIds :
          /\ <<"dryrun", id>> \in reached => <<"review", id>> \in reached
          /\ <<"packet", id>> \in reached
                => <<"dryrun", id>> \in reached /\ <<"validation", id>> \in reached

\* The candidates of a plan, none younger than what is there at time clk.
Current(d, src, clk) ==
    /\ d.id \in PlanIds /\ d.cands = CandidatesOf(d.id)
    /\ \A c \in Candidates : d.id[c] <= clk /\ (src[c] = 0 \/ d.id[c] <= src[c])

\* No copy with a hash is older than id.
NotOlder(copies, id) == \A c \in Candidates : copies[c] \in Copies => id[c] <= copies[c][1]

Creating == {"make", "copy", "copying", "record", "entries", "file"}

FreshInv ==
    /\ \A c \in Candidates : source[c] <= clock
    /\ body["plan"] \notin {None, Torn} => Current(body["plan"], source, clock)
    /\ \A o \in Operators : /\ (at[o] = "plan" /\ pc[o] \in {"open", "body"}) \/ pc[o] \in Creating
                                  => Current(draft[o], source, clock)
                            /\ pc[o] \in Creating \ {"make"} => NotOlder(sums[o], draft[o].id)
    /\ entries \notin {None, Torn} => NotOlder(entries.sums, entries.id)

\* Where an operator is, and what it has to copy.
StepInv ==
    \A o \in Operators :
        /\ pc[o] \in {"open", "body", "seal"} => at[o] \in Stages
        /\ pc[o] \in Creating \cup {"validate"} => at[o] = "bundle"
        /\ pc[o] \in Creating => draft[o].id \in PlanIds
        /\ pc[o] \in {"copy", "copying"} => todo[o] # {}
        /\ pc[o] = "copying" => sums[o][First(todo[o])] \in Versions \X Versions

IInv == TypeOK /\ StepInv /\ ChainInv /\ FreshInv

-----------------------------------------------------------------------------
(* Documents and levels.                                                    *)
LEMMA ResultDocument ==
    ASSUME NEW id \in PlanIds \cup {None}, NEW level \in Levels, NEW cands \in SUBSET Candidates,
           NEW worst \in {"clean", "warned", "blocked"}, NEW choice \in {"none", "ready", "other"}
    PROVE  Result(id, level, cands, worst, choice) \in Documents
BY DEF Result, Documents

LEMMA ReadDocument ==
    ASSUME TypeOK, NEW s \in Stages
    PROVE  Read(s) \in Documents
<1>1. Nothing \in Documents
  BY DEF Nothing, Documents, Levels
<1>2. body[s] \in Documents \cup {None, Torn}
  BY DEF TypeOK
<1> QED BY <1>1, <1>2 DEF Read

LEMMA WeakestLevel ==
    ASSUME NEW L \in SUBSET Levels
    PROVE  /\ Weakest(L) \in Levels
           /\ Weakest(L) # "bad" => "bad" \notin L
           /\ Weakest(L) = "ready" => L \subseteq {"ready"}
BY DEF Weakest, Levels

LEMMA UnlessLevel ==
    ASSUME NEW good, NEW level \in Levels
    PROVE  /\ Unless(good, level) \in Levels
           /\ Unless(good, level) # "bad" => good /\ level # "bad" /\ Unless(good, level) = level
BY DEF Unless, Levels

LEMMA ArchiveLevelKnown ==
    /\ ArchiveLevel \in Levels
    /\ ArchiveLevel # "bad"
          => /\ ArchiveVerified /\ ReceiptValid /\ PlanValid /\ Read("plan").id = filed
             /\ entries.cands = Read("plan").cands
BY DEF ArchiveLevel, Levels

\* A verified archive has the plan id of its receipt.
LEMMA ArchiveNamed ==
    ASSUME TypeOK, ArchiveVerified
    PROVE  filed \in PlanIds /\ filed # None /\ entries \in EntryDocuments /\ entries.id = filed
           /\ entries \notin {None, Torn}
BY DEF ArchiveVerified, Recorded, TypeOK

LEMMA ArchivedCandidates ==
    ASSUME TypeOK
    PROVE  Archived \in SUBSET Candidates
BY DEF Archived, TypeOK, EntryDocuments

LEMMA StageResults ==
    ASSUME NEW supplied, NEW choice
    PROVE  /\ ResultOf("plan", supplied, choice) = Plan
           /\ ResultOf("receipt", supplied, choice) = Receipt(supplied)
           /\ ResultOf("review", supplied, choice) = Review
           /\ ResultOf("dryrun", supplied, choice) = DryRun(supplied)
           /\ ResultOf("validation", supplied, choice) = Validation
           /\ ResultOf("packet", supplied, choice) = Packet(supplied)
           /\ ResultOf("decision", supplied, choice) = Decision(supplied, choice)
           /\ ResultOf("gate", supplied, choice) = Gate(supplied)
           /\ ResultOf("report", supplied, choice) = Report(supplied)
BY DEF ResultOf

LEMMA WorstKnown ==
    ASSUME TypeOK, NEW d \in Documents
    PROVE  /\ DryRunWorst \in {"clean", "warned", "blocked"}
           /\ PacketWorst(d) \in {"clean", "warned", "blocked"}
           /\ PacketWorst(d) # "blocked" => ArchiveVerified
           /\ GateWorst(d) \in {"clean", "warned", "blocked"}
BY DEF DryRunWorst, PacketWorst, GateWorst, Documents

LEMMA ResultTyped ==
    ASSUME TypeOK, NEW s \in Stages, NEW supplied \in PlanIds \cup {None},
           NEW choice \in {"none", "ready", "other"}
    PROVE  ResultOf(s, supplied, choice) \in Documents
<1>0. \A t \in Stages : /\ Read(t) \in Documents /\ Read(t).id \in PlanIds \cup {None}
                        /\ Read(t).level \in Levels /\ Read(t).cands \in SUBSET Candidates
                        /\ Read(t).worst \in {"clean", "warned", "blocked"}
  BY ReadDocument DEF Documents
<1>1. {"ready", "partial", "bad"} \subseteq Levels /\ ArchiveLevel \in Levels
  BY ArchiveLevelKnown DEF Levels
<1>2. {"plan", "receipt", "review", "dryrun", "validation", "packet", "decision", "gate", "report"}
      = Stages
  BY DEF Stages
<1>3. CASE s = "plan"
  <2>1. source \in PlanIds /\ CandidatesOf(source) \in SUBSET Candidates
    BY DEF TypeOK, CandidatesOf
  <2> QED BY <1>1, <1>3, <2>1, StageResults, ResultDocument DEF Plan, ComputePlanId
<1>4. CASE s = "receipt"
  BY <1>0, <1>1, <1>2, <1>4, StageResults, ResultDocument, UnlessLevel DEF Receipt
<1>5. CASE s = "review"
  BY <1>0, <1>1, <1>2, <1>5, StageResults, ResultDocument, ArchivedCandidates DEF Review
<1>6. CASE s = "dryrun"
  <2>1. Weakest({ArchiveLevel, Read("review").level}) \in Levels
    BY <1>0, <1>1, <1>2, WeakestLevel
  <2>2. DryRunWorst \in {"clean", "warned", "blocked"}
    BY <1>0, <1>2, WorstKnown
  <2>3. \A level \in Levels : Result(supplied, level, Archived, DryRunWorst, "none") \in Documents
    BY <2>2, ResultDocument, ArchivedCandidates
  <2>4. \E level \in {"bad", Weakest({ArchiveLevel, Read("review").level})} :
           DryRun(supplied) = Result(supplied, level, Archived, DryRunWorst, "none")
    BY DEF DryRun, Unless
  <2> QED BY <1>1, <1>6, <2>1, <2>3, <2>4, StageResults
<1>7. CASE s = "validation"
  <2> DEFINE dryrun == Read("dryrun")
             agrees == Whole("dryrun") /\ EvidenceAgrees(dryrun.id)
  <2>1. dryrun.id \in PlanIds \cup {None} /\ dryrun.cands \in SUBSET Candidates
    BY <1>0, <1>2
  <2>2. Unless(agrees, "ready") \in Levels
    BY <1>1, UnlessLevel
  <2>3. Validation = Result(dryrun.id, Unless(agrees, "ready"), dryrun.cands, "clean", "none")
    BY DEF Validation
  <2> HIDE DEF dryrun, agrees
  <2>4. Validation \in Documents
    BY <2>1, <2>2, <2>3, ResultDocument
  <2> QED BY <1>7, <2>4, StageResults
<1>8. CASE s = "packet"
  <2> DEFINE dryrun == Read("dryrun")
             worst == PacketWorst(dryrun)
  <2>1. worst \in {"clean", "warned", "blocked"} /\ dryrun.cands \in SUBSET Candidates
    BY <1>0, <1>2, WorstKnown
  <2>2. \A level \in Levels : Result(supplied, level, dryrun.cands, worst, "none") \in Documents
    BY <2>1, ResultDocument
  <2>3. \E level \in {"bad", "partial", "ready"} :
           Packet(supplied) = Result(supplied, level, dryrun.cands, worst, "none")
    BY DEF Packet, Unless
  <2> QED BY <1>1, <1>8, <2>2, <2>3, StageResults
<1>9. CASE s = "decision"
  BY <1>0, <1>1, <1>2, <1>9, StageResults, ResultDocument, UnlessLevel DEF Decision
<1>10. CASE s = "gate"
  <2> DEFINE worst == GateWorst(Read("decision"))
             lowest == Weakest({ArchiveLevel, Read("review").level,
                                IF worst = "warned" THEN "partial" ELSE "ready"})
  <2>1. lowest \in Levels
    BY <1>0, <1>1, <1>2, WeakestLevel
  <2>2. worst \in {"clean", "warned", "blocked"}
    BY <1>0, <1>2, WorstKnown
  <2>3. \A level \in Levels :
           Result(supplied, level, Read("decision").cands, worst, "none") \in Documents
    BY <1>0, <1>2, <2>2, ResultDocument
  <2>4. \E level \in {"bad", lowest} :
           Gate(supplied) = Result(supplied, level, Read("decision").cands, worst, "none")
    BY DEF Gate, Unless
  <2> QED BY <1>1, <1>10, <2>1, <2>3, <2>4, StageResults
<1>11. CASE s = "report"
  <2> DEFINE lowest == Weakest({ArchiveLevel,
                                IF Read("gate").worst = "warned" THEN "partial" ELSE "ready"})
  <2>1. lowest \in Levels
    BY <1>1, WeakestLevel
  <2>2. \A level \in Levels :
           Result(Read("gate").id, level, Read("gate").cands, Read("gate").worst, "none") \in Documents
    BY <1>0, <1>2, ResultDocument
  <2>3. \E level \in {"bad", lowest} :
           Report(supplied) = Result(Read("gate").id, level, Read("gate").cands, Read("gate").worst,
                                     "none")
    BY DEF Report, Unless
  <2> QED BY <1>1, <1>11, <2>1, <2>2, <2>3, StageResults
<1> QED
  BY <1>2, <1>3, <1>4, <1>5, <1>6, <1>7, <1>8, <1>9, <1>10, <1>11

-----------------------------------------------------------------------------
(* What a command's result claims, from what its evidence claims.           *)
LEMMA ValidationReady ==
    ASSUME TypeOK, Validation.level = "ready"
    PROVE  Validation.id = Read("dryrun").id /\ Validation.id # None
<1>1. Validation.id = Read("dryrun").id
  BY DEF Validation, Result
<1>2. EvidenceAgrees(Read("dryrun").id)
  BY DEF Validation, Result, Unless
<1>3. ArchiveLevel # "bad" /\ Read("plan").id = Read("dryrun").id
  BY <1>2 DEF EvidenceAgrees
<1> QED BY <1>1, <1>3, ArchiveLevelKnown, ArchiveNamed

LEMMA ReadClaims ==
    ASSUME TypeOK, ChainInv, NEW s \in Stages, Read(s).level = "ready",
           s \in {"review", "dryrun", "validation", "packet"}
    PROVE  Read(s).id # None /\ <<s, Read(s).id>> \in reached
<1>1. Backed(s, Read(s), reached) /\ (Carries(s, Read(s)) => <<s, Read(s).id>> \in reached)
  BY DEF ChainInv
<1>2. Read(s).id # None
  BY <1>1 DEF Backed
<1>3. Carries(s, Read(s))
  BY <1>2 DEF Carries
<1> QED BY <1>1, <1>2, <1>3

LEMMA ResultBacked ==
    ASSUME TypeOK, ChainInv, NEW s \in Stages, NEW supplied \in PlanIds \cup {None},
           NEW choice \in {"none", "ready", "other"}
    PROVE  Backed(s, ResultOf(s, supplied, choice), reached)
<1> DEFINE d == ResultOf(s, supplied, choice)
<1>0. {"plan", "receipt", "review", "dryrun", "validation", "packet", "decision", "gate", "report"}
      = Stages
  BY DEF Stages
<1>1. \A t \in Stages : /\ Read(t).id \in PlanIds \cup {None} /\ Read(t).level \in Levels
                        /\ Read(t) \in Documents
  BY ReadDocument DEF Documents
<1>2. {"ready", "partial", "bad"} \subseteq Levels /\ ArchiveLevel \in Levels
  BY ArchiveLevelKnown DEF Levels
<1>3. CASE s \in {"plan", "receipt", "decision"}
  BY <1>3 DEF Backed
<1>4. CASE s = "review"
  <2>1. d.level = ArchiveLevel /\ d.id = Read("plan").id
    BY <1>4, StageResults DEF Review, Result
  <2> QED BY <1>4, <2>1, ArchiveLevelKnown, ArchiveNamed DEF Backed
<1>5. CASE s = "dryrun"
  <2> SUFFICES ASSUME d.level = "ready" PROVE d.id # None /\ <<"review", d.id>> \in reached
    BY <1>5 DEF Backed
  <2> DEFINE sameId == \A id \in {Read("plan").id, Read("receipt").id, filed, Read("review").id} :
                           id = supplied
             lowest == Weakest({ArchiveLevel, Read("review").level})
  <2>1. d = Result(supplied, IF sameId THEN lowest ELSE "bad", Archived, DryRunWorst, "none")
    BY <1>5, StageResults DEF DryRun, Unless
  <2>2. d.id = supplied /\ d.level = IF sameId THEN lowest ELSE "bad"
    BY <2>1 DEF Result
  <2>3. sameId /\ lowest = "ready"
    BY <2>2
  <2>4. Read("review").id = supplied /\ Read("review").level = "ready"
    BY <1>0, <1>1, <1>2, <2>3, WeakestLevel
  <2> QED BY <1>0, <2>2, <2>4, ReadClaims
<1>6. CASE s = "validation"
  BY <1>6, StageResults, ValidationReady DEF Backed
<1>7. CASE s = "packet"
  <2> SUFFICES ASSUME d.level = "ready"
               PROVE  d.id # None /\ <<"dryrun", d.id>> \in reached /\ <<"validation", d.id>> \in reached
    BY <1>7 DEF Backed
  <2>1. /\ d.id = supplied /\ Read("validation") = Validation /\ Validation.level = "ready"
        /\ Read("dryrun").level = "ready" /\ Read("dryrun").id = supplied
        /\ Read("validation").id = supplied
    BY <1>7, StageResults DEF Packet, Result, Unless
  <2> QED BY <1>0, <2>1, ReadClaims
<1>8. CASE s = "gate"
  <2> SUFFICES ASSUME d.level # "bad" PROVE \A l \in Links : <<l, d.id>> \in reached
    BY <1>8 DEF Backed
  <2>1. /\ d.id = supplied /\ Read("decision").choice = "ready" /\ Read("decision").id = supplied
        /\ Read("packet").level = "ready" /\ Read("packet").id = supplied
    BY <1>8, StageResults DEF Gate, Result, Unless
  <2>2. supplied # None /\ <<"packet", supplied>> \in reached
    BY <1>0, <2>1, ReadClaims
  <2>3. <<"decision", supplied>> \in reached
    <3>1. Carries("decision", Read("decision"))
      BY <2>1, <2>2 DEF Carries
    <3> QED BY <1>0, <2>1, <3>1 DEF ChainInv
  <2>4. /\ <<"dryrun", supplied>> \in reached /\ <<"validation", supplied>> \in reached
        /\ <<"review", supplied>> \in reached
    BY <2>2 DEF ChainInv
  <2> QED BY <2>1, <2>2, <2>3, <2>4 DEF Links
<1>9. CASE s = "report"
  <2> SUFFICES ASSUME d.level # "bad" PROVE \A l \in Links : <<l, d.id>> \in reached
    BY <1>9 DEF Backed
  <2>1. d.id = Read("gate").id /\ Read("gate").level # "bad"
    BY <1>9, StageResults DEF Report, Result, Unless
  <2>2. Backed("gate", Read("gate"), reached)
    BY <1>0 DEF ChainInv
  <2> QED BY <2>1, <2>2 DEF Backed
<1> QED
  BY <1>0, <1>3, <1>4, <1>5, <1>6, <1>7, <1>8, <1>9

-----------------------------------------------------------------------------
LEMMA NothingKnown == Nothing \in Documents /\ Nothing.id = None /\ Nothing.level = "bad"
BY DEF Nothing, Documents, Levels

LEMMA InitIInv == Init => IInv
<1> SUFFICES ASSUME Init PROVE IInv
  OBVIOUS
<1>1. 1 \in Versions /\ 0 \in 0..MaxJumps /\ 0 \in 0..MaxKills
  BY BoundsAssumption DEF Versions
<1>2. TypeOK
  <2>1. source \in PlanIds /\ clock \in Versions
    BY <1>1 DEF Init, PlanIds
  <2>2. body \in [Stages -> Documents \cup {None, Torn}] /\ sealed \in [Stages -> BOOLEAN]
        /\ \A s \in Stages : ~sealed[s]
    BY DEF Init
  <2>3. made \in BOOLEAN /\ payload \in [Candidates -> Payloads]
        /\ entries \in EntryDocuments \cup {None, Torn} /\ filed \in PlanIds \cup {None, Torn}
    BY DEF Init, Payloads
  <2>4. at \in [Operators -> Commands \cup {None}] /\ pc \in [Operators -> Steps]
    BY DEF Init, Commands, After, Steps
  <2>5. held \in [Operators -> PlanIds \cup {None}] /\ draft \in [Operators -> Documents]
    BY NothingKnown DEF Init
  <2>6. todo \in [Operators -> SUBSET Candidates] /\ sums \in [Operators -> [Candidates -> Payloads]]
    BY DEF Init, Payloads
  <2>7. reached \subseteq Stages \X PlanIds /\ jumps \in 0..MaxJumps /\ kills \in 0..MaxKills
    BY <1>1 DEF Init
  <2> QED BY <2>1, <2>2, <2>3, <2>4, <2>5, <2>6, <2>7 DEF TypeOK
<1>3. StepInv
  BY DEF Init, StepInv, Creating
<1>4. ChainInv
  <2>1. \A s \in Stages : Read(s) = Nothing
    BY DEF Init, Read
  <2> QED BY <2>1, NothingKnown DEF Init, ChainInv, Backed, Carries
<1>5. FreshInv
  <2>1. \A c \in Candidates : source[c] <= clock
    BY DEF Init
  <2>2. body["plan"] = None
    BY DEF Init, Stages
  <2>3. \A o \in Operators : pc[o] = "idle"
    BY DEF Init
  <2> QED BY <2>1, <2>2, <2>3 DEF Init, FreshInv, Creating
<1> QED BY <1>2, <1>3, <1>4, <1>5 DEF IInv

-----------------------------------------------------------------------------
(* The steps of an operator, and what they leave alone.                     *)
Moves(o) ==
    \/ Evaluate(o) \/ Open(o) \/ WriteBody(o) \/ Seal(o)
    \/ CheckArchiveOut(o) \/ ValidateEvidence(o) \/ MakeDirectory(o)
    \/ BeginCopy(o) \/ EndCopy(o)
    \/ OpenEntries(o) \/ WriteEntries(o) \/ FileReceipt(o)
    \/ \E command \in Commands : Jump(o, command)
    \/ Kill(o)

OthersKept(o) == \A p \in Operators \ {o} :
    /\ at'[p] = at[p] /\ pc'[p] = pc[p] /\ held'[p] = held[p]
    /\ draft'[p] = draft[p] /\ todo'[p] = todo[p] /\ sums'[p] = sums[p]

LEMMA OwnMoves ==
    ASSUME TypeOK, NEW o \in Operators, Moves(o)
    PROVE  OthersKept(o) /\ UNCHANGED world
<1>0. /\ at = [p \in Operators |-> at[p]] /\ pc = [p \in Operators |-> pc[p]]
      /\ held = [p \in Operators |-> held[p]] /\ draft = [p \in Operators |-> draft[p]]
      /\ todo = [p \in Operators |-> todo[p]] /\ sums = [p \in Operators |-> sums[p]]
  BY DEF TypeOK
<1>1. CASE Evaluate(o)
  <2>1. \E d : draft' = [draft EXCEPT ![o] = d]
    BY <1>1 DEF Evaluate
  <2>2. \A p \in Operators \ {o} : draft'[p] = draft[p]
    BY <1>0, <2>1
  <2> QED BY <1>0, <1>1, <2>2 DEF Evaluate, Step, OthersKept
<1>12. CASE Open(o)
  BY <1>0, <1>12 DEF Open, Step, OthersKept
<1>13. CASE WriteBody(o)
  BY <1>0, <1>13 DEF WriteBody, Step, OthersKept
<1>2. CASE Seal(o)
  BY <1>0, <1>2 DEF Seal, Finish, Step, OthersKept
<1>3. CASE CheckArchiveOut(o)
  BY <1>0, <1>3 DEF CheckArchiveOut, Finish, Step, OthersKept
<1>4. CASE ValidateEvidence(o)
  BY <1>0, <1>4 DEF ValidateEvidence, Finish, Step, OthersKept
<1>5. CASE MakeDirectory(o)
  BY <1>0, <1>5 DEF MakeDirectory, Step, OthersKept
<1>6. CASE BeginCopy(o)
  BY <1>0, <1>6 DEF BeginCopy, Step, OthersKept
<1>7. CASE EndCopy(o)
  BY <1>0, <1>7 DEF EndCopy, Step, OthersKept
<1>8. CASE OpenEntries(o) \/ WriteEntries(o)
  BY <1>0, <1>8 DEF OpenEntries, WriteEntries, Step, OthersKept
<1>9. CASE FileReceipt(o)
  BY <1>0, <1>9 DEF FileReceipt, Finish, Step, OthersKept
<1>10. CASE \E command \in Commands : Jump(o, command)
  BY <1>0, <1>10 DEF Jump, OthersKept
<1>11. CASE Kill(o)
  BY <1>0, <1>11 DEF Kill, Step, OthersKept
<1> QED
  BY <1>1, <1>2, <1>3, <1>4, <1>5, <1>6, <1>7, <1>8, <1>9, <1>10, <1>11, <1>12, <1>13 DEF Moves

\* The fixed parts of a state's type, for the steps that follow.
LEMMA TypeParts ==
    ASSUME TypeOK
    PROVE  /\ source \in PlanIds /\ clock \in Versions
           /\ body \in [Stages -> Documents \cup {None, Torn}] /\ sealed \in [Stages -> BOOLEAN]
           /\ payload \in [Candidates -> Payloads]
           /\ at \in [Operators -> Commands \cup {None}] /\ pc \in [Operators -> Steps]
           /\ held \in [Operators -> PlanIds \cup {None}] /\ draft \in [Operators -> Documents]
           /\ todo \in [Operators -> SUBSET Candidates]
           /\ sums \in [Operators -> [Candidates -> Payloads]]
           /\ reached \subseteq Stages \X PlanIds
           /\ jumps \in 0 .. MaxJumps /\ kills \in 0 .. MaxKills
BY DEF TypeOK

LEMMA AfterKnown ==
    /\ Stages \subseteq Commands /\ "bundle" \in Commands
    /\ \A command \in Commands : After[command] \in Commands \cup {None}
BY DEF Commands, After, Stages

LEMMA FinishTyped ==
    ASSUME TypeOK, NEW o \in Operators, at[o] \in Commands, Finish(o)
    PROVE  at' \in [Operators -> Commands \cup {None}] /\ pc' \in [Operators -> Steps]
<1>1. (IF o \in Visitors THEN None ELSE After[at[o]]) \in Commands \cup {None}
  BY AfterKnown
<1>2. pc' \in [Operators -> Steps]
  BY TypeParts DEF Finish, Step, Steps
<1> QED BY <1>1, <1>2, TypeParts DEF Finish

\* A document that carries the chain on names a plan.
LEMMA CarriesPlan ==
    ASSUME NEW s, NEW d \in Documents, Carries(s, d)
    PROVE  d.id \in PlanIds
BY DEF Carries, Documents

LEMMA EvidenceTyped ==
    ASSUME TypeOK, StepInv, NEW o \in Operators,
           Evaluate(o) \/ Open(o) \/ WriteBody(o) \/ Seal(o)
    PROVE  TypeOK'
<1> USE TypeParts
<1>1. CASE Evaluate(o)
  <2>1. PICK choice \in {"ready", "other", "none"} :
           draft' = [draft EXCEPT ![o] = ResultOf(at[o], held[o], choice)]
    BY <1>1 DEF Evaluate
  <2>2. at[o] \in Stages /\ held[o] \in PlanIds \cup {None}
    BY <1>1 DEF Evaluate
  <2>3. draft' \in [Operators -> Documents]
    BY <2>1, <2>2, ResultTyped
  <2>4. pc' \in [Operators -> Steps]
    BY <1>1 DEF Evaluate, Step, Steps
  <2> QED
    BY <1>1, <2>3, <2>4 DEF Evaluate, TypeOK, world, evidence, archive, budgets
<1>2. CASE Open(o)
  <2>1. at[o] \in Stages
    BY <1>2 DEF Open, StepInv
  <2>2. body' \in [Stages -> Documents \cup {None, Torn}] /\ sealed' \in [Stages -> BOOLEAN]
        /\ \A s \in Stages : sealed'[s] => body'[s] \notin {None, Torn}
    BY <1>2, <2>1 DEF Open, TypeOK
  <2>3. pc' \in [Operators -> Steps]
    BY <1>2 DEF Open, Step, Steps
  <2> QED BY <1>2, <2>2, <2>3 DEF Open, TypeOK, world, archive, budgets
<1>3. CASE WriteBody(o)
  <2>1. at[o] \in Stages
    BY <1>3 DEF WriteBody, StepInv
  <2>2. body' \in [Stages -> Documents \cup {None, Torn}] /\ sealed' \in [Stages -> BOOLEAN]
        /\ \A s \in Stages : sealed'[s] => body'[s] \notin {None, Torn}
    BY <1>3, <2>1 DEF WriteBody, TypeOK
  <2>3. pc' \in [Operators -> Steps]
    BY <1>3 DEF WriteBody, Step, Steps
  <2>4. reached' \subseteq Stages \X PlanIds
    BY <1>3, <2>1, CarriesPlan DEF WriteBody
  <2> QED BY <1>3, <2>2, <2>3, <2>4 DEF WriteBody, TypeOK, world, archive, budgets
<1>4. CASE Seal(o)
  <2>1. at[o] \in Stages /\ at[o] \in Commands
    BY <1>4, AfterKnown DEF Seal, StepInv
  <2>2. sealed' \in [Stages -> BOOLEAN] /\ \A s \in Stages : sealed'[s] => body[s] \notin {None, Torn}
    BY <1>4, <2>1 DEF Seal, TypeOK
  <2>3. held' \in [Operators -> PlanIds \cup {None}]
    <3>1. draft[o].id \in PlanIds \cup {None}
      BY DEF Documents
    <3> QED BY <1>4, <3>1 DEF Seal
  <2>4. draft' \in [Operators -> Documents]
    BY <1>4, NothingKnown DEF Seal
  <2>5. at' \in [Operators -> Commands \cup {None}] /\ pc' \in [Operators -> Steps]
    BY <1>4, <2>1, FinishTyped DEF Seal
  <2> QED BY <1>4, <2>2, <2>3, <2>4, <2>5 DEF Seal, TypeOK, world, archive, budgets
<1> QED BY <1>1, <1>2, <1>3, <1>4

LEMMA BundleTyped ==
    ASSUME TypeOK, StepInv, NEW o \in Operators,
           \/ CheckArchiveOut(o) \/ ValidateEvidence(o) \/ MakeDirectory(o)
           \/ BeginCopy(o) \/ EndCopy(o)
           \/ OpenEntries(o) \/ WriteEntries(o) \/ FileReceipt(o)
    PROVE  TypeOK'
<1> USE TypeParts
<1>0. \A c \in Candidates : source[c] \in {0} \cup Versions
  BY DEF PlanIds
<1>1. CASE CheckArchiveOut(o)
  <2>1. at' \in [Operators -> Commands \cup {None}] /\ pc' \in [Operators -> Steps]
    <3>1. at[o] \in Commands
      BY <1>1, AfterKnown DEF CheckArchiveOut
    <3>2. CASE Finish(o)
      BY <3>1, <3>2, FinishTyped
    <3>3. CASE Step(o, "validate") /\ UNCHANGED at
      BY <3>3 DEF Step, Steps
    <3> QED BY <1>1, <3>2, <3>3 DEF CheckArchiveOut
  <2> QED BY <1>1, <2>1 DEF CheckArchiveOut, TypeOK, world, evidence, archive, budgets
<1>2. CASE ValidateEvidence(o)
  <2>1. at' \in [Operators -> Commands \cup {None}] /\ pc' \in [Operators -> Steps]
    <3>1. at[o] \in Commands
      BY <1>2, AfterKnown DEF ValidateEvidence, StepInv
    <3>2. CASE Finish(o)
      BY <3>1, <3>2, FinishTyped
    <3>3. CASE Step(o, "make") /\ UNCHANGED at
      BY <3>3 DEF Step, Steps
    <3> QED BY <1>2, <3>2, <3>3 DEF ValidateEvidence
  <2>2. draft' \in [Operators -> Documents]
    <3>1. Read("plan") \in Documents
      BY ReadDocument DEF Stages
    <3> QED BY <1>2, <3>1 DEF ValidateEvidence
  <2> QED BY <1>2, <2>1, <2>2 DEF ValidateEvidence, TypeOK, world, evidence, archive, budgets
<1>3. CASE MakeDirectory(o)
  <2>1. todo' \in [Operators -> SUBSET Candidates]
    BY <1>3 DEF MakeDirectory, Documents
  <2>2. sums' \in [Operators -> [Candidates -> Payloads]]
    BY <1>3 DEF MakeDirectory, Payloads
  <2>3. pc' \in [Operators -> Steps]
    BY <1>3 DEF MakeDirectory, Step, Steps
  <2> QED BY <1>3, <2>1, <2>2, <2>3 DEF MakeDirectory, TypeOK, world, evidence, budgets
<1>4. CASE BeginCopy(o)
  <2>1. todo[o] # {} /\ First(todo[o]) \in todo[o] /\ First(todo[o]) \in Candidates
    BY <1>4 DEF BeginCopy, StepInv, First
  <2>2. payload' \in [Candidates -> Payloads]
    BY <1>4, <2>1 DEF BeginCopy, Payloads
  <2>3. sums' \in [Operators -> [Candidates -> Payloads]]
    <3> DEFINE c == First(todo[o])
    <3>1. CASE source[c] = 0
      BY <1>4, <3>1 DEF BeginCopy
    <3>2. CASE source[c] # 0
      <4>1. <<source[c], source[c]>> \in Payloads
        BY <1>0, <2>1, <3>2 DEF Payloads, Copies
      <4>2. sums' = [sums EXCEPT ![o][c] = <<source[c], source[c]>>]
        BY <1>4, <3>2 DEF BeginCopy
      <4> QED BY <2>1, <4>1, <4>2
    <3> QED BY <3>1, <3>2
  <2>4. pc' \in [Operators -> Steps]
    BY <1>4 DEF BeginCopy, Step, Steps
  <2> QED BY <1>4, <2>2, <2>3, <2>4 DEF BeginCopy, TypeOK, world, evidence, budgets
<1>5. CASE EndCopy(o)
  <2> DEFINE c == First(todo[o])
             copy == IF payload[c] = Mixed THEN Mixed ELSE <<sums[o][c][1], source[c]>>
  <2>1. c \in Candidates /\ sums[o][c] \in Versions \X Versions
    BY <1>5 DEF EndCopy, StepInv, First
  <2>2. copy \in Payloads
    BY <1>0, <2>1 DEF Payloads, Copies
  <2>3. payload' \in [Candidates -> Payloads]
    BY <1>5, <2>1, <2>2 DEF EndCopy
  <2>4. sums' \in [Operators -> [Candidates -> Payloads]]
    <3>1. PICK x \in {Torn, copy, None} : sums' = [sums EXCEPT ![o][c] = x]
      BY <1>5 DEF EndCopy
    <3>2. x \in Payloads
      BY <2>2 DEF Payloads
    <3> QED BY <2>1, <3>1, <3>2
  <2>5. todo' \in [Operators -> SUBSET Candidates]
    BY <1>5 DEF EndCopy
  <2>6. pc' \in [Operators -> Steps]
    BY <1>5 DEF EndCopy, Step, Steps
  <2> QED BY <1>5, <2>3, <2>4, <2>5, <2>6 DEF EndCopy, TypeOK, world, evidence, budgets
<1>6. CASE OpenEntries(o)
  <2>1. pc' \in [Operators -> Steps]
    BY <1>6 DEF OpenEntries, Step, Steps
  <2> QED BY <1>6, <2>1 DEF OpenEntries, TypeOK, world, evidence, budgets
<1>7. CASE WriteEntries(o)
  <2>1. pc' \in [Operators -> Steps]
    BY <1>7 DEF WriteEntries, Step, Steps
  <2>2. draft[o].id \in PlanIds /\ draft[o].cands \in SUBSET Candidates
        /\ sums[o] \in [Candidates -> Payloads]
    BY <1>7 DEF WriteEntries, StepInv, Creating, Documents
  <2>3. entries' \in EntryDocuments
    BY <1>7, <2>2 DEF WriteEntries, EntryDocuments
  <2> QED BY <1>7, <2>1, <2>3 DEF WriteEntries, TypeOK, world, evidence, budgets
<1>8. CASE FileReceipt(o)
  <2>1. at[o] \in Commands /\ draft[o].id \in PlanIds
    BY <1>8, AfterKnown DEF FileReceipt, StepInv, Creating
  <2>2. at' \in [Operators -> Commands \cup {None}] /\ pc' \in [Operators -> Steps]
    BY <1>8, <2>1, FinishTyped DEF FileReceipt
  <2>3. draft' \in [Operators -> Documents] /\ todo' \in [Operators -> SUBSET Candidates]
    BY <1>8, NothingKnown DEF FileReceipt
  <2>4. sums' \in [Operators -> [Candidates -> Payloads]]
    BY <1>8 DEF FileReceipt, Payloads
  <2> QED BY <1>8, <2>1, <2>2, <2>3, <2>4 DEF FileReceipt, TypeOK, world, evidence, budgets
<1> QED
  BY <1>1, <1>2, <1>3, <1>4, <1>5, <1>6, <1>7, <1>8

LEMMA TypeNext ==
    ASSUME TypeOK, StepInv, [Next]_vars
    PROVE  TypeOK'
<1> USE TypeParts
<1>1. CASE \E o \in Operators : Moves(o)
  <2>1. PICK o \in Operators : Moves(o)
    BY <1>1
  <2>2. CASE \E command \in Commands : Jump(o, command)
    <3>1. PICK command \in Commands : Jump(o, command)
      BY <2>2
    <3>2. Read("plan").id \in PlanIds \cup {None}
      <4>1. Read("plan") \in Documents
        BY ReadDocument DEF Stages
      <4> QED BY <4>1 DEF Documents
    <3>3. at' \in [Operators -> Commands \cup {None}] /\ held' \in [Operators -> PlanIds \cup {None}]
          /\ jumps' \in 0 .. MaxJumps
      BY <3>1, <3>2, BoundsAssumption DEF Jump
    <3> QED BY <3>1, <3>3 DEF Jump, TypeOK, world, evidence, archive
  <2>3. CASE Kill(o)
    <3>1. pc' \in [Operators -> Steps] /\ draft' \in [Operators -> Documents]
      BY <2>3, NothingKnown DEF Kill, Step, Steps
    <3>2. todo' \in [Operators -> SUBSET Candidates] /\ kills' \in 0 .. MaxKills
      BY <2>3, BoundsAssumption DEF Kill
    <3>3. sums' \in [Operators -> [Candidates -> Payloads]]
      BY <2>3 DEF Kill, Payloads
    <3> QED BY <2>3, <3>1, <3>2, <3>3 DEF Kill, TypeOK, world, evidence, archive
  <2> QED BY <2>1, <2>2, <2>3, EvidenceTyped, BundleTyped DEF Moves
<1>2. CASE \E c \in Candidates : Change(c, clock + 1) \/ Change(c, 0)
  <2>1. PICK c \in Candidates, v \in {0, clock + 1} : Change(c, v)
    BY <1>2
  <2>2. clock + 1 \in Versions
    BY <2>1, BoundsAssumption DEF Change, Versions
  <2>3. source' \in PlanIds /\ clock' \in Versions
    BY <2>1, <2>2 DEF Change, PlanIds
  <2> QED BY <2>1, <2>3 DEF Change, TypeOK, evidence, archive, operators, budgets
<1>3. CASE UNCHANGED vars
  BY <1>3 DEF TypeOK, vars, world, evidence, archive, operators, budgets
<1> QED BY <1>1, <1>2, <1>3 DEF Next, Moves, Rest

-----------------------------------------------------------------------------
(* An operator's own place.                                                 *)
LEMMA StepNext ==
    ASSUME TypeOK, StepInv, FreshInv, [Next]_vars
    PROVE  StepInv'
<1> USE TypeParts
<1> DEFINE Placed(p) ==
      /\ pc[p] \in {"open", "body", "seal"} => at[p] \in Stages
      /\ pc[p] \in Creating \cup {"validate"} => at[p] = "bundle"
      /\ pc[p] \in Creating => draft[p].id \in PlanIds
      /\ pc[p] \in {"copy", "copying"} => todo[p] # {}
      /\ pc[p] = "copying" => sums[p][First(todo[p])] \in Versions \X Versions
<1>0. \A p \in Operators : Placed(p)
  BY DEF StepInv
<1>1. CASE \E o \in Operators : Moves(o)
  <2>1. PICK o \in Operators : Moves(o)
    BY <1>1
  <2>2. ASSUME NEW p \in Operators \ {o} PROVE Placed(p)'
    BY <1>0, <2>1, OwnMoves DEF OthersKept
  <2>3. Placed(o)'
    <3>1. CASE Evaluate(o)
      BY <3>1 DEF Evaluate, Step, Creating
    <3>2. CASE Open(o)
      BY <1>0, <3>2 DEF Open, Step, Creating
    <3>3. CASE WriteBody(o)
      BY <1>0, <3>3 DEF WriteBody, Step, Creating
    <3>4. CASE Seal(o) \/ FileReceipt(o) \/ Kill(o) \/ Finish(o)
      BY <3>4 DEF Seal, FileReceipt, Kill, Finish, Step, Creating
    <3>5. CASE CheckArchiveOut(o) /\ ~Finish(o)
      BY <3>5 DEF CheckArchiveOut, Step, Creating
    <3>6. CASE ValidateEvidence(o) /\ ~Finish(o)
      <4>1. body["plan"] \notin {None, Torn}
        BY <3>6 DEF ValidateEvidence, ReceiptValid, PlanValid, Whole, TypeOK, Stages
      <4>2. Read("plan").id \in PlanIds
        BY <4>1 DEF FreshInv, Current, Read
      <4> QED BY <1>0, <3>6, <4>2 DEF ValidateEvidence, Step, Creating
    <3>7. CASE MakeDirectory(o)
      BY <1>0, <3>7 DEF MakeDirectory, Step, Creating
    <3>8. CASE BeginCopy(o)
      <4> DEFINE c == First(todo[o])
      <4>1. c \in Candidates
        BY <1>0, <3>8 DEF BeginCopy, First
      <4>2. CASE source[c] = 0
        BY <1>0, <3>8, <4>2 DEF BeginCopy, Step, Creating
      <4>3. CASE source[c] # 0
        <5>1. sums'[o][c] = <<source[c], source[c]>> /\ pc'[o] = "copying" /\ todo'[o] = todo[o]
          BY <3>8, <4>1, <4>3 DEF BeginCopy, Step
        <5>2. source[c] \in Versions
          BY <4>1, <4>3 DEF PlanIds
        <5> QED BY <1>0, <3>8, <5>1, <5>2 DEF BeginCopy, Creating
      <4> QED BY <4>2, <4>3
    <3>9. CASE EndCopy(o)
      BY <1>0, <3>9 DEF EndCopy, Step, Creating
    <3>10. CASE OpenEntries(o) \/ WriteEntries(o)
      BY <1>0, <3>10 DEF OpenEntries, WriteEntries, Step, Creating
    <3>11. CASE \E command \in Commands : Jump(o, command)
      BY <3>11 DEF Jump, Creating
    <3> QED
      BY <2>1, <3>1, <3>2, <3>3, <3>4, <3>5, <3>6, <3>7, <3>8, <3>9, <3>10, <3>11 DEF Moves
  <2> QED BY <2>2, <2>3 DEF StepInv
<1>2. CASE \/ \E c \in Candidates : Change(c, clock + 1) \/ Change(c, 0)
           \/ UNCHANGED vars
  <2>1. UNCHANGED operators
    BY <1>2 DEF Change, vars
  <2> QED BY <1>0, <2>1 DEF StepInv, operators
<1> QED BY <1>1, <1>2 DEF Next, Moves, Rest

-----------------------------------------------------------------------------
(* What documents claim.                                                    *)
LEMMA BackedGrows ==
    ASSUME NEW s, NEW d, NEW R, NEW R2, Backed(s, d, R), R \subseteq R2
    PROVE  Backed(s, d, R2)
BY DEF Backed

LEMMA PairAdded ==
    ASSUME NEW R, NEW R2, NEW s, NEW id, R2 \subseteq R \cup {<<s, id>>}
    PROVE  \A t, u : <<t, u>> \in R2 => <<t, u>> \in R \/ (t = s /\ u = id)
OBVIOUS

\* Steps that write no document and work none out.
LEMMA ChainFrame ==
    ASSUME ChainInv, UNCHANGED <<body, reached>>,
           \A p \in Operators : pc'[p] \in {"open", "body"} =>
               pc[p] \in {"open", "body"} /\ at'[p] = at[p] /\ draft'[p] = draft[p]
    PROVE  ChainInv'
<1>1. \A s \in Stages : Read(s)' = Read(s)
  BY DEF Read
<1> QED BY <1>1 DEF ChainInv

LEMMA ChainNext ==
    ASSUME TypeOK, StepInv, ChainInv, [Next]_vars
    PROVE  ChainInv'
<1> USE TypeParts
<1>1. CASE \E o \in Operators : Moves(o)
  <2>1. PICK o \in Operators : Moves(o)
    BY <1>1
  <2>2. OthersKept(o)
    BY <2>1, OwnMoves
  <2>3. CASE Evaluate(o)
    <3>1. PICK choice \in {"none", "ready", "other"} :
             draft' = [draft EXCEPT ![o] = ResultOf(at[o], held[o], choice)]
      BY <2>3 DEF Evaluate
    <3>2. at[o] \in Stages /\ held[o] \in PlanIds \cup {None} /\ at' = at /\ reached' = reached
          /\ body' = body
      BY <2>3 DEF Evaluate, evidence
    <3>3. Backed(at[o], ResultOf(at[o], held[o], choice), reached)
      BY <3>2, ResultBacked
    <3>4. Backed(at'[o], draft'[o], reached')
      BY <3>1, <3>2, <3>3
    <3>5. \A p \in Operators : pc'[p] \in {"open", "body"} => Backed(at'[p], draft'[p], reached')
      BY <2>2, <3>2, <3>4 DEF OthersKept, ChainInv
    <3>6. \A s \in Stages : Read(s)' = Read(s)
      BY <3>2 DEF Read
    <3> QED BY <3>2, <3>5, <3>6 DEF ChainInv
  <2>4. CASE Open(o)
    <3>1. at[o] \in Stages /\ at' = at /\ draft' = draft /\ reached' = reached
      BY <2>4 DEF Open, StepInv
    <3>2. \A s \in Stages : Read(s)' = Read(s) \/ Read(s)' = Nothing
      BY <2>4, <3>1 DEF Open, Read
    <3>3. \A s \in Stages : Backed(s, Nothing, reached) /\ ~Carries(s, Nothing)
      BY NothingKnown DEF Backed, Carries
    <3>4. \A s \in Stages : Backed(s, Read(s)', reached')
                            /\ (Carries(s, Read(s)') => <<s, Read(s)'.id>> \in reached')
      BY <3>1, <3>2, <3>3 DEF ChainInv
    <3>5. \A p \in Operators : pc'[p] \in {"open", "body"} => Backed(at'[p], draft'[p], reached')
      BY <2>2, <2>4, <3>1 DEF OthersKept, ChainInv, Open
    <3> QED BY <3>1, <3>4, <3>5 DEF ChainInv
  <2>5. CASE WriteBody(o)
    <3> DEFINE s == at[o]
               d == draft[o]
    <3>1. /\ s \in Stages /\ d \in Documents /\ at' = at /\ draft' = draft /\ reached \subseteq reached'
          /\ pc[o] = "body" /\ pc' = [pc EXCEPT ![o] = "seal"]
          /\ body' = [body EXCEPT ![s] = d]
          /\ reached' = reached \cup (IF Carries(s, d) THEN {<<s, d.id>>} ELSE {})
      BY <2>5 DEF WriteBody, StepInv, Step
    <3>2. Backed(s, d, reached)
      BY <3>1 DEF ChainInv
    <3>3. ASSUME NEW t \in Stages
          PROVE  Backed(t, Read(t)', reached') /\ (Carries(t, Read(t)') => <<t, Read(t)'.id>> \in reached')
      <4>1. CASE t # s
        <5>1. Read(t)' = Read(t)
          BY <3>1, <4>1 DEF Read
        <5> QED BY <3>1, <5>1, BackedGrows DEF ChainInv
      <4>2. CASE t = s
        <5>1. Read(t)' = d \/ Read(t)' = Nothing
          BY <3>1, <4>2 DEF Read
        <5>2. CASE Read(t)' = d
          BY <3>1, <3>2, <4>2, <5>2, BackedGrows
        <5>3. CASE Read(t)' = Nothing
          BY <5>3, NothingKnown DEF Backed, Carries
        <5> QED BY <5>1, <5>2, <5>3
      <4> QED BY <4>1, <4>2
    <3>4. \A p \in Operators : pc'[p] \in {"open", "body"} => Backed(at'[p], draft'[p], reached')
      BY <3>1, BackedGrows DEF ChainInv
    <3>5. ASSUME NEW id \in PlanIds
          PROVE  /\ <<"dryrun", id>> \in reached' => <<"review", id>> \in reached'
                 /\ <<"packet", id>> \in reached'
                       => <<"dryrun", id>> \in reached' /\ <<"validation", id>> \in reached'
      <4>1. ASSUME NEW t, <<t, id>> \in reached', <<t, id>> \notin reached
            PROVE  t = s /\ d.id = id /\ Carries(s, d)
        <5>1. reached' \subseteq reached \cup {<<s, d.id>>}
              /\ (~Carries(s, d) => reached' = reached)
          BY <3>1
        <5>2. \A v, u : <<v, u>> \in reached' => <<v, u>> \in reached \/ (v = s /\ u = d.id)
          <6> HIDE DEF s, d
          <6> QED BY <5>1, PairAdded, Zenon
        <5>3. Carries(s, d)
          BY <4>1, <5>1, Zenon
        <5>4. t = s /\ id = d.id
          BY <4>1, <5>2, Zenon
        <5> QED BY <5>3, <5>4
      <4>2. s = "dryrun" /\ Carries(s, d) => <<"review", d.id>> \in reached
        BY <3>2 DEF Backed, Carries
      <4>3. s = "packet" /\ Carries(s, d)
               => <<"dryrun", d.id>> \in reached /\ <<"validation", d.id>> \in reached
        BY <3>2 DEF Backed, Carries
      <4>4. /\ <<"dryrun", id>> \in reached => <<"review", id>> \in reached
            /\ <<"packet", id>> \in reached
                  => <<"dryrun", id>> \in reached /\ <<"validation", id>> \in reached
        BY DEF ChainInv
      <4> QED BY <3>1, <4>1, <4>2, <4>3, <4>4
    <3> QED BY <3>3, <3>4, <3>5 DEF ChainInv
  <2>6. CASE ~(Evaluate(o) \/ Open(o) \/ WriteBody(o))
    <3>1. CASE Seal(o)
      BY <2>2, <3>1, ChainFrame DEF Seal, Finish, Step, OthersKept
    <3>2. CASE CheckArchiveOut(o)
      BY <2>2, <3>2, ChainFrame DEF CheckArchiveOut, Finish, Step, OthersKept, evidence
    <3>3. CASE ValidateEvidence(o)
      BY <2>2, <3>3, ChainFrame DEF ValidateEvidence, Finish, Step, OthersKept, evidence
    <3>4. CASE MakeDirectory(o)
      BY <2>2, <3>4, ChainFrame DEF MakeDirectory, Step, OthersKept, evidence
    <3>5. CASE BeginCopy(o)
      BY <2>2, <3>5, ChainFrame DEF BeginCopy, Step, OthersKept, evidence
    <3>6. CASE EndCopy(o)
      BY <2>2, <3>6, ChainFrame DEF EndCopy, Step, OthersKept, evidence
    <3>7. CASE OpenEntries(o) \/ WriteEntries(o)
      BY <2>2, <3>7, ChainFrame DEF OpenEntries, WriteEntries, Step, OthersKept, evidence
    <3>8. CASE FileReceipt(o)
      BY <2>2, <3>8, ChainFrame DEF FileReceipt, Finish, Step, OthersKept, evidence
    <3>9. CASE \E command \in Commands : Jump(o, command)
      BY <2>2, <3>9, ChainFrame DEF Jump, OthersKept, evidence
    <3>10. CASE Kill(o)
      BY <2>2, <3>10, ChainFrame DEF Kill, Step, OthersKept, evidence
    <3> QED
      BY <2>1, <2>6, <3>1, <3>2, <3>3, <3>4, <3>5, <3>6, <3>7, <3>8, <3>9, <3>10 DEF Moves
  <2> QED BY <2>3, <2>4, <2>5, <2>6
<1>2. CASE \/ \E c \in Candidates : Change(c, clock + 1) \/ Change(c, 0)
           \/ UNCHANGED vars
  <2>1. UNCHANGED <<evidence, operators, reached>>
    BY <1>2 DEF Change, vars
  <2> QED BY <2>1, ChainFrame DEF evidence, operators
<1> QED BY <1>1, <1>2 DEF Next, Moves, Rest

-----------------------------------------------------------------------------
(* What copies are worth.                                                   *)
FreshDraft(p) ==
    /\ (at[p] = "plan" /\ pc[p] \in {"open", "body"}) \/ pc[p] \in Creating
          => Current(draft[p], source, clock)
    /\ pc[p] \in Creating \ {"make"} => NotOlder(sums[p], draft[p].id)

FreshEntries == entries \notin {None, Torn} => NotOlder(entries.sums, entries.id)

LEMMA NamesAreNoCopies ==
    ASSUME NEW n \in {None, Torn, Mixed}
    PROVE  n \notin Copies
BY NamesAssumption, BoundsAssumption DEF Copies, Versions

\* Versions only grow, so a plan is as current after a change as before it.
LEMMA CurrentKept ==
    ASSUME TypeOK, NEW d, Current(d, source, clock), NEW c \in Candidates, NEW v \in {0, clock + 1},
           Change(c, v)
    PROVE  Current(d, source', clock')
<1>1. source' = [source EXCEPT ![c] = v] /\ clock' = clock + 1 /\ source \in PlanIds
      /\ clock \in Nat /\ d.id \in PlanIds
  BY TypeParts, BoundsAssumption DEF Change, Current, Versions
<1>2. \A e \in Candidates : d.id[e] \in Nat /\ source[e] \in Nat
  BY <1>1, BoundsAssumption DEF PlanIds, Versions
<1>3. ASSUME NEW e \in Candidates
      PROVE  d.id[e] <= clock' /\ (source'[e] = 0 \/ d.id[e] <= source'[e])
  <2>1. d.id[e] <= clock /\ (source[e] = 0 \/ d.id[e] <= source[e])
    BY DEF Current
  <2>2. source'[e] = IF e = c THEN v ELSE source[e]
    BY <1>1 DEF PlanIds
  <2> QED BY <1>1, <1>2, <2>1, <2>2
<1> QED BY <1>1, <1>3 DEF Current

LEMMA FreshMoves ==
    ASSUME TypeOK, StepInv, FreshInv, NEW o \in Operators, Moves(o)
    PROVE  FreshDraft(o)' /\ FreshEntries'
           /\ (body'["plan"] \notin {None, Torn} => Current(body'["plan"], source, clock))
<1> USE TypeParts
<1>0. /\ UNCHANGED <<source, clock>>
      /\ FreshDraft(o) /\ FreshEntries
      /\ body["plan"] \notin {None, Torn} => Current(body["plan"], source, clock)
  BY OwnMoves DEF FreshInv, FreshDraft, FreshEntries, world
<1>1. CASE Evaluate(o)
  <2>1. UNCHANGED <<body, entries, sums, at>> /\ pc'[o] = "open"
    BY <1>1 DEF Evaluate, Step, evidence, archive
  <2>2. at[o] = "plan" => Current(draft'[o], source, clock)
    <3> SUFFICES ASSUME at[o] = "plan" PROVE Current(draft'[o], source, clock)
      OBVIOUS
    <3>1. draft'[o] = Plan
      BY <1>1, StageResults DEF Evaluate
    <3>2. Plan.id = source /\ Plan.cands = CandidatesOf(source)
      BY DEF Plan, Result, ComputePlanId
    <3>3. \A c \in Candidates : source[c] <= clock /\ source[c] \in Nat
      BY BoundsAssumption DEF FreshInv, PlanIds, Versions
    <3> QED BY <3>1, <3>2, <3>3 DEF Current
  <2> QED BY <1>0, <2>1, <2>2 DEF FreshDraft, FreshEntries, Creating
<1>2. CASE Open(o)
  <2>1. at[o] \in Stages
    BY <1>2 DEF Open, StepInv
  <2>2. body'["plan"] \in {body["plan"], Torn}
    BY <1>2, <2>1 DEF Open, Stages
  <2> QED BY <1>0, <1>2, <2>2 DEF Open, Step, FreshDraft, FreshEntries, Creating, archive
<1>3. CASE WriteBody(o)
  <2>1. at[o] \in Stages
    BY <1>3 DEF WriteBody, StepInv
  <2>2. body'["plan"] = body["plan"] \/ (at[o] = "plan" /\ body'["plan"] = draft[o])
    BY <1>3, <2>1 DEF WriteBody, Stages
  <2> QED BY <1>0, <1>3, <2>2 DEF WriteBody, Step, FreshDraft, FreshEntries, Creating, archive
<1>4. CASE Seal(o)
  BY <1>0, <1>4 DEF Seal, Finish, Step, FreshDraft, FreshEntries, Creating, archive
<1>5. CASE CheckArchiveOut(o)
  BY <1>0, <1>5 DEF CheckArchiveOut, Finish, Step, FreshDraft, FreshEntries, Creating, archive,
                    evidence
<1>6. CASE ValidateEvidence(o)
  <2>1. UNCHANGED <<body, entries>> /\ pc'[o] \in {"make", "idle"}
    BY <1>6 DEF ValidateEvidence, Finish, Step, archive, evidence
  <2>2. pc'[o] = "make" => Current(draft'[o], source, clock)
    <3> SUFFICES ASSUME pc'[o] = "make" PROVE Current(draft'[o], source, clock)
      OBVIOUS
    <3>1. draft'[o] = Read("plan") /\ PlanValid
      BY <1>6 DEF ValidateEvidence, Finish, Step, ReceiptValid
    <3>2. body["plan"] \notin {None, Torn}
      BY <3>1 DEF PlanValid, Whole, TypeOK, Stages
    <3> QED BY <1>0, <3>1, <3>2 DEF Read
  <2> QED BY <1>0, <2>1, <2>2 DEF FreshDraft, FreshEntries, Creating
<1>7. CASE MakeDirectory(o)
  <2>1. \A c \in Candidates : sums'[o][c] = None
    BY <1>7 DEF MakeDirectory
  <2>2. NotOlder(sums'[o], draft'[o].id)
    BY <2>1, NamesAreNoCopies DEF NotOlder
  <2> QED BY <1>0, <1>7, <2>2 DEF MakeDirectory, Step, FreshDraft, FreshEntries, Creating, evidence
<1>8. CASE BeginCopy(o)
  <2> DEFINE c == First(todo[o])
  <2>1. c \in Candidates
    BY <1>8 DEF BeginCopy, StepInv, First
  <2>2. UNCHANGED <<body, entries, draft>> /\ pc'[o] \in {"record", "copying"} /\ pc[o] = "copy"
    BY <1>8 DEF BeginCopy, Step, evidence
  <2>3. Current(draft[o], source, clock) /\ NotOlder(sums[o], draft[o].id)
    BY <1>0, <2>2 DEF FreshDraft, Creating
  <2>4. \A e \in Candidates : \/ sums'[o][e] = sums[o][e]
                              \/ e = c /\ source[c] # 0 /\ sums'[o][e] = <<source[c], source[c]>>
    BY <1>8, <2>1 DEF BeginCopy
  <2>5. NotOlder(sums'[o], draft'[o].id)
    BY <2>1, <2>2, <2>3, <2>4 DEF NotOlder, Current
  <2> QED BY <1>0, <2>2, <2>3, <2>5 DEF FreshDraft, FreshEntries, Creating
<1>9. CASE EndCopy(o)
  <2> DEFINE c == First(todo[o])
             copy == IF payload[c] = Mixed THEN Mixed ELSE <<sums[o][c][1], source[c]>>
  <2>1. c \in Candidates /\ sums[o][c] \in Versions \X Versions
    BY <1>9 DEF EndCopy, StepInv, First
  <2>2. UNCHANGED <<body, entries, draft>> /\ pc'[o] \in {"record", "copy"} /\ pc[o] = "copying"
    BY <1>9 DEF EndCopy, Step, evidence
  <2>3. Current(draft[o], source, clock) /\ NotOlder(sums[o], draft[o].id)
    BY <1>0, <2>2 DEF FreshDraft, Creating
  <2>4. sums[o][c] \in Copies
    BY <2>1 DEF Copies
  <2>5. PICK x \in {Torn, copy, None} : sums' = [sums EXCEPT ![o][c] = x]
    BY <1>9 DEF EndCopy
  <2>6. x \in Copies => draft[o].id[c] <= x[1]
    <3>1. draft[o].id[c] <= sums[o][c][1]
      BY <2>1, <2>3, <2>4 DEF NotOlder
    <3>2. x = <<sums[o][c][1], source[c]>> \/ x \notin Copies
      BY NamesAreNoCopies
    <3> QED BY <3>1, <3>2
  <2>7. NotOlder(sums'[o], draft'[o].id)
    BY <2>1, <2>2, <2>3, <2>5, <2>6 DEF NotOlder
  <2> QED BY <1>0, <2>2, <2>3, <2>7 DEF FreshDraft, FreshEntries, Creating
<1>10. CASE OpenEntries(o)
  BY <1>0, <1>10 DEF OpenEntries, Step, FreshDraft, FreshEntries, Creating, evidence
<1>11. CASE WriteEntries(o)
  <2>1. NotOlder(sums[o], draft[o].id)
    BY <1>0, <1>11 DEF WriteEntries, FreshDraft, Creating
  <2>2. entries'.sums = sums[o] /\ entries'.id = draft[o].id
    BY <1>11 DEF WriteEntries
  <2> QED
    BY <1>0, <1>11, <2>1, <2>2 DEF WriteEntries, Step, FreshDraft, FreshEntries, Creating, evidence
<1>12. CASE FileReceipt(o)
  BY <1>0, <1>12 DEF FileReceipt, Finish, Step, FreshDraft, FreshEntries, Creating, evidence
<1>13. CASE \E command \in Commands : Jump(o, command)
  BY <1>0, <1>13 DEF Jump, FreshDraft, FreshEntries, Creating, evidence, archive
<1>14. CASE Kill(o)
  BY <1>0, <1>14 DEF Kill, Step, FreshDraft, FreshEntries, Creating, evidence, archive
<1> QED
  BY <1>1, <1>2, <1>3, <1>4, <1>5, <1>6, <1>7, <1>8, <1>9, <1>10, <1>11, <1>12, <1>13, <1>14 DEF Moves

LEMMA FreshNext ==
    ASSUME TypeOK, StepInv, FreshInv, [Next]_vars
    PROVE  FreshInv'
<1> USE TypeParts
<1>1. CASE \E o \in Operators : Moves(o)
  <2>1. PICK o \in Operators : Moves(o)
    BY <1>1
  <2>2. OthersKept(o) /\ UNCHANGED <<source, clock>>
    BY <2>1, OwnMoves DEF world
  <2>3. \A p \in Operators : FreshDraft(p)'
    <3>1. FreshDraft(o)'
      BY <2>1, FreshMoves
    <3>2. ASSUME NEW p \in Operators \ {o} PROVE FreshDraft(p)'
      BY <2>2 DEF OthersKept, FreshInv, FreshDraft
    <3> QED BY <3>1, <3>2
  <2> QED BY <2>1, <2>2, <2>3, FreshMoves DEF FreshInv, FreshDraft, FreshEntries
<1>2. CASE \E c \in Candidates : Change(c, clock + 1) \/ Change(c, 0)
  <2>1. PICK c \in Candidates, v \in {0, clock + 1} : Change(c, v)
    BY <1>2
  <2>2. UNCHANGED <<body, entries, at, pc, draft, sums>>
    BY <2>1 DEF Change, evidence, archive, operators
  <2>3. \A e \in Candidates : source'[e] <= clock'
    <3>1. source' = [source EXCEPT ![c] = v] /\ clock' = clock + 1 /\ clock \in Nat
      BY <2>1, BoundsAssumption DEF Change, Versions
    <3>2. \A e \in Candidates : source[e] \in Nat /\ source[e] <= clock
      BY BoundsAssumption DEF FreshInv, PlanIds, Versions
    <3>3. \A e \in Candidates : source'[e] = IF e = c THEN v ELSE source[e]
      BY <3>1 DEF PlanIds
    <3> QED BY <3>1, <3>2, <3>3
  <2>4. \A d : Current(d, source, clock) => Current(d, source', clock')
    BY <2>1, CurrentKept
  <2> QED BY <2>2, <2>3, <2>4 DEF FreshInv
<1>3. CASE UNCHANGED vars
  BY <1>3 DEF FreshInv, vars, world, evidence, archive, operators
<1> QED BY <1>1, <1>2, <1>3 DEF Next, Moves, Rest

-----------------------------------------------------------------------------
LEMMA Invariance == Spec => []IInv
<1>1. IInv /\ [Next]_vars => IInv'
  BY TypeNext, StepNext, ChainNext, FreshNext DEF IInv
<1> QED BY InitIInv, <1>1, PTL DEF Spec

\* Every directory, operator and payload keeps to what the commands write,
\* whoever runs, rewrites and kills them.
THEOREM TypeCorrect == Spec => []TypeOK
<1>1. IInv => TypeOK
  BY DEF IInv
<1> QED BY <1>1, Invariance, PTL

\* No gate and no status report that is not a refusal skips a link of the chain,
\* though each command reads only some of the evidence and all of it may be
\* rewritten: every document is backed when it is worked out, and what was
\* reached stays reached.
THEOREM NoLinkSkipped == Spec => []EvidenceChain
<1>1. IInv => EvidenceChain
  <2> SUFFICES ASSUME IInv, NEW s \in {"gate", "report"}, Read(s).level # "bad"
               PROVE  Links \X {Read(s).id} \subseteq reached
    BY DEF EvidenceChain, Links
  <2>1. Backed(s, Read(s), reached)
    BY DEF IInv, ChainInv, Stages
  <2> QED BY <2>1 DEF Backed
<1> QED BY <1>1, Invariance, PTL

\* An archive accepted by the gate, or by a report that finds its gate's plan, has
\* finished copies of all the plan's candidates, none older than the plan: the
\* plan was made before its creator looked, versions only grow, and the hashes
\* were taken by that creator.
THEOREM ArchiveIsFresh == Spec => NoStaleArchive
<1>1. ASSUME IInv, [Next]_vars, NEW o \in Operators, at[o] \in {"gate", "report"}, pc[o] = "idle",
             pc'[o] = "open", draft'[o].level # "bad", Read("plan").id = draft'[o].id,
             NEW c \in CandidatesOf(draft'[o].id)
      PROVE  payload[c] = Mixed \/ (payload[c] \in Copies /\ payload[c][1] >= draft'[o].id[c])
  <2> USE TypeParts
  <2>1. TypeOK /\ FreshInv
    BY <1>1 DEF IInv
  <2>2. Evaluate(o)
    <3>1. CASE \E p \in Operators : Moves(p)
      <4>1. PICK p \in Operators : Moves(p)
        BY <3>1
      <4>2. p = o
        BY <1>1, <2>1, <4>1, OwnMoves DEF OthersKept
      <4> QED
        BY <1>1, <2>1, <4>1, <4>2 DEF Moves, Open, WriteBody, Seal, CheckArchiveOut, ValidateEvidence,
           MakeDirectory, BeginCopy, EndCopy, OpenEntries, WriteEntries, FileReceipt, Jump, Kill
    <3>2. CASE UNCHANGED operators
      BY <1>1, <3>2 DEF operators
    <3> QED BY <1>1, <3>1, <3>2 DEF Next, Moves, Rest, Change, vars
  <2>3. PICK choice \in {"none", "ready", "other"} :
           draft'[o] = ResultOf(at[o], held[o], choice)
    BY <2>1, <2>2 DEF Evaluate
  <2>4. ArchiveLevel # "bad"
    <3>0. \A t \in Stages : Read(t).level \in Levels
      BY <2>1, ReadDocument DEF Documents
    <3>1. ArchiveLevel \in Levels /\ {"partial", "ready"} \subseteq Levels
          /\ Read("review").level \in Levels
      BY <3>0, ArchiveLevelKnown DEF Levels, Stages
    <3>2. CASE at[o] = "gate"
      <4> DEFINE worst == IF GateWorst(Read("decision")) = "warned" THEN "partial" ELSE "ready"
                 lowest == Weakest({ArchiveLevel, Read("review").level, worst})
      <4>1. draft'[o] = Gate(held[o])
        BY <2>3, <3>2, StageResults
      <4>2. Gate(held[o]).level \in {lowest, "bad"}
        BY DEF Gate, Result, Unless
      <4>3. lowest # "bad"
        BY <1>1, <4>1, <4>2
      <4>4. {ArchiveLevel, Read("review").level, worst} \in SUBSET Levels
        BY <3>1
      <4> QED BY <4>3, <4>4, WeakestLevel
    <3>3. CASE at[o] = "report"
      <4> DEFINE worst == IF Read("gate").worst = "warned" THEN "partial" ELSE "ready"
                 lowest == Weakest({ArchiveLevel, worst})
      <4>1. draft'[o] = Report(held[o])
        BY <2>3, <3>3, StageResults
      <4>2. Report(held[o]).level \in {lowest, "bad"}
        BY DEF Report, Result, Unless
      <4>3. lowest # "bad"
        BY <1>1, <4>1, <4>2
      <4>4. {ArchiveLevel, worst} \in SUBSET Levels
        BY <3>1
      <4> QED BY <4>3, <4>4, WeakestLevel
    <3> QED BY <1>1, <3>2, <3>3
  <2>5. /\ ArchiveVerified /\ PlanValid /\ Read("plan").id = filed
        /\ entries.cands = Read("plan").cands
    BY <2>4, ArchiveLevelKnown
  <2>6. entries.id = filed /\ entries \notin {None, Torn}
    BY <2>1, <2>5, ArchiveNamed
  <2>7. Read("plan").cands = CandidatesOf(Read("plan").id)
    <3>1. body["plan"] \notin {None, Torn}
      BY <2>1, <2>5 DEF PlanValid, Whole, TypeOK, Stages
    <3> QED BY <2>1, <3>1 DEF FreshInv, Current, Read
  <2>8. c \in entries.cands /\ c \in Candidates
    BY <1>1, <2>5, <2>7 DEF CandidatesOf
  <2>9. payload[c] = entries.sums[c] /\ entries.sums[c] \in Copies \cup {Mixed}
    BY <2>5, <2>8 DEF ArchiveVerified, PayloadVerified
  <2>10. entries.sums[c] \in Copies => entries.id[c] <= entries.sums[c][1]
    BY <2>1, <2>6, <2>8 DEF FreshInv, NotOlder
  <2> QED BY <1>1, <2>5, <2>6, <2>9, <2>10
<1>2. IInv /\ [Next]_vars
      => [\A o \in Operators :
            at[o] \in {"gate", "report"} /\ pc[o] = "idle" /\ pc'[o] = "open"
            /\ draft'[o].level # "bad"
            => LET id == draft'[o].id IN
               Read("plan").id = id => \A c \in CandidatesOf(id) :
                  payload[c] = Mixed \/ (payload[c] \in Copies /\ payload[c][1] >= id[c])]_vars
  BY <1>1
<1> QED BY <1>2, Invariance, PTL DEF Spec, NoStaleArchive
================================================================================
