------------------------- MODULE ApprovalQueueProofs --------------------------
(***************************************************************************)
(* Proofs about ApprovalQueue, for any proposals, fingerprints, jobs,      *)
(* failing calls and crashes.  For any operators: the types, that a        *)
(* proposal is approved only by a decision to approve it, and that it is   *)
(* filed as pending once.  For one operator at a time (two of them lose    *)
(* proposals, as the run aq_lost_finding shows): nothing that was ever     *)
(* written whole is lost, no content is filed twice, and a decision that   *)
(* was not cut off leaves one copy, under its verdict.                     *)
(***************************************************************************)
EXTENDS ApprovalQueue, TLAPS

TypeInv ==
    /\ TypeOK
    /\ \A o \in Operators : pc[o] \in {"search", "load"} => new[o] \in Decisions

\* The draft being written, and the ones a creation has still to file.
Filing(o) == pc[o] \in {"open", "write"} /\ new[o] = "pending"
Making(o) == drafts[o] \cup (IF Filing(o) THEN {job[o]} ELSE {})

\* A decision keeps its source until the target is written whole.
DecisionInv(o) ==
    /\ pc[o] \in {"open", "write", "unlink"} /\ new[o] # "pending" =>
          src[o] # new[o] /\ Complete(copy[src[o]][job[o]])
    /\ pc[o] = "write" => copy[new[o]][job[o]] = Torn
    /\ pc[o] = "unlink" => new[o] # "pending" /\ Complete(copy[new[o]][job[o]])

\* A creation files fresh proposals, one per fingerprint, and knows every
\* fingerprint on file it could have met.
CreationInv(o) ==
    /\ pc[o] \in {"list", "draft"} \/ Filing(o) =>
          /\ Making(o) \subseteq drawn \ written
          /\ \A x \in drafts[o] : Copies(x) = {}
          /\ \A x, y \in Making(o) : x # y => Fingerprint[x] # Fingerprint[y]
    /\ Filing(o) => job[o] \notin drafts[o] /\ Fingerprint[job[o]] \notin known[o]
    /\ pc[o] = "list" => \A y \in written \ misread : \A j \in 1..(at[o] - 1) :
          Complete(copy[ListOrder[j]][y]) => Fingerprint[y] \in known[o]
    /\ pc[o] = "draft" \/ Filing(o) => \A y \in written \ misread :
          Fingerprint[y] \in known[o] \/ \A x \in Making(o) : Fingerprint[x] # Fingerprint[y]

\* What is on file.
FileInv(o) ==
    /\ written \subseteq drawn
    /\ \A x \in Proposals \ written :
          /\ verdict[x] = "pending"
          /\ \A s \in Statuses : copy[s][x] = Absent \/ (s = "pending" /\ copy[s][x] = Torn)
    /\ \A x \in Proposals \ drawn : Copies(x) = {}
    /\ \A x \in written \ spoiled : Copies(x) =
          {verdict[x]} \cup (IF pc[o] \in {"write", "unlink"} /\ job[o] = x THEN {new[o]} ELSE {})
    /\ \A x, y \in written \ misread : x # y => Fingerprint[x] # Fingerprint[y]

LoneInv(o) == TypeInv /\ NeverLost /\ DecisionInv(o) /\ CreationInv(o) /\ FileInv(o)

-----------------------------------------------------------------------------
(* Types, for any operators.                                                *)
LEMMA Orders ==
    /\ Len(SearchOrder) = 5 /\ Len(ListOrder) = 5
    /\ \A i \in 1..5 : SearchOrder[i] \in Statuses /\ ListOrder[i] \in Statuses
    /\ \A s \in Statuses : \E i \in 1..5 : ListOrder[i] = s
<1>1. Len(SearchOrder) = 5 /\ Len(ListOrder) = 5
  BY DEF SearchOrder, ListOrder
<1>2. \A i \in 1..5 : i = 1 \/ i = 2 \/ i = 3 \/ i = 4 \/ i = 5
  OBVIOUS
<1>3. \A i \in 1..5 : SearchOrder[i] \in Statuses /\ ListOrder[i] \in Statuses
  BY <1>2 DEF SearchOrder, ListOrder, Statuses
<1>4. \A s \in Statuses : \E i \in 1..5 : ListOrder[i] = s
  <2>1. /\ ListOrder[1] = "pending" /\ ListOrder[2] = "approved" /\ ListOrder[3] = "rejected"
        /\ ListOrder[4] = "canceled" /\ ListOrder[5] = "archived"
    BY DEF ListOrder
  <2> QED BY <2>1 DEF Statuses
<1> QED BY <1>1, <1>3, <1>4

LEMMA TypeParts ==
    ASSUME TypeOK
    PROVE  /\ copy \in [Statuses -> [Proposals -> (SUBSET Decisions) \cup {Absent, Torn}]]
           /\ pc \in [Operators -> Phases] /\ job \in [Operators -> Proposals]
           /\ new \in [Operators -> Statuses] /\ src \in [Operators -> Statuses]
           /\ at \in [Operators -> 1..5] /\ loaded \in [Operators -> SUBSET Decisions]
           /\ drafts \in [Operators -> SUBSET Proposals]
           /\ known \in [Operators -> SUBSET {Fingerprint[x] : x \in Proposals}]
           /\ drawn \subseteq Proposals /\ written \subseteq Proposals
           /\ spoiled \subseteq Proposals /\ misread \subseteq Proposals
           /\ verdict \in [Proposals -> Statuses]
           /\ jobs \in 0..MaxJobs /\ faults \in 0..MaxFaults /\ crashes \in 0..MaxCrashes
BY Orders DEF TypeOK

\* A file replaced.
LEMMA CopyChanged ==
    ASSUME TypeOK, NEW t \in Statuses, NEW y \in Proposals,
           NEW c \in (SUBSET Decisions) \cup {Absent, Torn}, copy' = [copy EXCEPT ![t][y] = c]
    PROVE  /\ copy' \in [Statuses -> [Proposals -> (SUBSET Decisions) \cup {Absent, Torn}]]
           /\ \A s \in Statuses, x \in Proposals :
                 copy'[s][x] = IF s = t /\ x = y THEN c ELSE copy[s][x]
BY TypeParts

LEMMA Budgets ==
    ASSUME TypeOK
    PROVE  /\ Fault => faults' \in 0..MaxFaults
           /\ NoFault => faults' \in 0..MaxFaults
           /\ \A o : Begin(o, "list") \/ Begin(o, "search") => jobs' \in 0..MaxJobs
BY BoundsAssumption DEF TypeOK, Fault, NoFault, Begin

LEMMA TypeNext ==
    ASSUME TypeInv, [Next]_vars
    PROVE  TypeInv'
<1> USE TypeParts DEF TypeInv, memory, history, budgets
<1>1. ASSUME NEW o \in Operators, Create(o) PROVE TypeInv'
  <2>1. drafts' \in [Operators -> SUBSET Proposals] /\ drawn' \subseteq Proposals
    BY <1>1 DEF Create
  <2>2. /\ pc' = [pc EXCEPT ![o] = "list"] /\ at' = [at EXCEPT ![o] = 1]
        /\ known' = [known EXCEPT ![o] = {}] /\ jobs' \in 0..MaxJobs
    BY <1>1, Budgets DEF Create, Begin, Goto
  <2> QED BY <1>1, <2>1, <2>2 DEF Create, TypeOK, Phases
<1>2. ASSUME NEW o \in Operators, Decide(o) PROVE TypeInv'
  <2>1. PICK x \in Proposals, s \in Decisions :
           job' = [job EXCEPT ![o] = x] /\ new' = [new EXCEPT ![o] = s]
    BY <1>2 DEF Decide
  <2>2. /\ pc' = [pc EXCEPT ![o] = "search"] /\ at' = [at EXCEPT ![o] = 1] /\ jobs' \in 0..MaxJobs
    BY <1>2, Budgets DEF Decide, Begin, Goto
  <2>3. s \in Statuses
    BY DEF Decisions
  <2> QED BY <1>2, <2>1, <2>2, <2>3 DEF Decide, TypeOK, Phases
<1>3. ASSUME NEW o \in Operators, ListDirectory(o) PROVE TypeInv'
  <2>1. faults' \in 0..MaxFaults
    BY <1>3, Budgets DEF ListDirectory
  <2>2. known' \in [Operators -> SUBSET {Fingerprint[x] : x \in Proposals}] /\ misread' \subseteq Proposals
    <3>1. PICK S \in SUBSET Proposals :
             known' = [known EXCEPT ![o] = known[o] \cup {Fingerprint[x] : x \in S}]
      <4> DEFINE here == {x \in Proposals : Complete(copy[ListOrder[at[o]]][x])}
      <4>1. \/ known' = [known EXCEPT ![o] = known[o] \cup {Fingerprint[x] : x \in here}]
            \/ \E z \in here :
                  known' = [known EXCEPT ![o] = known[o] \cup {Fingerprint[x] : x \in here \ {z}}]
        BY <1>3 DEF ListDirectory
      <4>2. here \in SUBSET Proposals /\ \A z : here \ {z} \in SUBSET Proposals
        OBVIOUS
      <4> HIDE DEF here
      <4> QED BY <4>1, <4>2
    <3>2. misread' \subseteq Proposals
      BY <1>3 DEF ListDirectory
    <3> QED BY <3>1, <3>2
  <2>3. at' \in [Operators -> 1..5]
    <3>1. at' = at \/ (at[o] < 5 /\ at' = [at EXCEPT ![o] = at[o] + 1])
      BY <1>3, Orders DEF ListDirectory
    <3> QED BY <3>1
  <2>4. pc' = pc \/ pc' = [pc EXCEPT ![o] = "draft"]
    BY <1>3 DEF ListDirectory, Goto
  <2> QED BY <1>3, <2>1, <2>2, <2>3, <2>4, Orders DEF ListDirectory, TypeOK, Phases
<1>4. ASSUME NEW o \in Operators, Draft(o) PROVE TypeInv'
  <2>1. CASE Goto(o, "idle") /\ UNCHANGED <<job, new, loaded, drafts>>
    BY <1>4, <2>1 DEF Draft, Goto, TypeOK, Phases
  <2>2. CASE \E x \in drafts[o] :
              /\ drafts' = [drafts EXCEPT ![o] = @ \ {x}]
              /\ \/ UNCHANGED <<pc, job, new, loaded>>
                 \/ /\ job' = [job EXCEPT ![o] = x] /\ new' = [new EXCEPT ![o] = "pending"]
                    /\ loaded' = [loaded EXCEPT ![o] = {}] /\ Goto(o, "open")
    <3>1. PICK x \in drafts[o] :
              /\ drafts' = [drafts EXCEPT ![o] = @ \ {x}]
              /\ \/ UNCHANGED <<pc, job, new, loaded>>
                 \/ /\ job' = [job EXCEPT ![o] = x] /\ new' = [new EXCEPT ![o] = "pending"]
                    /\ loaded' = [loaded EXCEPT ![o] = {}] /\ Goto(o, "open")
      BY <2>2
    <3>2. x \in Proposals /\ "pending" \in Statuses
      BY DEF Statuses
    <3>3. drafts' \in [Operators -> SUBSET Proposals]
      BY <3>1
    <3>4. CASE UNCHANGED <<pc, job, new, loaded>>
      BY <1>4, <3>3, <3>4 DEF Draft, TypeOK
    <3>5. CASE /\ job' = [job EXCEPT ![o] = x] /\ new' = [new EXCEPT ![o] = "pending"]
               /\ loaded' = [loaded EXCEPT ![o] = {}] /\ Goto(o, "open")
      BY <1>4, <3>2, <3>3, <3>5 DEF Draft, Goto, TypeOK, Phases
    <3> QED BY <3>1, <3>4, <3>5
  <2> QED BY <1>4, <2>1, <2>2 DEF Draft
<1>5. ASSUME NEW o \in Operators, Search(o) PROVE TypeInv'
  <2>1. /\ src' \in [Operators -> Statuses] /\ at' \in [Operators -> 1..5]
        /\ \/ pc' = pc
           \/ pc' = [pc EXCEPT ![o] = "load"]
           \/ pc' = [pc EXCEPT ![o] = "idle"]
    <3>1. CASE copy[SearchOrder[at[o]]][job[o]] # Absent
      <4>1. at[o] \in 1..5 /\ SearchOrder[at[o]] \in Statuses
        BY Orders
      <4>2. /\ src' = [src EXCEPT ![o] = SearchOrder[at[o]]] /\ at' = at
            /\ pc' = [pc EXCEPT ![o] = "load"]
        BY <1>5, <3>1, Zenon DEF Search, Goto
      <4> QED BY <4>1, <4>2
    <3>2. CASE copy[SearchOrder[at[o]]][job[o]] = Absent
      <4>1. \/ at[o] < 5 /\ at' = [at EXCEPT ![o] = at[o] + 1] /\ pc' = pc
            \/ at' = at /\ pc' = [pc EXCEPT ![o] = "idle"]
        BY <1>5, <3>2, Orders DEF Search, Goto
      <4>2. src' = src
        BY <1>5, <3>2 DEF Search
      <4>3. at' \in [Operators -> 1..5]
        <5>0. at \in [Operators -> 1..5] /\ at[o] \in 1..5
          OBVIOUS
        <5>1. CASE at[o] < 5 /\ at' = [at EXCEPT ![o] = at[o] + 1]
          <6>1. at[o] + 1 \in 1..5
            BY <5>0, <5>1
          <6> QED BY <5>0, <5>1, <6>1, Zenon
        <5>2. CASE at' = at
          BY <5>2
        <5> QED BY <4>1, <5>1, <5>2
      <4> QED BY <4>1, <4>2, <4>3
    <3> QED BY <3>1, <3>2
  <2> QED BY <1>5, <2>1, Orders DEF Search, TypeOK, Phases
<1>6. ASSUME NEW o \in Operators, Load(o) PROVE TypeInv'
  <2>1. loaded' \in [Operators -> SUBSET Decisions]
    BY <1>6 DEF Load, Complete
  <2>2. pc' = [pc EXCEPT ![o] = "open"] \/ pc' = [pc EXCEPT ![o] = "idle"]
    BY <1>6 DEF Load, Goto
  <2>3. faults' \in 0..MaxFaults
    BY <1>6, Budgets DEF Load
  <2> QED BY <1>6, <2>1, <2>2, <2>3 DEF Load, TypeOK, Phases
<1>7. ASSUME NEW o \in Operators, OpenTarget(o) PROVE TypeInv'
  <2>1. copy' = copy \/ copy' = [copy EXCEPT ![new[o]][job[o]] = Torn]
    BY <1>7 DEF OpenTarget
  <2>2. copy' \in [Statuses -> [Proposals -> (SUBSET Decisions) \cup {Absent, Torn}]]
    <3>1. new[o] \in Statuses /\ job[o] \in Proposals
      OBVIOUS
    <3> QED BY <2>1, <3>1, CopyChanged, Zenon
  <2>3. pc' = [pc EXCEPT ![o] = "write"] \/ pc' = [pc EXCEPT ![o] = "idle"]
    BY <1>7 DEF OpenTarget, Goto
  <2>4. faults' \in 0..MaxFaults
    BY <1>7, Budgets DEF OpenTarget
  <2> QED BY <1>7, <2>2, <2>3, <2>4 DEF OpenTarget, TypeOK, Phases
<1>8. ASSUME NEW o \in Operators, Write(o) PROVE TypeInv'
  <2>1. copy' = copy \/ copy' = [copy EXCEPT ![new[o]][job[o]] = loaded[o]]
    BY <1>8 DEF Write
  <2>2. copy' \in [Statuses -> [Proposals -> (SUBSET Decisions) \cup {Absent, Torn}]]
    <3>1. new[o] \in Statuses /\ job[o] \in Proposals /\ loaded[o] \in SUBSET Decisions
      OBVIOUS
    <3> QED BY <2>1, <3>1, CopyChanged, Zenon
  <2>3. \E phase \in {"draft", "unlink", "idle"} : pc' = [pc EXCEPT ![o] = phase]
    BY <1>8 DEF Write, Goto
  <2>4. faults' \in 0..MaxFaults /\ written' \subseteq Proposals /\ spoiled' \subseteq Proposals
    BY <1>8, Budgets DEF Write, Spoil
  <2> QED BY <1>8, <2>2, <2>3, <2>4 DEF Write, TypeOK, Phases
<1>9. ASSUME NEW o \in Operators, Unlink(o) PROVE TypeInv'
  <2>1. copy' = copy \/ copy' = [copy EXCEPT ![src[o]][job[o]] = Absent]
    BY <1>9 DEF Unlink
  <2>2. copy' \in [Statuses -> [Proposals -> (SUBSET Decisions) \cup {Absent, Torn}]]
    BY <2>1, CopyChanged
  <2>3. pc' = [pc EXCEPT ![o] = "idle"] /\ verdict' = [verdict EXCEPT ![job[o]] = new[o]]
    BY <1>9 DEF Unlink, Goto
  <2>4. faults' \in 0..MaxFaults /\ spoiled' \subseteq Proposals
    BY <1>9, Budgets DEF Unlink, Spoil
  <2> QED BY <1>9, <2>2, <2>3, <2>4 DEF Unlink, TypeOK, Phases
<1>10. ASSUME NEW o \in Operators, Crash(o) PROVE TypeInv'
  <2>1. /\ pc' = [pc EXCEPT ![o] = "idle"] /\ crashes' \in 0..MaxCrashes /\ spoiled' \subseteq Proposals
    BY <1>10, BoundsAssumption DEF Crash, Goto, Spoil
  <2> QED BY <1>10, <2>1 DEF Crash, TypeOK, Phases
<1>11. CASE UNCHANGED vars
  BY <1>11 DEF vars, TypeOK
<1> QED
  BY <1>1, <1>2, <1>3, <1>4, <1>5, <1>6, <1>7, <1>8, <1>9, <1>10, <1>11, Zenon DEF Next, Step

LEMMA TypeInit == Init => TypeInv
<1> SUFFICES ASSUME Init PROVE TypeInv
  OBVIOUS
<1>1. /\ copy \in [Statuses -> [Proposals -> (SUBSET Decisions) \cup {Absent, Torn}]]
      /\ at \in [Operators -> 1..Len(SearchOrder)]
  BY Orders DEF Init
<1> QED BY <1>1, BoundsAssumption DEF Init, TypeInv, TypeOK, Phases, Statuses

-----------------------------------------------------------------------------
(* One operator.                                                            *)

\* Steps that write no file.
LEMMA FilesKept ==
    ASSUME NEW o \in Operators, LoneInv(o), UNCHANGED <<copy, written, verdict>>,
           drawn \subseteq drawn', misread \subseteq misread', spoiled \subseteq spoiled',
           pc'[o] \notin {"write", "unlink"},
           pc[o] \in {"write", "unlink"} => job[o] \in spoiled'
    PROVE  FileInv(o)' /\ NeverLost'
<1>1. \A x : Copies(x)' = Copies(x)
  BY DEF Copies
<1>2. NeverLost'
  BY DEF LoneInv, NeverLost
<1> QED BY <1>1, <1>2 DEF LoneInv, FileInv

LEMMA CreateKept ==
    ASSUME NEW o \in Operators, LoneInv(o), Create(o)
    PROVE  DecisionInv(o)' /\ CreationInv(o)' /\ FileInv(o)' /\ NeverLost'
<1> USE TypeParts DEF LoneInv, TypeInv
<1>1. PICK D \in (SUBSET (Proposals \ drawn)) \ {{}} :
         /\ \A x, y \in D : Fingerprint[x] = Fingerprint[y] => x = y
         /\ drafts' = [drafts EXCEPT ![o] = D] /\ drawn' = drawn \cup D
  BY DEF Create
<1>2. /\ UNCHANGED <<copy, written, verdict, misread, spoiled>> /\ pc[o] = "idle"
      /\ pc'[o] = "list" /\ at'[o] = 1 /\ drafts'[o] = D
  BY <1>1 DEF Create, Begin, Goto
<1>3. FileInv(o)' /\ NeverLost'
  BY <1>1, <1>2, FilesKept
<1>4. DecisionInv(o)'
  BY <1>2 DEF DecisionInv
<1>5. Making(o)' = D /\ ~Filing(o)'
  BY <1>2 DEF Making, Filing
<1>6. D \subseteq drawn' \ written' /\ \A x \in D : Copies(x)' = {}
  BY <1>1, <1>2 DEF FileInv, Copies
<1>7. CreationInv(o)'
  BY <1>1, <1>2, <1>5, <1>6 DEF CreationInv
<1> QED BY <1>3, <1>4, <1>7

LEMMA DecideKept ==
    ASSUME NEW o \in Operators, LoneInv(o), Decide(o) \/ Search(o)
    PROVE  DecisionInv(o)' /\ CreationInv(o)' /\ FileInv(o)' /\ NeverLost'
<1> USE TypeParts DEF LoneInv, TypeInv
<1>1. /\ UNCHANGED <<copy, written, verdict, misread, spoiled, drawn>> /\ pc[o] \in {"idle", "search"}
      /\ pc'[o] \in {"search", "load", "idle"}
  BY DEF Decide, Search, Begin, Goto, history
<1>2. FileInv(o)' /\ NeverLost'
  BY <1>1, FilesKept
<1> QED BY <1>1, <1>2 DEF DecisionInv, CreationInv, Filing

LEMMA LoadKept ==
    ASSUME NEW o \in Operators, LoneInv(o), Load(o)
    PROVE  DecisionInv(o)' /\ CreationInv(o)' /\ FileInv(o)' /\ NeverLost'
<1> USE TypeParts DEF LoneInv, TypeInv
<1>1. /\ UNCHANGED <<copy, written, verdict, misread, spoiled, drawn, new, job, src>> /\ pc[o] = "load"
      /\ pc'[o] = "idle" \/ (/\ pc'[o] = "open" /\ src[o] # new[o]
                            /\ Complete(copy[src[o]][job[o]]))
  BY DEF Load, Goto, history
<1>2. FileInv(o)' /\ NeverLost'
  BY <1>1, FilesKept
<1>3. new[o] # "pending"
  BY <1>1 DEF Decisions
<1> QED BY <1>1, <1>2, <1>3 DEF DecisionInv, CreationInv, Filing

LEMMA CrashKept ==
    ASSUME NEW o \in Operators, LoneInv(o), Crash(o)
    PROVE  DecisionInv(o)' /\ CreationInv(o)' /\ FileInv(o)' /\ NeverLost'
<1> USE TypeParts DEF LoneInv, TypeInv
<1>1. /\ UNCHANGED <<copy, written, verdict, misread, drawn>> /\ pc'[o] = "idle"
      /\ spoiled \subseteq spoiled'
      /\ pc[o] \in {"write", "unlink"} => job[o] \in spoiled'
  BY DEF Crash, Goto, Spoil
<1>2. FileInv(o)' /\ NeverLost'
  BY <1>1, FilesKept
<1> QED BY <1>1, <1>2 DEF DecisionInv, CreationInv, Filing

\* A listing knows what it could read of the directories it has passed.
LEMMA ListKept ==
    ASSUME NEW o \in Operators, LoneInv(o), ListDirectory(o)
    PROVE  DecisionInv(o)' /\ CreationInv(o)' /\ FileInv(o)' /\ NeverLost'
<1> USE TypeParts DEF LoneInv, TypeInv
<1> DEFINE here == {x \in Proposals : Complete(copy[ListOrder[at[o]]][x])}
<1>0. at[o] \in 1..5
  OBVIOUS
<1>1. /\ UNCHANGED <<copy, written, verdict, spoiled, drawn, new, job, drafts>> /\ pc[o] = "list"
      /\ misread \subseteq misread'
  BY DEF ListDirectory
<1>2. \A y \in here \ misread' : Fingerprint[y] \in known'[o]
  <2>1. CASE known' = [known EXCEPT ![o] = known[o] \cup {Fingerprint[x] : x \in here}]
    BY <2>1
  <2>2. CASE \E x \in here :
                /\ known' = [known EXCEPT ![o] = known[o] \cup {Fingerprint[y] : y \in here \ {x}}]
                /\ misread' = misread \cup {x}
    <3>1. PICK x \in here :
                /\ known' = [known EXCEPT ![o] = known[o] \cup {Fingerprint[y] : y \in here \ {x}}]
                /\ misread' = misread \cup {x}
      BY <2>2
    <3> QED BY <3>1
  <2> QED BY <2>1, <2>2 DEF ListDirectory
<1>3. known[o] \subseteq known'[o]
  BY DEF ListDirectory
<1>4. \/ pc'[o] = "list" /\ at[o] < 5 /\ at'[o] = at[o] + 1
      \/ pc'[o] = "draft" /\ at[o] = 5
  BY Orders DEF ListDirectory, Goto
<1>5. FileInv(o)' /\ NeverLost'
  BY <1>1, <1>4, FilesKept
<1>6. DecisionInv(o)'
  BY <1>4 DEF DecisionInv
<1>7. \A y \in written \ misread' : \A j \in 1..at[o] :
         Complete(copy[ListOrder[j]][y]) => Fingerprint[y] \in known'[o]
  <2> SUFFICES ASSUME NEW y \in written \ misread', NEW j \in 1..at[o], Complete(copy[ListOrder[j]][y])
               PROVE  Fingerprint[y] \in known'[o]
    OBVIOUS
  <2>1. CASE j = at[o]
    BY <1>2, <2>1
  <2>2. CASE j # at[o]
    <3>1. j \in 1..(at[o] - 1)
      BY <1>0, <2>2
    <3>2. y \in written \ misread
      BY <1>1
    <3> QED BY <1>1, <1>3, <3>1, <3>2 DEF CreationInv
  <2> QED BY <2>1, <2>2
<1>8. Making(o)' = Making(o) /\ ~Filing(o)' /\ ~Filing(o) /\ drafts'[o] = drafts[o]
      /\ \A x : Copies(x)' = Copies(x)
  BY <1>1, <1>4 DEF Making, Filing, Copies
<1>11. /\ Making(o)' \subseteq drawn' \ written'
       /\ \A x \in drafts'[o] : Copies(x)' = {}
       /\ \A x, y \in Making(o)' : x # y => Fingerprint[x] # Fingerprint[y]
  BY <1>1, <1>8 DEF CreationInv
<1>9. CASE pc'[o] = "list"
  <2>1. at'[o] - 1 = at[o]
    BY <1>0, <1>4, <1>9
  <2>2. \A y \in written' \ misread' : \A j \in 1..(at'[o] - 1) :
           Complete(copy[ListOrder[j]][y])' => Fingerprint[y] \in known'[o]
    BY <1>1, <1>7, <2>1 DEF Complete
  <2>3. ~Filing(o)' /\ pc'[o] # "draft"
    BY <1>8, <1>9
  <2> QED BY <1>5, <1>6, <1>11, <2>2, <2>3, Zenon DEF CreationInv
<1>10. CASE pc'[o] = "draft"
  <2>1. \A y \in written \ misread' : Fingerprint[y] \in known'[o]
    <3> SUFFICES ASSUME NEW y \in written \ misread' PROVE Fingerprint[y] \in known'[o]
      OBVIOUS
    <3>1. PICK s \in Statuses : Complete(copy[s][y])
      BY DEF NeverLost
    <3>2. PICK j \in 1..5 : ListOrder[j] = s
      BY Orders
    <3>3. at[o] = 5
      BY <1>4, <1>10
    <3> QED BY <1>7, <3>1, <3>2, <3>3
  <2>2. written' = written /\ ~Filing(o)' /\ pc'[o] # "list"
    BY <1>1, <1>8, <1>10
  <2> QED BY <1>5, <1>6, <1>11, <2>1, <2>2 DEF CreationInv
<1> QED BY <1>4, <1>9, <1>10

LEMMA DraftKept ==
    ASSUME NEW o \in Operators, LoneInv(o), Draft(o)
    PROVE  DecisionInv(o)' /\ CreationInv(o)' /\ FileInv(o)' /\ NeverLost'
<1> USE TypeParts DEF LoneInv, TypeInv
<1>1. /\ UNCHANGED <<copy, written, verdict, misread, spoiled, drawn, known>> /\ pc[o] = "draft"
      /\ pc'[o] \in {"idle", "draft", "open"}
  BY DEF Draft, Goto, history
<1>2. FileInv(o)' /\ NeverLost'
  BY <1>1, FilesKept
<1>3. CASE pc'[o] = "idle"
  BY <1>2, <1>3 DEF DecisionInv, CreationInv, Filing
<1>4. CASE pc'[o] # "idle"
  <2>1. PICK x \in drafts[o] :
           /\ drafts'[o] = drafts[o] \ {x}
           /\ \/ Fingerprint[x] \in known[o] /\ pc'[o] = "draft"
              \/ /\ Fingerprint[x] \notin known[o] /\ pc'[o] = "open"
                 /\ job'[o] = x /\ new'[o] = "pending"
    BY <1>1, <1>4 DEF Draft, Goto
  <2>2. /\ Making(o) = drafts[o] /\ Making(o)' \subseteq drafts[o]
        /\ \A y : Copies(y)' = Copies(y)
    BY <1>1, <2>1 DEF Making, Filing, Copies
  <2>3. DecisionInv(o)'
    BY <2>1 DEF DecisionInv
  <2>4. /\ Making(o)' \subseteq drawn' \ written'
        /\ \A y \in drafts'[o] : Copies(y)' = {}
        /\ \A y, z \in Making(o)' : y # z => Fingerprint[y] # Fingerprint[z]
        /\ \A y \in written' \ misread' :
              Fingerprint[y] \in known'[o] \/ \A z \in Making(o)' : Fingerprint[z] # Fingerprint[y]
    BY <1>1, <2>1, <2>2 DEF CreationInv
  <2>5. Filing(o)' => job'[o] \notin drafts'[o] /\ Fingerprint[job'[o]] \notin known'[o]
    BY <1>1, <2>1 DEF Filing
  <2>6. pc'[o] # "list"
    BY <2>1
  <2>7. CreationInv(o)'
    BY <2>4, <2>5, <2>6 DEF CreationInv
  <2> QED BY <1>2, <2>3, <2>7
<1> QED BY <1>3, <1>4

\* What a decision works on was written, what a creation files was not.
LEMMA JobWritten ==
    ASSUME NEW o \in Operators, LoneInv(o), pc[o] \in {"open", "write", "unlink"}
    PROVE  /\ job[o] \in drawn
           /\ new[o] = "pending" <=> job[o] \notin written
           /\ new[o] = "pending" <=> Filing(o)
<1> USE TypeParts DEF LoneInv, TypeInv
<1>1. CASE new[o] = "pending"
  <2>1. Filing(o)
    BY <1>1 DEF Filing, DecisionInv
  <2>2. job[o] \in Making(o)
    BY <2>1 DEF Making
  <2> QED BY <1>1, <2>1, <2>2 DEF CreationInv
<1>2. CASE new[o] # "pending"
  <2>1. job[o] \in Proposals /\ src[o] \in Statuses /\ Complete(copy[src[o]][job[o]])
    BY <1>2 DEF DecisionInv
  <2>2. job[o] \in written
    BY <2>1 DEF FileInv, Complete
  <2> QED BY <1>2, <2>2 DEF FileInv, Filing
<1> QED BY <1>1, <1>2

LEMMA OpenKept ==
    ASSUME NEW o \in Operators, LoneInv(o), OpenTarget(o)
    PROVE  DecisionInv(o)' /\ CreationInv(o)' /\ FileInv(o)' /\ NeverLost'
<1> USE TypeParts DEF LoneInv, TypeInv
<1>1. /\ UNCHANGED <<memory, history>> /\ pc[o] = "open"
  BY DEF OpenTarget
<1>2. CASE pc'[o] = "idle" /\ copy' = copy
  <2>1. FileInv(o)' /\ NeverLost'
    BY <1>1, <1>2, FilesKept DEF history
  <2> QED BY <1>2, <2>1 DEF DecisionInv, CreationInv, Filing
<1>3. CASE pc'[o] = "write" /\ copy' = [copy EXCEPT ![new[o]][job[o]] = Torn]
  <2>1. /\ job[o] \in drawn /\ job[o] \in Proposals /\ new[o] \in Statuses /\ src[o] \in Statuses
        /\ new[o] = "pending" <=> job[o] \notin written
        /\ new[o] = "pending" <=> Filing(o)
    BY <1>1, JobWritten
  <2>2. \A s \in Statuses, x \in Proposals :
           copy'[s][x] = IF s = new[o] /\ x = job[o] THEN Torn ELSE copy[s][x]
    BY <1>3, <2>1, CopyChanged
  <2>3. \A x \in Proposals : Copies(x)' = IF x = job[o] THEN Copies(x) \cup {new[o]} ELSE Copies(x)
    BY <2>1, <2>2, SentinelAssumption DEF Copies
  <2>4. new[o] # "pending" => src[o] # new[o] /\ Complete(copy'[src[o]][job[o]])
    BY <1>1, <2>1, <2>2 DEF DecisionInv
  <2>5. copy'[new[o]][job[o]] = Torn
    BY <2>1, <2>2
  <2>6. DecisionInv(o)'
    BY <1>1, <1>3, <2>4, <2>5 DEF DecisionInv, memory
  <2>7. CreationInv(o)'
    <3>1. Filing(o)' <=> Filing(o)
      BY <1>1, <1>3 DEF Filing, memory
    <3>2. Making(o)' = Making(o)
      BY <1>1, <3>1 DEF Making, memory
    <3>3. Filing(o) => \A x \in drafts[o] : Copies(x)' = {}
      BY <2>3 DEF CreationInv
    <3>4. UNCHANGED <<drawn, written, misread, known, drafts, job>> /\ pc'[o] \notin {"list", "draft"}
      BY <1>1, <1>3 DEF memory, history
    <3> QED BY <3>1, <3>2, <3>3, <3>4 DEF CreationInv
  <2>8. NeverLost'
    <3> SUFFICES ASSUME NEW x \in written PROVE \E s \in Statuses : Complete(copy'[s][x])
      BY <1>1 DEF NeverLost, history
    <3>1. CASE x = job[o]
      BY <2>1, <2>4, <3>1
    <3>2. CASE x # job[o]
      BY <2>2, <3>2 DEF NeverLost
    <3> QED BY <3>1, <3>2
  <2>9. FileInv(o)'
    <3>1. \A x \in Proposals \ written : \A s \in Statuses :
             copy'[s][x] = Absent \/ (s = "pending" /\ copy'[s][x] = Torn)
      BY <2>1, <2>2 DEF FileInv
    <3>2. \A x \in Proposals \ drawn : Copies(x)' = {}
      BY <2>1, <2>3 DEF FileInv
    <3>3. \A x \in written \ spoiled :
             Copies(x)' = {verdict[x]} \cup (IF job[o] = x THEN {new[o]} ELSE {})
      BY <1>1, <2>3 DEF FileInv
    <3> QED BY <1>1, <1>3, <3>1, <3>2, <3>3 DEF FileInv, history, memory
  <2> QED BY <2>6, <2>7, <2>8, <2>9
<1> QED BY <1>2, <1>3 DEF OpenTarget, Goto

LEMMA WriteKept ==
    ASSUME NEW o \in Operators, LoneInv(o), Write(o)
    PROVE  DecisionInv(o)' /\ CreationInv(o)' /\ FileInv(o)' /\ NeverLost'
<1> USE TypeParts DEF LoneInv, TypeInv
<1>1. UNCHANGED <<memory, drawn, verdict, misread>> /\ pc[o] = "write"
  BY DEF Write
<1>2. CASE pc'[o] = "idle" /\ copy' = copy /\ written' = written /\ Spoil(job[o])
  <2>1. FileInv(o)' /\ NeverLost'
    BY <1>1, <1>2, FilesKept DEF Spoil
  <2> QED BY <1>2, <2>1 DEF DecisionInv, CreationInv, Filing
<1>3. CASE /\ copy' = [copy EXCEPT ![new[o]][job[o]] = loaded[o]]
           /\ pc'[o] = IF new[o] = "pending" THEN "draft" ELSE "unlink"
           /\ written' = written \cup {job[o]} /\ spoiled' = spoiled
  <2>1. /\ job[o] \in drawn /\ job[o] \in Proposals /\ new[o] \in Statuses /\ src[o] \in Statuses
        /\ new[o] = "pending" <=> job[o] \notin written
        /\ new[o] = "pending" <=> Filing(o)
    BY <1>1, JobWritten
  <2>2. \A s \in Statuses, x \in Proposals :
           copy'[s][x] = IF s = new[o] /\ x = job[o] THEN loaded[o] ELSE copy[s][x]
    BY <1>3, <2>1, CopyChanged
  <2>3. Complete(loaded[o]) /\ loaded[o] # Absent /\ Torn # Absent
    BY SentinelAssumption DEF Complete
  <2>4. copy[new[o]][job[o]] = Torn
    BY <1>1 DEF DecisionInv
  <2>5. \A x \in Proposals : Copies(x)' = Copies(x)
    BY <2>1, <2>2, <2>3, <2>4 DEF Copies
  <2>6. Complete(copy'[new[o]][job[o]])
    BY <2>1, <2>2, <2>3
  <2>7. NeverLost'
    <3> SUFFICES ASSUME NEW x \in written \cup {job[o]} PROVE \E s \in Statuses : Complete(copy'[s][x])
      BY <1>3 DEF NeverLost
    <3>1. CASE x = job[o]
      BY <2>1, <2>6, <3>1
    <3>2. CASE x # job[o]
      BY <2>2, <3>2 DEF NeverLost
    <3> QED BY <3>1, <3>2
  <2>8. /\ written' \subseteq drawn'
        /\ \A x \in Proposals \ written' :
              /\ verdict'[x] = "pending"
              /\ \A s \in Statuses : copy'[s][x] = Absent \/ (s = "pending" /\ copy'[s][x] = Torn)
        /\ \A x \in Proposals \ drawn' : Copies(x)' = {}
    BY <1>1, <1>3, <2>1, <2>2, <2>5 DEF FileInv
  <2>9. CASE new[o] = "pending"
    <3>1. /\ pc'[o] = "draft" /\ Filing(o) /\ ~Filing(o)' /\ job[o] \notin written
          /\ UNCHANGED <<drafts, known>>
      BY <1>1, <1>3, <2>1, <2>9 DEF Filing, memory
    <3>2. Making(o) = drafts[o] \cup {job[o]} /\ Making(o)' = drafts[o]
      BY <3>1 DEF Making
    <3>3. DecisionInv(o)'
      BY <3>1 DEF DecisionInv
    <3>4. /\ drafts[o] \subseteq drawn' \ written'
          /\ \A x \in drafts'[o] : Copies(x)' = {}
      BY <1>1, <1>3, <2>5, <3>1, <3>2 DEF CreationInv
    <3>5. \A y \in written' \ misread' :
             Fingerprint[y] \in known[o] \/ \A x \in drafts[o] : Fingerprint[x] # Fingerprint[y]
      BY <1>1, <1>3, <3>1, <3>2 DEF CreationInv
    <3>6. CreationInv(o)'
      BY <3>1, <3>2, <3>4, <3>5 DEF CreationInv
    <3>7. \A y \in written \ misread : Fingerprint[y] # Fingerprint[job[o]]
      BY <3>1, <3>2 DEF CreationInv
    <3>8. \A x, y \in written' \ misread' : x # y => Fingerprint[x] # Fingerprint[y]
      BY <1>1, <1>3, <3>7 DEF FileInv
    <3>9. Copies(job[o]) = {"pending"} /\ verdict[job[o]] = "pending"
      BY <2>1, <2>3, <2>4, <2>9, <3>1 DEF FileInv, Copies
    <3>10. \A x \in written' \ spoiled' : Copies(x)' = {verdict'[x]}
      BY <1>1, <1>3, <2>5, <3>1, <3>9 DEF FileInv
    <3>11. FileInv(o)'
      BY <2>8, <3>1, <3>8, <3>10 DEF FileInv
    <3> QED BY <2>7, <3>3, <3>6, <3>11
  <2>10. CASE new[o] # "pending"
    <3>1. pc'[o] = "unlink" /\ ~Filing(o)' /\ written' = written /\ UNCHANGED <<job, new, src>>
      BY <1>1, <1>3, <2>1, <2>10 DEF Filing, memory
    <3>2. src[o] # new[o] /\ Complete(copy'[src[o]][job[o]])
      BY <1>1, <2>1, <2>2, <2>10 DEF DecisionInv
    <3>3. DecisionInv(o)'
      BY <2>6, <2>10, <3>1, <3>2 DEF DecisionInv
    <3>4. CreationInv(o)'
      BY <3>1 DEF CreationInv
    <3>5. FileInv(o)'
      BY <1>1, <1>3, <2>5, <2>8, <3>1 DEF FileInv
    <3> QED BY <2>7, <3>3, <3>4, <3>5
  <2> QED BY <2>9, <2>10
<1> QED BY <1>2, <1>3 DEF Write, Goto

LEMMA UnlinkKept ==
    ASSUME NEW o \in Operators, LoneInv(o), Unlink(o)
    PROVE  DecisionInv(o)' /\ CreationInv(o)' /\ FileInv(o)' /\ NeverLost'
<1> USE TypeParts DEF LoneInv, TypeInv
<1>1. /\ UNCHANGED <<memory, drawn, written, misread>> /\ pc[o] = "unlink" /\ pc'[o] = "idle"
      /\ verdict' = [verdict EXCEPT ![job[o]] = new[o]] /\ spoiled \subseteq spoiled'
  BY DEF Unlink, Goto, Spoil
<1>2. /\ job[o] \in written /\ job[o] \in Proposals /\ new[o] \in Statuses /\ src[o] \in Statuses
      /\ src[o] # new[o] /\ Complete(copy[new[o]][job[o]]) /\ Complete(copy[src[o]][job[o]])
  BY <1>1, JobWritten DEF DecisionInv
<1>3. \/ copy' = copy /\ job[o] \in spoiled'
      \/ copy' = [copy EXCEPT ![src[o]][job[o]] = Absent]
  BY DEF Unlink, Spoil
<1>4. \A s \in Statuses, x \in Proposals : s # src[o] \/ x # job[o] => copy'[s][x] = copy[s][x]
  BY <1>2, <1>3, CopyChanged
<1>5. NeverLost'
  <2> SUFFICES ASSUME NEW x \in written PROVE \E s \in Statuses : Complete(copy'[s][x])
    BY <1>1 DEF NeverLost
  <2>1. CASE x = job[o]
    BY <1>2, <1>4, <2>1
  <2>2. CASE x # job[o]
    BY <1>4, <2>2 DEF NeverLost
  <2> QED BY <2>1, <2>2
<1>6. \A x \in Proposals : x # job[o] => Copies(x)' = Copies(x) /\ verdict'[x] = verdict[x]
  BY <1>1, <1>4 DEF Copies
<1>7. job[o] \notin spoiled' => Copies(job[o])' = {new[o]} /\ verdict'[job[o]] = new[o]
  <2> SUFFICES ASSUME job[o] \notin spoiled' PROVE Copies(job[o])' = {new[o]} /\ verdict'[job[o]] = new[o]
    OBVIOUS
  <2>1. Copies(job[o]) = {verdict[job[o]], new[o]}
    BY <1>1, <1>2 DEF FileInv
  <2>2. src[o] \in Copies(job[o])
    BY <1>2 DEF Copies, Complete
  <2>3. \A s \in Statuses : copy'[s][job[o]] = IF s = src[o] THEN Absent ELSE copy[s][job[o]]
    BY <1>2, <1>3, CopyChanged
  <2>4. Copies(job[o])' = Copies(job[o]) \ {src[o]}
    <3>1. job' = job
      BY <1>1 DEF memory
    <3>2. src[o] \in Statuses
      BY <1>2
    <3>3. Copies(job[o])' = {s \in Statuses : copy'[s][job[o]] # Absent}
      BY <3>1 DEF Copies
    <3> QED BY <2>3, <3>2, <3>3 DEF Copies
  <2> QED BY <1>1, <1>2, <2>1, <2>2, <2>4
<1>8. FileInv(o)'
  <2>1. \A x \in written \ spoiled' : Copies(x)' = {verdict'[x]}
    <3>1. job' = job
      BY <1>1 DEF memory
    <3>2. \A x \in written \ spoiled' : x = job[o] => Copies(x)' = {verdict'[x]}
      BY <1>7, <3>1
    <3>3. \A x \in written \ spoiled' : x # job[o] => Copies(x)' = {verdict'[x]}
      BY <1>1, <1>6 DEF FileInv
    <3> QED BY <3>2, <3>3
  <2>2. \A x \in Proposals \ written :
           /\ verdict'[x] = "pending"
           /\ \A s \in Statuses : copy'[s][x] = Absent \/ (s = "pending" /\ copy'[s][x] = Torn)
    BY <1>2, <1>4, <1>6 DEF FileInv
  <2>3. \A x \in Proposals \ drawn : Copies(x)' = {}
    BY <1>2, <1>6 DEF FileInv
  <2> QED BY <1>1, <2>1, <2>2, <2>3 DEF FileInv
<1> QED BY <1>1, <1>5, <1>8 DEF DecisionInv, CreationInv, Filing

LEMMA LoneInit ==
    ASSUME NEW o, Operators = {o}
    PROVE  Init => LoneInv(o)
<1> SUFFICES ASSUME Init PROVE LoneInv(o)
  OBVIOUS
<1>1. TypeInv
  BY TypeInit
<1>2. pc[o] = "idle" /\ \A s \in Statuses, x \in Proposals : copy[s][x] = Absent
  BY DEF Init
<1>3. DecisionInv(o) /\ CreationInv(o)
  BY <1>2 DEF DecisionInv, CreationInv, Filing
<1>4. FileInv(o) /\ NeverLost
  BY <1>2 DEF Init, FileInv, Copies, NeverLost
<1> QED BY <1>1, <1>3, <1>4 DEF LoneInv

LEMMA LoneNext ==
    ASSUME NEW o, Operators = {o}
    PROVE  LoneInv(o) /\ [Next]_vars => LoneInv(o)'
<1> SUFFICES ASSUME LoneInv(o), [Next]_vars PROVE LoneInv(o)'
  OBVIOUS
<1>1. TypeInv' /\ o \in Operators
  BY TypeNext DEF LoneInv
<1>2. CASE UNCHANGED vars
  <2>1. DecisionInv(o)' /\ CreationInv(o)' /\ FileInv(o)' /\ NeverLost'
    BY <1>2
    DEF LoneInv, vars, memory, history, budgets, DecisionInv, CreationInv, FileInv, NeverLost,
        Filing, Making, Copies
  <2> QED BY <1>1, <2>1 DEF LoneInv
<1>3. CASE Create(o) \/ Decide(o) \/ Step(o) \/ Crash(o)
  <2>1. DecisionInv(o)' /\ CreationInv(o)' /\ FileInv(o)' /\ NeverLost'
    BY <1>1, <1>3, CreateKept, DecideKept, LoadKept, CrashKept, ListKept, DraftKept, OpenKept,
       WriteKept, UnlinkKept DEF Step
  <2> QED BY <1>1, <2>1 DEF LoneInv
<1> QED BY <1>2, <1>3 DEF Next

LEMMA LoneInvariance ==
    ASSUME NEW o, Operators = {o}
    PROVE  Spec => []LoneInv(o)
BY LoneInit, LoneNext, PTL DEF Spec

-----------------------------------------------------------------------------
(* What the runs check, for every instance.                                 *)

\* The variables of the queue keep their types, for any operators.
THEOREM TypeCorrect == Spec => []TypeOK
<1>1. Init => TypeInv
  BY TypeInit
<1>2. TypeInv /\ [Next]_vars => TypeInv'
  BY TypeNext
<1>3. TypeInv => TypeOK
  BY DEF TypeInv
<1> QED BY <1>1, <1>2, <1>3, PTL DEF Spec

\* With one operator at a time a proposal that was ever written whole keeps a whole
\* copy, whatever fails or dies between write_proposal and the unlink of the source.
THEOREM NothingLost ==
    ASSUME NEW o, Operators = {o}
    PROVE  Spec => []NeverLost
<1>1. LoneInv(o) => NeverLost
  BY DEF LoneInv
<1> QED BY <1>1, LoneInvariance, PTL

\* With one operator at a time no content is filed under two ids, across crashed and
\* failed decisions: list_proposals finds every fingerprint it can read.
THEOREM FiledOnce ==
    ASSUME NEW o, Operators = {o}
    PROVE  Spec => []IdempotentCreation
<1>1. LoneInv(o) => IdempotentCreation
  <2> SUFFICES ASSUME LoneInv(o) PROVE IdempotentCreation
    OBVIOUS
  <2>1. \A x \in Proposals, s \in Statuses : Complete(copy[s][x]) => x \in written
    BY DEF LoneInv, FileInv, Complete
  <2> QED BY <2>1 DEF LoneInv, FileInv, IdempotentCreation
<1> QED BY <1>1, LoneInvariance, PTL

\* With one operator at a time a decision that was not cut off leaves one copy, under
\* the status it returned.
THEOREM OneCopyLeft ==
    ASSUME NEW o, Operators = {o}
    PROVE  Spec => []OneCopyUnderVerdict
<1>1. LoneInv(o) => OneCopyUnderVerdict
  BY DEF LoneInv, FileInv, OneCopyUnderVerdict
<1> QED BY <1>1, LoneInvariance, PTL

-----------------------------------------------------------------------------
(* What holds of any number of operators at once.                           *)
\* No two operators write one draft, and none writes a draft that is on file.
MakerInv ==
    /\ written \subseteq drawn
    /\ \A o \in Operators : Making(o) \subseteq drawn \ written
    /\ \A o \in Operators : Filing(o) => job[o] \notin drafts[o]
    /\ \A o, p \in Operators : o # p => Making(o) \cap Making(p) = {}

\* A creation writes what nobody has stamped; a decision stamps what it writes,
\* and writes only what was on file.
Stamps(o) ==
    /\ pc[o] \in {"open", "write"} =>
          IF new[o] = "pending" THEN loaded[o] = {}
          ELSE new[o] \in loaded[o] /\ job[o] \in written
    /\ pc[o] = "unlink" => new[o] # "pending" /\ job[o] \in written

Stamped(x) ==
    /\ \A s \in Decisions : copy[s][x] # Absent => x \in written
    /\ \A s \in Decisions : Complete(copy[s][x]) => s \in copy[s][x]
    /\ copy["pending"][x] \in (IF x \in written THEN {Absent, {}} ELSE {Absent, Torn})

StampInv == (\A o \in Operators : Stamps(o)) /\ (\A x \in Proposals : Stamped(x))

ManyInv == TypeInv /\ MakerInv /\ StampInv

\* The others are where they were.
OthersStay(o) ==
    \A p \in Operators \ {o} :
        /\ pc'[p] = pc[p] /\ job'[p] = job[p] /\ new'[p] = new[p]
        /\ loaded'[p] = loaded[p] /\ drafts'[p] = drafts[p]

LEMMA OnlyOwn ==
    ASSUME TypeOK, NEW o \in Operators, Create(o) \/ Decide(o) \/ Step(o) \/ Crash(o)
    PROVE  OthersStay(o)
<1>0. /\ pc \in [Operators -> Phases] /\ job \in [Operators -> Proposals]
      /\ new \in [Operators -> Statuses] /\ loaded \in [Operators -> SUBSET Decisions]
      /\ drafts \in [Operators -> SUBSET Proposals]
  BY TypeParts
<1> USE DEF OthersStay, Goto, memory
<1>1. CASE Create(o) \/ Decide(o)
  BY <1>0, <1>1 DEF Create, Decide, Begin
<1>2. CASE ListDirectory(o) \/ Search(o) \/ Load(o) \/ Crash(o)
  BY <1>0, <1>2 DEF ListDirectory, Search, Load, Crash
<1>3. CASE Draft(o)
  BY <1>0, <1>3 DEF Draft
<1>4. CASE OpenTarget(o) \/ Write(o) \/ Unlink(o)
  BY <1>0, <1>4 DEF OpenTarget, Write, Unlink
<1> QED BY <1>1, <1>2, <1>3, <1>4 DEF Step

\* What a step has to show of its own operator.
LEMMA MakerFrame ==
    ASSUME MakerInv, NEW o \in Operators, OthersStay(o),
           drawn \subseteq drawn', written \subseteq written',
           written' \subseteq written \cup Making(o),
           Making(o)' \subseteq (Making(o) \cup (drawn' \ drawn)) \ written',
           Filing(o)' => job'[o] \notin drafts'[o]
    PROVE  MakerInv'
<1>1. \A p \in Operators \ {o} : Making(p)' = Making(p) /\ (Filing(p)' <=> Filing(p))
  BY DEF OthersStay, Making, Filing
<1>2. written' \subseteq drawn'
  BY DEF MakerInv
<1>3. ASSUME NEW p \in Operators \ {o}
      PROVE  /\ Making(p)' \subseteq drawn' \ written'
             /\ Filing(p)' => job'[p] \notin drafts'[p]
             /\ Making(p)' \cap Making(o)' = {}
  BY <1>1 DEF MakerInv, OthersStay
<1>4. Making(o)' \subseteq drawn' \ written'
  BY DEF MakerInv
<1>5. \A p, q \in Operators : p # q => Making(p)' \cap Making(q)' = {}
  BY <1>1, <1>3 DEF MakerInv
<1> QED BY <1>2, <1>3, <1>4, <1>5 DEF MakerInv

LEMMA StampFrame ==
    ASSUME StampInv, NEW o \in Operators, OthersStay(o), written \subseteq written', Stamps(o)',
           \A x \in Proposals : Stamped(x)'
    PROVE  StampInv'
<1>1. ASSUME NEW p \in Operators \ {o} PROVE Stamps(p)'
  BY DEF StampInv, Stamps, OthersStay
<1> QED BY <1>1 DEF StampInv

LEMMA ManyInit == Init => ManyInv
<1> SUFFICES ASSUME Init PROVE ManyInv
  OBVIOUS
<1>1. \A o \in Operators : Making(o) = {} /\ ~Filing(o) /\ pc[o] = "idle"
  BY DEF Init, Making, Filing
<1>2. \A s \in Statuses, x \in Proposals : copy[s][x] = Absent
  BY DEF Init
<1>3. MakerInv
  BY <1>1 DEF Init, MakerInv
<1>4. StampInv
  BY <1>1, <1>2 DEF StampInv, Stamps, Stamped, Complete, Decisions, Statuses
<1> QED BY <1>3, <1>4, TypeInit DEF ManyInv

LEMMA ManyMove ==
    ASSUME ManyInv, NEW o \in Operators, Create(o) \/ Decide(o) \/ Step(o) \/ Crash(o)
    PROVE  MakerInv' /\ StampInv'
<1>0. /\ TypeOK /\ TypeInv /\ MakerInv /\ StampInv /\ OthersStay(o)
      /\ pc \in [Operators -> Phases] /\ job \in [Operators -> Proposals]
      /\ new \in [Operators -> Statuses] /\ loaded \in [Operators -> SUBSET Decisions]
      /\ drafts \in [Operators -> SUBSET Proposals] /\ src \in [Operators -> Statuses]
  BY TypeParts, OnlyOwn DEF ManyInv, TypeInv
<1>a. /\ written \subseteq drawn /\ Making(o) \subseteq drawn \ written
      /\ Filing(o) => job[o] \notin drafts[o]
  BY <1>0 DEF MakerInv
<1>b. Stamps(o)
  BY <1>0 DEF StampInv
<1>c. UNCHANGED <<copy, written>> => \A x \in Proposals : Stamped(x)'
  BY <1>0 DEF StampInv, Stamped
<1>1. CASE Create(o)
  <2>1. /\ pc'[o] = "list" /\ drafts'[o] \subseteq drawn' \ drawn /\ drawn \subseteq drawn'
        /\ UNCHANGED <<copy, written>>
    BY <1>0, <1>1 DEF Create, Begin, Goto
  <2>2. Making(o)' \subseteq drawn' \ drawn
    BY <2>1 DEF Making, Filing
  <2>3. Stamps(o)' /\ ~Filing(o)'
    BY <2>1 DEF Stamps, Filing
  <2> QED BY <1>0, <1>a, <1>c, <2>1, <2>2, <2>3, MakerFrame, StampFrame
<1>2. CASE Decide(o) \/ ListDirectory(o) \/ Search(o) \/ Crash(o)
  <2>1. /\ pc'[o] \in {"search", "load", "idle", "list", "draft"} /\ UNCHANGED <<copy, written, drawn, drafts>>
    <3>1. CASE Decide(o) \/ Search(o) \/ Crash(o)
      BY <1>0, <3>1 DEF Decide, Begin, Search, Crash, Goto, memory, history
    <3>2. CASE ListDirectory(o)
      BY <1>0, <3>2 DEF ListDirectory, Goto
    <3> QED BY <1>2, <3>1, <3>2
  <2>2. Making(o)' \subseteq Making(o) /\ ~Filing(o)'
    BY <2>1 DEF Making, Filing
  <2>3. Stamps(o)'
    BY <2>1 DEF Stamps
  <2> QED BY <1>0, <1>a, <1>c, <2>1, <2>2, <2>3, MakerFrame, StampFrame
<1>3. CASE Load(o)
  <2>1. /\ pc[o] = "load" /\ UNCHANGED <<copy, written, drawn, drafts, job, new>>
        /\ \/ pc'[o] = "idle"
           \/ /\ pc'[o] = "open" /\ Complete(copy[src[o]][job[o]])
              /\ loaded'[o] = copy[src[o]][job[o]] \cup {new[o]}
    BY <1>0, <1>3 DEF Load, Goto, history
  <2>2. new[o] # "pending"
    BY <1>0, <2>1 DEF TypeInv, Decisions
  <2>3. Making(o)' \subseteq Making(o) /\ ~Filing(o)'
    BY <2>1, <2>2 DEF Making, Filing
  <2>4. Complete(copy[src[o]][job[o]]) => job[o] \in written
    <3>1. Stamped(job[o]) /\ src[o] \in Statuses
      BY <1>0 DEF StampInv
    <3> QED BY <3>1 DEF Stamped, Complete, Decisions
  <2>5. Stamps(o)'
    BY <2>1, <2>2, <2>4 DEF Stamps
  <2> QED BY <1>0, <1>a, <1>c, <2>1, <2>3, <2>5, MakerFrame, StampFrame
<1>4. CASE Draft(o)
  <2>1. /\ pc[o] = "draft" /\ UNCHANGED <<copy, written, drawn>>
        /\ \/ drafts'[o] \subseteq drafts[o] /\ pc'[o] \in {"idle", "draft"}
           \/ /\ pc'[o] = "open" /\ new'[o] = "pending" /\ loaded'[o] = {}
              /\ job'[o] \in drafts[o] /\ drafts'[o] = drafts[o] \ {job'[o]}
    BY <1>0, <1>4 DEF Draft, Goto, history
  <2>2. Making(o)' \subseteq Making(o) /\ (Filing(o)' => job'[o] \notin drafts'[o])
    BY <2>1 DEF Making, Filing
  <2>3. Stamps(o)'
    BY <2>1 DEF Stamps
  <2> QED BY <1>0, <1>a, <1>c, <2>1, <2>2, <2>3, MakerFrame, StampFrame
<1>5. CASE OpenTarget(o)
  <2>1. /\ pc[o] = "open" /\ UNCHANGED <<written, drawn, drafts, job, new, loaded>>
        /\ \/ pc'[o] = "idle" /\ UNCHANGED copy
           \/ pc'[o] = "write" /\ copy' = [copy EXCEPT ![new[o]][job[o]] = Torn]
    BY <1>0, <1>5 DEF OpenTarget, Goto, memory, history
  <2>2. Making(o)' \subseteq Making(o) /\ (Filing(o)' => job'[o] \notin drafts'[o])
    BY <1>a, <2>1 DEF Making, Filing
  <2>3. Stamps(o)'
    BY <1>b, <2>1 DEF Stamps
  <2>4. ASSUME copy' = [copy EXCEPT ![new[o]][job[o]] = Torn] PROVE \A x \in Proposals : Stamped(x)'
    <3>1. \A s \in Statuses, x \in Proposals :
             copy'[s][x] = IF s = new[o] /\ x = job[o] THEN Torn ELSE copy[s][x]
      BY <1>0, <2>4, CopyChanged
    <3>2. IF new[o] = "pending" THEN job[o] \notin written ELSE job[o] \in written
      BY <1>a, <1>b, <2>1 DEF Stamps, Making, Filing
    <3> QED BY <1>0, <2>1, <3>1, <3>2, SentinelAssumption DEF StampInv, Stamped, Complete, Decisions, Statuses
  <2> QED BY <1>0, <1>a, <1>c, <2>1, <2>2, <2>3, <2>4, MakerFrame, StampFrame
<1>6. CASE Write(o)
  <2>1. /\ pc[o] = "write" /\ UNCHANGED <<drawn, drafts, job, new, loaded>>
        /\ \/ pc'[o] = "idle" /\ UNCHANGED <<copy, written>>
           \/ /\ pc'[o] = (IF new[o] = "pending" THEN "draft" ELSE "unlink")
              /\ copy' = [copy EXCEPT ![new[o]][job[o]] = loaded[o]]
              /\ written' = written \cup {job[o]}
    BY <1>0, <1>6 DEF Write, Goto, memory
  <2>2. /\ ~Filing(o)' /\ Making(o)' = drafts[o] /\ drafts[o] \subseteq Making(o)
        /\ Filing(o) => job[o] \in Making(o) /\ job[o] \notin written
        /\ ~Filing(o) => new[o] \in loaded[o] /\ job[o] \in written
        /\ Filing(o) => loaded[o] = {}
    BY <1>a, <1>b, <2>1 DEF Making, Filing, Stamps
  <2>3. Making(o)' \subseteq Making(o) \ written' /\ written' \subseteq written \cup Making(o)
    BY <1>a, <2>1, <2>2
  <2>4. Stamps(o)'
    BY <2>1 DEF Stamps
  <2>5. ASSUME copy' = [copy EXCEPT ![new[o]][job[o]] = loaded[o]], written' = written \cup {job[o]}
        PROVE  \A x \in Proposals : Stamped(x)'
    <3>1. \A s \in Statuses, x \in Proposals :
             copy'[s][x] = IF s = new[o] /\ x = job[o] THEN loaded[o] ELSE copy[s][x]
      BY <1>0, <2>5, CopyChanged
    <3>2. new[o] = "pending" => loaded[o] = {} /\ job[o] \notin written /\ Stamped(job[o])
      BY <1>0, <2>1, <2>2 DEF Filing, StampInv
    <3>3. new[o] # "pending" => new[o] \in loaded[o] /\ written' = written
      BY <2>2, <2>5 DEF Filing
    <3> QED BY <1>0, <2>5, <3>1, <3>2, <3>3 DEF StampInv, Stamped, Complete, Decisions, Statuses
  <2> QED BY <1>0, <1>c, <2>1, <2>2, <2>3, <2>4, <2>5, MakerFrame, StampFrame
<1>7. CASE Unlink(o)
  <2>1. /\ pc[o] = "unlink" /\ pc'[o] = "idle" /\ UNCHANGED <<written, drawn, drafts>>
        /\ UNCHANGED copy \/ copy' = [copy EXCEPT ![src[o]][job[o]] = Absent]
    BY <1>0, <1>7 DEF Unlink, Goto, memory
  <2>2. Making(o)' \subseteq Making(o) /\ ~Filing(o)' /\ Stamps(o)'
    BY <2>1 DEF Making, Filing, Stamps
  <2>3. ASSUME copy' = [copy EXCEPT ![src[o]][job[o]] = Absent] PROVE \A x \in Proposals : Stamped(x)'
    <3>1. \A s \in Statuses, x \in Proposals :
             copy'[s][x] = IF s = src[o] /\ x = job[o] THEN Absent ELSE copy[s][x]
      BY <1>0, <2>3, CopyChanged
    <3> QED BY <1>0, <2>1, <3>1 DEF StampInv, Stamped, Complete, Decisions, Statuses
  <2> QED BY <1>0, <1>a, <1>c, <2>1, <2>2, <2>3, MakerFrame, StampFrame
<1> QED BY <1>1, <1>2, <1>3, <1>4, <1>5, <1>6, <1>7 DEF Step

LEMMA ManyNext == ManyInv /\ [Next]_vars => ManyInv'
<1> SUFFICES ASSUME ManyInv, [Next]_vars PROVE ManyInv'
  OBVIOUS
<1>1. TypeInv'
  BY TypeNext DEF ManyInv
<1>2. ASSUME UNCHANGED vars PROVE MakerInv' /\ StampInv'
  BY <1>2 DEF ManyInv, vars, memory, history, MakerInv, Making, Filing, StampInv, Stamps, Stamped
<1> QED BY <1>1, <1>2, ManyMove DEF Next, ManyInv

LEMMA ManyInvariance == Spec => []ManyInv
BY ManyInit, ManyNext, PTL DEF Spec

\* However many operators decide at once, fail or are killed, a file says that it
\* was decided as the directory it lies in says: what passes apply's preflight
\* was on file and carries an approval, which only a decision to approve it stamps.
THEOREM VerdictsStamped ==
    Spec => []/\ \A x \in Proposals, s \in Decisions :
                    Complete(copy[s][x]) => x \in written /\ s \in copy[s][x]
              /\ \A x \in Proposals :
                    PassesPreflight(x) => x \in written /\ "approved" \in copy["approved"][x]
<1>1. ManyInv => /\ \A x \in Proposals, s \in Decisions :
                       Complete(copy[s][x]) => x \in written /\ s \in copy[s][x]
                 /\ \A x \in Proposals :
                       PassesPreflight(x) => x \in written /\ "approved" \in copy["approved"][x]
  BY DEF ManyInv, StampInv, Stamped, PassesPreflight, Complete, Decisions, Statuses
<1> QED BY <1>1, ManyInvariance, PTL

\* No proposal is filed twice and none comes back: each is written whole under
\* pending by one operator, once, with no verdict on it; from then on its pending
\* file is as it was written or gone for good, whoever creates and decides.
THEOREM PendingOnce ==
    Spec => [][\A x \in written :
                  /\ copy["pending"][x] \in {Absent, {}}
                  /\ copy'["pending"][x] \in {copy["pending"][x], Absent}]_vars
<1>1. ManyInv /\ [Next]_vars =>
         [\A x \in written :
             /\ copy["pending"][x] \in {Absent, {}}
             /\ copy'["pending"][x] \in {copy["pending"][x], Absent}]_vars
  <2> SUFFICES ASSUME ManyInv, Next, NEW x \in written
               PROVE  /\ copy["pending"][x] \in {Absent, {}}
                      /\ copy'["pending"][x] \in {copy["pending"][x], Absent}
    OBVIOUS
  <2>1. PICK o \in Operators : Create(o) \/ Decide(o) \/ Step(o) \/ Crash(o)
    BY DEF Next
  <2>2. /\ TypeOK /\ x \in Proposals /\ Stamps(o) /\ Making(o) \cap written = {}
        /\ job[o] \in Proposals /\ new[o] \in Statuses /\ src[o] \in Statuses
        /\ loaded[o] \in SUBSET Decisions /\ "pending" \in Statuses
    BY TypeParts DEF ManyInv, TypeInv, MakerInv, StampInv, Statuses
  <2>3. copy["pending"][x] \in {Absent, {}}
    BY <2>2 DEF ManyInv, StampInv, Stamped
  <2>4. CASE OpenTarget(o) \/ Write(o)
    <3>1. new[o] # "pending" \/ job[o] # x
      BY <2>2, <2>4 DEF Making, Filing, OpenTarget, Write
    <3>2. UNCHANGED copy \/ \E c \in {Torn, loaded[o]} : copy' = [copy EXCEPT ![new[o]][job[o]] = c]
      BY <2>4 DEF OpenTarget, Write
    <3>3. ASSUME NEW c \in {Torn, loaded[o]}, copy' = [copy EXCEPT ![new[o]][job[o]] = c]
          PROVE  copy'["pending"][x] = copy["pending"][x]
      <4>1. c \in (SUBSET Decisions) \cup {Absent, Torn}
        BY <2>2
      <4> QED BY <2>2, <3>1, <3>3, <4>1, CopyChanged
    <3> QED BY <2>3, <3>2, <3>3
  <2>5. CASE Unlink(o)
    <3>1. ASSUME copy' = [copy EXCEPT ![src[o]][job[o]] = Absent]
          PROVE  copy'["pending"][x] \in {copy["pending"][x], Absent}
      BY <2>2, <3>1, CopyChanged
    <3>2. UNCHANGED copy \/ copy' = [copy EXCEPT ![src[o]][job[o]] = Absent]
      BY <2>5 DEF Unlink
    <3> QED BY <2>3, <3>1, <3>2
  <2>6. CASE ~(OpenTarget(o) \/ Write(o) \/ Unlink(o))
    <3>1. UNCHANGED copy
      BY <2>1, <2>6 DEF Create, Decide, Step, Crash, ListDirectory, Draft, Search, Load
    <3> QED BY <2>3, <3>1
  <2> QED BY <2>3, <2>4, <2>5, <2>6
<1> QED BY <1>1, ManyInvariance, PTL DEF Spec
================================================================================
