---------------------------- MODULE ApprovalQueue -----------------------------
(***************************************************************************)
(* The approval queue of mutation proposals (PR32),                        *)
(* src/src/shellforgeai/core/approvals.py.                                 *)
(*                                                                         *)
(* A proposal is one JSON file in the directory of its status.  A decision *)
(* searches the directories in a fixed order, loads the file it finds,     *)
(* writes the proposal into the directory of the new status and then       *)
(* unlinks the old file; a creation lists all directories and writes what  *)
(* has a new fingerprint into "pending".  Nothing is locked, and writing   *)
(* truncates before it writes: operators step between any two file-system  *)
(* calls, calls fail, and an operator's process may die.                   *)
(*                                                                         *)
(* A definition marked "Mutant" is a plausible bug of the one after it and *)
(* is not part of the specification; it shows that a property can fail.    *)
(***************************************************************************)
EXTENDS Naturals, Sequences

CONSTANTS
    Operators,    \* command-line invocations, one job at a time each
    Proposals,    \* proposal ids; every creation draws fresh ones
    Fingerprint,  \* the content fingerprint of each proposal
    Absent, Torn, \* no file; a file truncated or cut short
    MaxJobs,      \* bound: creations and decisions begun
    MaxFaults,    \* bound: failing file-system calls
    MaxCrashes    \* bound: operators killed

\* The order find_proposal_path() searches in.
SearchOrder == <<"approved", "pending", "rejected", "canceled", "archived">>

\* Mutant: the archive is not listed.
ListOrderCurrent == <<"pending", "approved", "rejected", "canceled">>

\* The order list_proposals() lists in.
ListOrder   == <<"pending", "approved", "rejected", "canceled", "archived">>
Statuses    == {"pending", "approved", "rejected", "canceled", "archived"}
Decisions   == Statuses \ {"pending"}

ASSUME SentinelAssumption ==
    Absent # Torn /\ \A D \in SUBSET Decisions : Absent # D /\ Torn # D
ASSUME BoundsAssumption == MaxJobs \in Nat /\ MaxFaults \in Nat /\ MaxCrashes \in Nat

VARIABLES
    copy,      \* copy[s][x]: x's file in s: the decisions stamped on it
    pc,
    job,       \* the proposal of a decision, or the one being written
    new,       \* the status to write
    at,        \* position in the search or listing order
    src,       \* the status x was found under
    loaded,    \* the stamps to write
    drafts,    \* proposals a creation has still to write
    known,     \* fingerprints a creation has listed
    \* history and budgets
    drawn,     \* ids that were ever drafted
    written,   \* proposals that were ever written completely
    verdict,   \* the status the last decision that returned gave
    spoiled,   \* proposals with a decision that was cut off or left its source
    misread,   \* proposals some listing skipped because it could not read them
    jobs, faults, crashes

memory  == <<job, new, at, src, loaded, drafts, known>>
history == <<drawn, written, verdict, spoiled, misread>>
budgets == <<jobs, faults, crashes>>
vars    == <<copy, pc, memory, history, budgets>>

Phases == {"idle", "search", "load", "open", "write", "unlink", "list", "draft"}

TypeOK ==
    /\ copy \in [Statuses -> [Proposals -> (SUBSET Decisions) \cup {Absent, Torn}]]
    /\ pc \in [Operators -> Phases]
    /\ job \in [Operators -> Proposals]
    /\ new \in [Operators -> Statuses] /\ src \in [Operators -> Statuses]
    /\ at \in [Operators -> 1..Len(SearchOrder)]
    /\ loaded \in [Operators -> SUBSET Decisions]
    /\ drafts \in [Operators -> SUBSET Proposals]
    /\ known \in [Operators -> SUBSET {Fingerprint[x] : x \in Proposals}]
    /\ drawn \subseteq Proposals /\ written \subseteq Proposals
    /\ spoiled \subseteq Proposals /\ misread \subseteq Proposals
    /\ verdict \in [Proposals -> Statuses]
    /\ jobs \in 0..MaxJobs /\ faults \in 0..MaxFaults /\ crashes \in 0..MaxCrashes

-----------------------------------------------------------------------------
Complete(c) == c \notin {Absent, Torn}
Copies(x)   == {s \in Statuses : copy[s][x] # Absent}

\* The directory find_proposal_path() answers with when nothing moves.
Found(x) == SearchOrder[CHOOSE i \in DOMAIN SearchOrder :
                           /\ SearchOrder[i] \in Copies(x)
                           /\ \A j \in 1..(i - 1) : SearchOrder[j] \notin Copies(x)]

\* apply resolves the id, loads the file and accepts the status "approved".
PassesPreflight(x) ==
    Copies(x) # {} /\ Found(x) = "approved" /\ Complete(copy["approved"][x])

Fault   == faults < MaxFaults /\ faults' = faults + 1
NoFault == UNCHANGED faults

Goto(o, phase) == pc' = [pc EXCEPT ![o] = phase]
Spoil(x) == spoiled' = spoiled \cup {x}

Init ==
    /\ copy = [s \in Statuses |-> [x \in Proposals |-> Absent]]
    /\ pc = [o \in Operators |-> "idle"]
    /\ job \in [Operators -> Proposals]
    /\ new = [o \in Operators |-> "pending"]
    /\ src = [o \in Operators |-> "pending"]
    /\ at = [o \in Operators |-> 1]
    /\ LET none == [o \in Operators |-> {}] IN loaded = none /\ drafts = none /\ known = none
    /\ drawn = {} /\ written = {} /\ spoiled = {} /\ misread = {}
    /\ verdict = [x \in Proposals |-> "pending"]
    /\ jobs = 0 /\ faults = 0 /\ crashes = 0

Begin(o, phase) ==
    /\ pc[o] = "idle"
    /\ jobs < MaxJobs
    /\ jobs' = jobs + 1
    /\ at' = [at EXCEPT ![o] = 1]
    /\ Goto(o, phase)

-----------------------------------------------------------------------------
(* Creation: create_proposals_for_session, build_restart_proposal_...       *)

\* Draft the proposals of one runbook: fresh ids, one per fingerprint.
Create(o) ==
    /\ Begin(o, "list")
    /\ \E D \in (SUBSET (Proposals \ drawn)) \ {{}} :
          /\ \A x, y \in D : Fingerprint[x] = Fingerprint[y] => x = y
          /\ drafts' = [drafts EXCEPT ![o] = D]
          /\ drawn' = drawn \cup D
    /\ known' = [known EXCEPT ![o] = {}]
    /\ UNCHANGED <<copy, job, new, src, loaded, written, verdict, spoiled, misread,
                   faults, crashes>>

\* Mutant: the position runs past the last directory.
ListDirectoryPast(o) ==
    /\ pc[o] = "list"
    /\ NoFault
    /\ known' = [known EXCEPT ![o] = @ \cup
                   {Fingerprint[x] : x \in {y \in Proposals : Complete(copy[ListOrder[at[o]]][y])}}]
    /\ at' = [at EXCEPT ![o] = @ + 1]
    /\ IF at[o] < Len(ListOrder) THEN UNCHANGED pc ELSE Goto(o, "draft")
    /\ UNCHANGED <<copy, job, new, src, loaded, drafts, history, jobs, crashes>>

\* list_proposals, one directory: unreadable files are skipped.
ListDirectory(o) ==
    /\ pc[o] = "list"
    /\ LET here == {x \in Proposals : Complete(copy[ListOrder[at[o]]][x])} IN
       \/ /\ NoFault
          /\ known' = [known EXCEPT ![o] = @ \cup {Fingerprint[x] : x \in here}]
          /\ UNCHANGED misread
       \/ /\ Fault
          /\ \E x \in here :
                /\ known' = [known EXCEPT ![o] = @ \cup {Fingerprint[y] : y \in here \ {x}}]
                /\ misread' = misread \cup {x}
    /\ IF at[o] < Len(ListOrder)
       THEN at' = [at EXCEPT ![o] = @ + 1] /\ UNCHANGED pc
       ELSE Goto(o, "draft") /\ UNCHANGED at
    /\ UNCHANGED <<copy, job, new, src, loaded, drafts, drawn, written, verdict, spoiled,
                   jobs, crashes>>

\* Write the next draft unless its fingerprint is known.
Draft(o) ==
    /\ pc[o] = "draft"
    /\ IF drafts[o] = {}
       THEN Goto(o, "idle") /\ UNCHANGED <<job, new, loaded, drafts>>
       ELSE \E x \in drafts[o] :
              /\ drafts' = [drafts EXCEPT ![o] = @ \ {x}]
              /\ IF Fingerprint[x] \in known[o]
                 THEN UNCHANGED <<pc, job, new, loaded>>
                 ELSE /\ job' = [job EXCEPT ![o] = x]
                      /\ new' = [new EXCEPT ![o] = "pending"]
                      /\ loaded' = [loaded EXCEPT ![o] = {}]
                      /\ Goto(o, "open")
    /\ UNCHANGED <<copy, at, src, known, history, budgets>>

-----------------------------------------------------------------------------
(* Decisions: _transition                                                   *)

Decide(o) ==
    /\ Begin(o, "search")
    /\ \E x \in Proposals, s \in Decisions :
          /\ Copies(x) # {}
          /\ job' = [job EXCEPT ![o] = x]
          /\ new' = [new EXCEPT ![o] = s]
    /\ UNCHANGED <<copy, src, loaded, drafts, known, history, faults, crashes>>

\* find_proposal_path, one exists(): a file that moves ahead of the search is
\* missed, and the decision reports the proposal as not found.
Search(o) ==
    /\ pc[o] = "search"
    /\ LET s == SearchOrder[at[o]] IN
       \/ /\ copy[s][job[o]] # Absent
          /\ src' = [src EXCEPT ![o] = s]
          /\ Goto(o, "load")
          /\ UNCHANGED at
       \/ /\ copy[s][job[o]] = Absent
          /\ IF at[o] < Len(SearchOrder)
             THEN at' = [at EXCEPT ![o] = @ + 1] /\ UNCHANGED pc
             ELSE Goto(o, "idle") /\ UNCHANGED at
          /\ UNCHANGED src
    /\ UNCHANGED <<copy, job, new, loaded, drafts, known, history, budgets>>

\* Mutant: a proposal that already has the new status is moved like any other.
LoadAlways(o) ==
    /\ pc[o] = "load"
    /\ LET c == copy[src[o]][job[o]] IN
       \/ /\ Complete(c) /\ NoFault
          /\ loaded' = [loaded EXCEPT ![o] = c \cup {new[o]}]
          /\ Goto(o, "open")
       \/ /\ IF Complete(c) THEN Fault ELSE NoFault
          /\ Goto(o, "idle")
          /\ UNCHANGED loaded
    /\ UNCHANGED <<copy, job, new, at, src, drafts, known, history, jobs, crashes>>

\* A file that is gone or does not parse raises; one that already has the new
\* status is returned as it is.
Load(o) ==
    /\ pc[o] = "load"
    /\ LET c == copy[src[o]][job[o]] IN
       \/ /\ Complete(c) /\ NoFault
          /\ src[o] # new[o]
          /\ loaded' = [loaded EXCEPT ![o] = c \cup {new[o]}]
          /\ Goto(o, "open")
       \/ /\ Complete(c) => src[o] = new[o]
          /\ NoFault
          /\ Goto(o, "idle")
          /\ UNCHANGED loaded
       \/ /\ Fault
          /\ Goto(o, "idle")
          /\ UNCHANGED loaded
    /\ UNCHANGED <<copy, job, new, at, src, drafts, known, history, jobs, crashes>>

\* write_proposal: write_text() opens and truncates,
OpenTarget(o) ==
    /\ pc[o] = "open"
    /\ \/ /\ NoFault
          /\ copy' = [copy EXCEPT ![new[o]][job[o]] = Torn]
          /\ Goto(o, "write")
       \/ /\ Fault
          /\ Goto(o, "idle")
          /\ UNCHANGED copy
    /\ UNCHANGED <<memory, history, jobs, crashes>>

\* then writes.  A creation goes on with its drafts, a decision to its source.
Write(o) ==
    /\ pc[o] = "write"
    /\ \/ /\ NoFault
          /\ copy' = [copy EXCEPT ![new[o]][job[o]] = loaded[o]]
          /\ Goto(o, IF new[o] = "pending" THEN "draft" ELSE "unlink")
          /\ written' = written \cup {job[o]}
          /\ UNCHANGED spoiled
       \/ /\ Fault
          /\ Goto(o, "idle")
          /\ Spoil(job[o])
          /\ UNCHANGED <<copy, written>>
    /\ UNCHANGED <<memory, drawn, verdict, misread, jobs, crashes>>

\* The old file goes; if it cannot, the error is suppressed and the decision
\* returns as usual.
Unlink(o) ==
    /\ pc[o] = "unlink"
    /\ \/ /\ NoFault
          /\ copy' = [copy EXCEPT ![src[o]][job[o]] = Absent]
          /\ UNCHANGED spoiled
       \/ /\ copy[src[o]][job[o]] # Absent /\ Fault
          /\ Spoil(job[o])
          /\ UNCHANGED copy
    /\ verdict' = [verdict EXCEPT ![job[o]] = new[o]]
    /\ Goto(o, "idle")
    /\ UNCHANGED <<memory, drawn, written, misread, jobs, crashes>>

Crash(o) ==
    /\ pc[o] # "idle"
    /\ crashes < MaxCrashes
    /\ crashes' = crashes + 1
    /\ Goto(o, "idle")
    /\ IF pc[o] \in {"write", "unlink"} THEN Spoil(job[o]) ELSE UNCHANGED spoiled
    /\ UNCHANGED <<copy, memory, drawn, written, verdict, misread, jobs, faults>>

Step(o) ==
    \/ ListDirectory(o) \/ Draft(o)
    \/ Search(o) \/ Load(o) \/ OpenTarget(o) \/ Write(o) \/ Unlink(o)

Next == \E o \in Operators : Create(o) \/ Decide(o) \/ Step(o) \/ Crash(o)

Spec == Init /\ [][Next]_vars

-----------------------------------------------------------------------------
(* What the queue promises                                                  *)

\* The paper trail keeps its papers: a proposal that was ever written whole has
\* a whole copy somewhere, whatever fails or dies.
NeverLost == \A x \in written : \E s \in Statuses : Complete(copy[s][x])

\* docs/safety.md:218: decisions only update metadata, so when every command has
\* come back, without a fault, a proposal has not vanished from the queue.
KeptAtRest ==
    (\A o \in Operators : pc[o] = "idle") =>
        \A x \in written : \E s \in Statuses : Complete(copy[s][x])

\* Creation is idempotent by fingerprint, across crashed and failed decisions:
\* no content is on file under two ids, unless a listing could not read one.
IdempotentCreation ==
    \A x, y \in Proposals \ misread : x # y /\ Fingerprint[x] = Fingerprint[y] =>
        ~\E s, t \in Statuses : Complete(copy[s][x]) /\ Complete(copy[t][y])

\* Where no decision was cut off the queue holds one copy of a proposal, under
\* the last verdict returned for it.
OneCopyUnderVerdict ==
    (\A o \in Operators : pc[o] = "idle") =>
        \A x \in written \ spoiled : Copies(x) = {verdict[x]}
=============================================================================
