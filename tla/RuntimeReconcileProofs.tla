------------------------ MODULE RuntimeReconcileProofs ------------------------
(***************************************************************************)
(* Proofs about RuntimeReconcile, for every set of executors, every set of *)
(* contents and every bound.                                               *)
(***************************************************************************)
EXTENDS RuntimeReconcile, TLAPS

\* The order operators pick members of their ranges.
LEMMA OrderInRange ==
    ASSUME NEW S
    PROVE  /\ First(S) \in Files /\ Last(S) \in Files
           /\ FirstDir(S) \in Dirs /\ LastDir(S) \in Dirs
           /\ MissingChain(S) \in SUBSET Dirs
  BY DEF First, Last, FirstDir, LastDir, MissingChain, Files, Dirs

\* A fault spends the budget it is taken from, and nothing else.
LEMMA FaultBudget ==
    ASSUME NEW kind, faults \in 0..MaxFaults, Fault(kind) \/ NoFault
    PROVE  faults' \in 0..MaxFaults
  BY BoundsAssumption DEF Fault, NoFault

\* Entering a phase with some items keeps the control state well typed.
LEMMA EnterType ==
    ASSUME ControlTypeOK, NEW e \in Executors, NEW phase \in Phases,
           NEW items \in SUBSET (Files \cup Dirs), Enter(e, phase, items)
    PROVE  ControlTypeOK'
<1> DEFINE T == SUBSET (Files \cup Dirs)
<1>1. pc' \in [Executors -> Phases]
  BY DEF ControlTypeOK, Enter
<1>2. todo' \in [Executors -> T]
  <2>1. todo \in [Executors -> T] /\ items \in T /\ todo' = [todo EXCEPT ![e] = items]
    BY DEF ControlTypeOK, Enter
  <2> HIDE DEF T
  <2> QED BY <2>1
<1> QED BY <1>1, <1>2 DEF ControlTypeOK

\* Updating a function at an executor, or at an executor and a file.
LEMMA UpdateAt ==
    ASSUME NEW V, NEW g \in [Executors -> V], NEW e \in Executors, NEW v \in V
    PROVE  [g EXCEPT ![e] = v] \in [Executors -> V]
  OBVIOUS

LEMMA UpdateAtFile ==
    ASSUME NEW V, NEW g \in [Executors -> [Files -> V]], NEW e \in Executors,
           NEW f \in Files, NEW v \in V,
           NEW h, h = [g EXCEPT ![e][f] = v]
    PROVE  h \in [Executors -> [Files -> V]]
<1>1. [g[e] EXCEPT ![f] = v] \in [Files -> V]
  OBVIOUS
<1> QED
  BY <1>1, UpdateAt

LEMMA TypeInit == Init => TypeOK
<1> SUFFICES ASSUME Init PROVE TypeOK
  OBVIOUS
<1>1. FileSystemTypeOK
  BY DEF Init, FileSystemTypeOK, Stored
<1>2. PlanTypeOK
  BY DEF Init, PlanTypeOK
<1>3. ControlTypeOK
  BY DEF Init, ControlTypeOK, Phases
<1>4. MemoryTypeOK
  BY DEF Init, MemoryTypeOK, Stored, Operations
<1>5. OutcomeTypeOK /\ HistoryTypeOK
  BY BoundsAssumption DEF Init, OutcomeTypeOK, HistoryTypeOK, Statuses
<1> QED
  BY <1>1, <1>2, <1>3, <1>4, <1>5 DEF TypeOK

\* Every step of an executor keeps the types: one step per action, and under
\* it one per part of the state the action writes.
LEMMA TypeStep ==
    ASSUME TypeOK, NEW e \in Executors, Step(e)
    PROVE  TypeOK'
<1> USE DEF TypeOK, fs, plan, control, memory, outcome, history, budgets
<1> DEFINE Items == SUBSET (Files \cup Dirs)
<1>0. /\ todo[e] \in Items /\ committed[e] \in Items /\ created[e] \in Items
      /\ chain[e] \in Items /\ Mutates(e) \in Items /\ Files \in Items /\ {} \in Items
      /\ pc[e] \in Phases
  BY DEF ControlTypeOK, MemoryTypeOK, Mutates
<1>a. \A x : todo[e] \ {x} \in Items
  BY <1>0
<1> HIDE DEF Items
<1>1. CASE Admit(e)
  <2>1. ControlTypeOK'
    BY <1>0, <1>1, EnterType DEF Admit, Phases, Items
  <2>2. OutcomeTypeOK'
    BY <1>1 DEF Admit, OutcomeTypeOK, Statuses
  <2> QED
    BY <1>1, <2>1, <2>2 DEF Admit, FileSystemTypeOK, PlanTypeOK, MemoryTypeOK, HistoryTypeOK
<1>2. CASE EvaluateFile(e)
  <2> DEFINE f == First(todo[e])
  <2>1. ControlTypeOK'
    BY <1>0, <1>a, <1>2, EnterType DEF EvaluateFile, Loop, Phases, Items
  <2>2. f \in Files /\ Revalidated(f) \in Operations /\ dest[f] \in Stored /\ Absent \in Stored
    BY OrderInRange DEF Revalidated, PlannedOperation, Operations, FileSystemTypeOK, Stored
  <2>3. MemoryTypeOK'
    BY <1>2, <2>2, OrderInRange DEF EvaluateFile, MemoryTypeOK, Operations
  <2>4. HistoryTypeOK'
    BY <1>2, FaultBudget DEF EvaluateFile, HistoryTypeOK
  <2> QED
    BY <1>2, <2>1, <2>3, <2>4 DEF EvaluateFile, FileSystemTypeOK, PlanTypeOK, OutcomeTypeOK
<1>3. CASE Gate(e)
  <2>1. ControlTypeOK'
    BY <1>0, <1>3, EnterType DEF Gate, Finish, Phases, Items
  <2>2. OutcomeTypeOK'
    BY <1>3 DEF Gate, Finish, OutcomeTypeOK, Statuses
  <2> QED
    BY <1>3, <2>1, <2>2 DEF Gate, FileSystemTypeOK, PlanTypeOK, MemoryTypeOK, HistoryTypeOK
<1>4. CASE CreateDirectory(e)
  <2> DEFINE d == FirstDir(todo[e])
  <2>1. ControlTypeOK'
    BY <1>0, <1>a, <1>4, EnterType DEF CreateDirectory, Loop, Raise, Phases, Items
  <2>2. d \in Dirs
    BY OrderInRange
  <2>3. FileSystemTypeOK'
    BY <1>4, <2>2 DEF CreateDirectory, FileSystemTypeOK
  <2>4. MemoryTypeOK'
    <3>1. created' \in {created, [created EXCEPT ![e] = created[e] \cup {d}]}
      BY <1>4 DEF CreateDirectory
    <3>2. created \in [Executors -> SUBSET Dirs] /\ created[e] \cup {d} \in SUBSET Dirs
      BY <2>2 DEF MemoryTypeOK
    <3>3. created' \in [Executors -> SUBSET Dirs]
      BY <3>1, <3>2, UpdateAt
    <3> QED
      BY <1>4, <3>3 DEF CreateDirectory, MemoryTypeOK
  <2>5. HistoryTypeOK'
    <3>1. touched \in [Executors -> Items] /\ touched[e] \cup {d} \in Items
      BY <2>2 DEF HistoryTypeOK, Items
    <3>2. touched' \in {touched, [touched EXCEPT ![e] = touched[e] \cup {d}]}
      BY <1>4 DEF CreateDirectory
    <3>3. touched' \in [Executors -> Items]
      BY <3>1, <3>2, UpdateAt
    <3> QED
      BY <1>4, <3>3, FaultBudget DEF CreateDirectory, HistoryTypeOK, Items
  <2> QED
    BY <1>4, <2>1, <2>3, <2>4, <2>5 DEF CreateDirectory, PlanTypeOK, OutcomeTypeOK
<1>5. CASE CreateBackup(e)
  <2> DEFINE f == First(todo[e])
  <2>1. ControlTypeOK'
    BY <1>0, <1>5, EnterType DEF CreateBackup, Raise, Phases, Items, ControlTypeOK
  <2>2. f \in Files /\ dest[f] \in Stored /\ Absent \in Stored /\ Torn \in Stored
    BY OrderInRange DEF FileSystemTypeOK, Stored
  <2>a. \/ bak' = bak /\ bakSha' = bakSha
        \/ \E v, w \in Stored : /\ bak' = [bak EXCEPT ![e][f] = v]
                                 /\ bakSha' = [bakSha EXCEPT ![e][f] = w]
    BY <1>5, <2>2 DEF CreateBackup
  <2>b. bak \in [Executors -> [Files -> Stored]] /\ bakSha \in [Executors -> [Files -> Stored]]
    BY DEF FileSystemTypeOK, MemoryTypeOK
  <2>c. bak' \in [Executors -> [Files -> Stored]] /\ bakSha' \in [Executors -> [Files -> Stored]]
    BY <2>2, <2>a, <2>b, UpdateAtFile
  <2>3. FileSystemTypeOK'
    <3>1. stray' \in SUBSET Files
      BY <1>5, <2>2 DEF CreateBackup, FileSystemTypeOK
    <3> QED
      BY <1>5, <2>c, <3>1 DEF CreateBackup, FileSystemTypeOK
  <2>4. MemoryTypeOK'
    BY <1>5, <2>c DEF CreateBackup, MemoryTypeOK
  <2>5. HistoryTypeOK'
    BY <1>5, FaultBudget DEF CreateBackup, HistoryTypeOK
  <2> QED
    BY <1>5, <2>1, <2>3, <2>4, <2>5 DEF CreateBackup, PlanTypeOK, OutcomeTypeOK
<1>6. CASE CreateTemp(e)
  <2> DEFINE f == First(todo[e])
  <2>1. ControlTypeOK'
    BY <1>0, <1>a, <1>6, EnterType DEF CreateTemp, Loop, Raise, Phases, Items
  <2>2. f \in Files /\ Source[f] \in Stored /\ Torn \in Stored
    BY OrderInRange, ContentsAssumption DEF Stored
  <2>a. tmp' = tmp \/ \E v \in Stored : tmp' = [tmp EXCEPT ![e][f] = v]
    BY <1>6, <2>2 DEF CreateTemp
  <2>b. tmp' \in [Executors -> [Files -> Stored]]
    BY <2>2, <2>a, UpdateAtFile DEF FileSystemTypeOK
  <2>c. stray' \in SUBSET Files
    BY <1>6, <2>2 DEF CreateTemp, FileSystemTypeOK
  <2>3. FileSystemTypeOK'
    BY <1>6, <2>b, <2>c DEF CreateTemp, FileSystemTypeOK
  <2>4. HistoryTypeOK'
    BY <1>6, FaultBudget DEF CreateTemp, HistoryTypeOK
  <2> QED
    BY <1>6, <2>1, <2>3, <2>4 DEF CreateTemp, PlanTypeOK, MemoryTypeOK, OutcomeTypeOK
<1>7. CASE CheckAbsent(e)
  <2>1. ControlTypeOK'
    BY <1>0, <1>7, EnterType DEF CheckAbsent, Raise, Phases, Items
  <2> QED
    BY <1>7, <2>1 DEF CheckAbsent, FileSystemTypeOK, PlanTypeOK, MemoryTypeOK,
                      OutcomeTypeOK, HistoryTypeOK
<1>8. CASE Replace(e)
  <2> DEFINE f == First(todo[e])
  <2>1. ControlTypeOK'
    BY <1>0, <1>8, EnterType DEF Replace, Raise, Phases, Items
  <2>2. f \in Files /\ tmp[e][f] \in Stored /\ Absent \in Stored
    BY OrderInRange DEF FileSystemTypeOK, Stored
  <2>a. tmp' = tmp \/ tmp' = [tmp EXCEPT ![e][f] = Absent]
    BY <1>8 DEF Replace
  <2>b. tmp' \in [Executors -> [Files -> Stored]]
    BY <2>2, <2>a, UpdateAtFile DEF FileSystemTypeOK
  <2>c. dest' \in [Files -> Stored]
    BY <1>8, <2>2 DEF Replace, FileSystemTypeOK
  <2>3. FileSystemTypeOK'
    BY <1>8, <2>b, <2>c DEF Replace, FileSystemTypeOK
  <2>d. committed' \in {committed, [committed EXCEPT ![e] = committed[e] \cup {f}]}
    BY <1>8 DEF Replace
  <2>e. committed \in [Executors -> SUBSET Files] /\ committed[e] \cup {f} \in SUBSET Files
    BY <2>2 DEF MemoryTypeOK
  <2>g. committed' \in [Executors -> SUBSET Files]
    BY <2>d, <2>e, UpdateAt
  <2>4. MemoryTypeOK'
    BY <1>8, <2>g DEF Replace, MemoryTypeOK
  <2>5. HistoryTypeOK'
    <3>1. touched \in [Executors -> Items] /\ touched[e] \cup {f} \in Items
      BY <2>2 DEF HistoryTypeOK, Items
    <3>2. touched' \in {touched, [touched EXCEPT ![e] = touched[e] \cup {f}]}
      BY <1>8 DEF Replace
    <3>3. touched' \in [Executors -> Items]
      BY <3>1, <3>2, UpdateAt
    <3> QED
      BY <1>8, <3>3, FaultBudget DEF Replace, HistoryTypeOK, Items
  <2> QED
    BY <1>8, <2>1, <2>3, <2>4, <2>5 DEF Replace, PlanTypeOK, OutcomeTypeOK
<1>9. CASE VerifyCommit(e)
  <2> DEFINE f == First(todo[e])
  <2>1. ControlTypeOK'
    BY <1>0, <1>a, <1>9, EnterType DEF VerifyCommit, Raise, Phases, Items
  <2>2. f \in Files /\ dest[f] \in Stored /\ Absent \in Stored
    BY OrderInRange DEF FileSystemTypeOK, Stored
  <2>3. MemoryTypeOK'
    BY <1>9, <2>2 DEF VerifyCommit, MemoryTypeOK
  <2>4. HistoryTypeOK'
    BY <1>9, FaultBudget DEF VerifyCommit, HistoryTypeOK
  <2> QED
    BY <1>9, <2>1, <2>3, <2>4 DEF VerifyCommit, FileSystemTypeOK, PlanTypeOK, OutcomeTypeOK
<1>10. CASE PostVerify(e)
  <2>1. ControlTypeOK'
    BY <1>0, <1>a, <1>10, EnterType DEF PostVerify, Finish, Phases, Items
  <2>2. MemoryTypeOK'
    BY <1>10 DEF PostVerify, MemoryTypeOK
  <2>3. OutcomeTypeOK'
    BY <1>10 DEF PostVerify, Finish, OutcomeTypeOK, Statuses
  <2>4. HistoryTypeOK'
    BY <1>10, FaultBudget DEF PostVerify, HistoryTypeOK
  <2> QED
    BY <1>10, <2>1, <2>2, <2>3, <2>4 DEF PostVerify, FileSystemTypeOK, PlanTypeOK
<1>11. CASE Discard(e)
  <2>1. ControlTypeOK'
    BY <1>0, <1>11, EnterType DEF Discard, Finish, Phases, Items
  <2>2. tmp' \in [Executors -> [Files -> Stored]]
    <3>1. [f \in Files |-> Absent] \in [Files -> Stored]
      BY DEF Stored
    <3> QED
      BY <1>11, <3>1, UpdateAt DEF Discard, FileSystemTypeOK
  <2>3. stray' \in SUBSET Files
    BY <1>11 DEF Discard, FileSystemTypeOK
  <2>4. FileSystemTypeOK'
    BY <1>11, <2>2, <2>3 DEF Discard, FileSystemTypeOK
  <2>5. OutcomeTypeOK'
    BY <1>11 DEF Discard, Finish, OutcomeTypeOK, Statuses
  <2>6. HistoryTypeOK'
    BY <1>11, FaultBudget DEF Discard, HistoryTypeOK
  <2> QED
    BY <1>11, <2>1, <2>4, <2>5, <2>6 DEF Discard, PlanTypeOK, MemoryTypeOK
<1>b. ASSUME NEW f, NextCompensation(e, f) PROVE ControlTypeOK'
  BY <1>0, <1>a, <1>b, EnterType DEF NextCompensation, Phases, Items
<1>12. CASE Restore(e)
  <2> DEFINE f == Last(todo[e])
  <2>1. ControlTypeOK'
    BY <1>0, <1>b, <1>12, EnterType DEF Restore, Phases, Items
  <2>2. f \in Files /\ bak[e][f] \in Stored
    BY OrderInRange DEF FileSystemTypeOK
  <2>3. FileSystemTypeOK'
    <3>1. dest' \in [Files -> Stored]
      BY <1>12, <2>2 DEF Restore, FileSystemTypeOK
    <3>2. stray' \in SUBSET Files
      BY <1>12, <2>2 DEF Restore, FileSystemTypeOK
    <3> QED
      BY <1>12, <3>1, <3>2 DEF Restore, FileSystemTypeOK
  <2>4. MemoryTypeOK'
    BY <1>12 DEF Restore, MemoryTypeOK
  <2>5. HistoryTypeOK'
    <3>1. touched \in [Executors -> Items] /\ touched[e] \cup {f} \in Items
      BY <2>2 DEF HistoryTypeOK, Items
    <3>2. touched' \in {touched, [touched EXCEPT ![e] = touched[e] \cup {f}]}
      BY <1>12 DEF Restore
    <3>3. touched' \in [Executors -> Items]
      BY <3>1, <3>2, UpdateAt
    <3>4. undone' \in SUBSET Files
      BY <1>12, <2>2 DEF Restore, HistoryTypeOK
    <3> QED
      BY <1>12, <3>3, <3>4, FaultBudget DEF Restore, HistoryTypeOK, Items
  <2> QED
    BY <1>12, <2>1, <2>3, <2>4, <2>5 DEF Restore, PlanTypeOK, OutcomeTypeOK
<1>13. CASE RecheckRestored(e)
  <2>1. ControlTypeOK'
    BY <1>b, <1>13 DEF RecheckRestored
  <2>2. MemoryTypeOK'
    BY <1>13 DEF RecheckRestored, MemoryTypeOK
  <2>3. HistoryTypeOK'
    BY <1>13, FaultBudget DEF RecheckRestored, HistoryTypeOK
  <2> QED
    BY <1>13, <2>1, <2>2, <2>3 DEF RecheckRestored, FileSystemTypeOK, PlanTypeOK, OutcomeTypeOK
<1>14. CASE CheckCreated(e)
  <2>1. ControlTypeOK'
    BY <1>0, <1>b, <1>14, EnterType DEF CheckCreated, Phases, Items
  <2>2. MemoryTypeOK'
    BY <1>14 DEF CheckCreated, MemoryTypeOK
  <2>3. HistoryTypeOK'
    BY <1>14, FaultBudget DEF CheckCreated, HistoryTypeOK
  <2> QED
    BY <1>14, <2>1, <2>2, <2>3 DEF CheckCreated, FileSystemTypeOK, PlanTypeOK, OutcomeTypeOK
<1>15. CASE UnlinkCreated(e)
  <2> DEFINE f == Last(todo[e])
  <2>1. ControlTypeOK'
    BY <1>b, <1>15 DEF UnlinkCreated
  <2>2. f \in Files /\ Absent \in Stored
    BY OrderInRange DEF Stored
  <2>3. FileSystemTypeOK'
    BY <1>15, <2>2 DEF UnlinkCreated, FileSystemTypeOK
  <2>4. MemoryTypeOK'
    BY <1>15 DEF UnlinkCreated, MemoryTypeOK
  <2>5. HistoryTypeOK'
    <3>1. touched \in [Executors -> Items] /\ touched[e] \cup {f} \in Items
      BY <2>2 DEF HistoryTypeOK, Items
    <3>2. touched' \in {touched, [touched EXCEPT ![e] = touched[e] \cup {f}]}
      BY <1>15 DEF UnlinkCreated
    <3>3. touched' \in [Executors -> Items]
      BY <3>1, <3>2, UpdateAt
    <3>4. undone' \in SUBSET Files
      BY <1>15, <2>2 DEF UnlinkCreated, HistoryTypeOK
    <3> QED
      BY <1>15, <3>3, <3>4, FaultBudget DEF UnlinkCreated, HistoryTypeOK, Items
  <2> QED
    BY <1>15, <2>1, <2>3, <2>4, <2>5 DEF UnlinkCreated, PlanTypeOK, OutcomeTypeOK
<1>16. CASE RemoveDirectory(e)
  <2> DEFINE d == LastDir(todo[e])
  <2>1. ControlTypeOK'
    BY <1>0, <1>a, <1>16, EnterType DEF RemoveDirectory, Phases, Items
  <2>2. d \in Dirs
    BY OrderInRange
  <2>3. FileSystemTypeOK'
    BY <1>16 DEF RemoveDirectory, FileSystemTypeOK
  <2>4. MemoryTypeOK'
    <3>1. removed' \in {removed, [removed EXCEPT ![e] = removed[e] \cup {d}]}
      BY <1>16 DEF RemoveDirectory
    <3>2. removed \in [Executors -> SUBSET Dirs] /\ removed[e] \cup {d} \in SUBSET Dirs
      BY <2>2 DEF MemoryTypeOK
    <3>3. removed' \in [Executors -> SUBSET Dirs]
      BY <3>1, <3>2, UpdateAt
    <3>4. clean' \in [Executors -> BOOLEAN]
      BY <1>16 DEF RemoveDirectory, MemoryTypeOK
    <3> QED
      BY <1>16, <3>3, <3>4 DEF RemoveDirectory, MemoryTypeOK
  <2>5. HistoryTypeOK'
    <3>1. touched \in [Executors -> Items] /\ touched[e] \cup {d} \in Items
      BY <2>2 DEF HistoryTypeOK, Items
    <3>2. touched' \in {touched, [touched EXCEPT ![e] = touched[e] \cup {d}]}
      BY <1>16 DEF RemoveDirectory
    <3>3. touched' \in [Executors -> Items]
      BY <3>1, <3>2, UpdateAt
    <3> QED
      BY <1>16, <3>3, FaultBudget DEF RemoveDirectory, HistoryTypeOK, Items
  <2> QED
    BY <1>16, <2>1, <2>3, <2>4, <2>5 DEF RemoveDirectory, PlanTypeOK, OutcomeTypeOK
<1>17. CASE Conclude(e)
  <2>1. ControlTypeOK'
    BY <1>0, <1>17, EnterType DEF Conclude, Finish, Phases, Items
  <2>2. OutcomeTypeOK'
    BY <1>17 DEF Conclude, Finish, OutcomeTypeOK, Statuses
  <2> QED
    BY <1>17, <2>1, <2>2 DEF Conclude, FileSystemTypeOK, PlanTypeOK, MemoryTypeOK, HistoryTypeOK
<1>18. CASE WriteReceipt(e)
  <2>1. ControlTypeOK'
    BY <1>0, <1>18, EnterType DEF WriteReceipt, Phases, Items
  <2>2. OutcomeTypeOK'
    BY <1>18 DEF WriteReceipt, OutcomeTypeOK
  <2>3. HistoryTypeOK'
    BY <1>18, FaultBudget DEF WriteReceipt, HistoryTypeOK
  <2> QED
    BY <1>18, <2>1, <2>2, <2>3 DEF WriteReceipt, FileSystemTypeOK, PlanTypeOK, MemoryTypeOK
<1> QED
  BY <1>1, <1>2, <1>3, <1>4, <1>5, <1>6, <1>7, <1>8, <1>9, <1>10, <1>11, <1>12,
     <1>13, <1>14, <1>15, <1>16, <1>17, <1>18 DEF Step

\* So do the steps of the environment: kills, foreign writes, rest.
LEMMA TypeEnvironment ==
    ASSUME TypeOK,
           \/ \E e \in Executors : Crash(e)
           \/ \E f \in Files, c \in Contents \cup {Absent} : ForeignFile(f, c)
           \/ \E d \in Dirs : ForeignMakeDirectory(d) \/ ForeignRemoveDirectory(d)
           \/ UNCHANGED vars
    PROVE  TypeOK'
<1> USE DEF TypeOK, fs, plan, control, memory, outcome, history, budgets
<1>1. ASSUME NEW e \in Executors, Crash(e) PROVE TypeOK'
  <2>1. ControlTypeOK'
    BY <1>1, EnterType DEF Crash, Phases
  <2>2. OutcomeTypeOK'
    BY <1>1 DEF Crash, OutcomeTypeOK
  <2>3. HistoryTypeOK'
    BY <1>1, BoundsAssumption DEF Crash, HistoryTypeOK
  <2>4. FileSystemTypeOK'
    BY <1>1, OrderInRange DEF Crash, FileSystemTypeOK
  <2> QED
    BY <1>1, <2>1, <2>2, <2>3, <2>4 DEF Crash, PlanTypeOK, MemoryTypeOK
<1>2. ASSUME Interfere PROVE PlanTypeOK' /\ ControlTypeOK' /\ MemoryTypeOK'
                             /\ OutcomeTypeOK' /\ HistoryTypeOK'
  BY <1>2, BoundsAssumption DEF Interfere, PlanTypeOK, ControlTypeOK, MemoryTypeOK,
     OutcomeTypeOK, HistoryTypeOK
<1>3. ASSUME NEW f \in Files, NEW c \in Contents \cup {Absent}, ForeignFile(f, c)
      PROVE  TypeOK'
  <2>1. FileSystemTypeOK'
    BY <1>3 DEF ForeignFile, Interfere, FileSystemTypeOK, Stored
  <2> QED
    BY <1>2, <1>3, <2>1 DEF ForeignFile
<1>4. ASSUME NEW d \in Dirs, ForeignMakeDirectory(d) \/ ForeignRemoveDirectory(d)
      PROVE  TypeOK'
  <2>1. FileSystemTypeOK'
    BY <1>4 DEF ForeignMakeDirectory, ForeignRemoveDirectory, Interfere, FileSystemTypeOK
  <2> QED
    BY <1>2, <1>4, <2>1 DEF ForeignMakeDirectory, ForeignRemoveDirectory
<1>5. CASE UNCHANGED vars
  BY <1>5 DEF vars, FileSystemTypeOK, PlanTypeOK, ControlTypeOK, MemoryTypeOK,
              OutcomeTypeOK, HistoryTypeOK
<1> QED
  BY <1>1, <1>3, <1>4, <1>5

\* Every reachable state is well typed: in particular every phase, status and
\* operation is one the code names, and no budget is overdrawn.
THEOREM TypeCorrect == Spec => []TypeOK
<1>1. TypeOK /\ [Next]_vars => TypeOK'
  BY TypeStep, TypeEnvironment DEF Next, Rest
<1> QED
  BY <1>1, TypeInit, PTL DEF Spec

-----------------------------------------------------------------------------
(* The inductive invariant behind NoTornDestination and                      *)
(* AllPreparedBeforeCommit: what each executor's temporaries and backups are *)
(* worth in each part of its run.                                            *)

Preparing    == {"start", "evaluate", "gate", "mkdir", "prepare"}
Committing   == {"commit", "replace", "verify", "postverify"}
Compensating == {"discard", "compensate", "recheck", "unlink"}

VerifiedBackup(e, f) == bak[e][f] \in Contents /\ bakSha[e][f] = bak[e][f]

\* Before the first commit nothing is committed, every temporary and every
\* backup that exists was verified, and the files off the work list have theirs.
PreparingInv(e) ==
    pc[e] \in Preparing =>
        /\ committed[e] = {}
        /\ \A f \in Files : tmp[e][f] \in {Absent, Source[f]}
        /\ \A f \in Files : bak[e][f] # Absent => VerifiedBackup(e, f)
        /\ pc[e] = "prepare" =>
             \A f \in Mutates(e) \ todo[e] :
                 /\ tmp[e][f] = Source[f]
                 /\ op[e][f] = "replace_required" => VerifiedBackup(e, f)

\* From then on every file of the plan is committed or still has its temporary.
CommittingInv(e) ==
    pc[e] \in Committing =>
        /\ \A f \in Files : tmp[e][f] \in {Absent, Source[f]} /\ bak[e][f] # Torn
        /\ \A f \in Mutates(e) :
             /\ f \in committed[e] \/ tmp[e][f] = Source[f]
             /\ op[e][f] = "replace_required" => VerifiedBackup(e, f)

\* A torn backup is met only on the way out of an executor that committed
\* nothing, so compensation never restores one.
CompensatingInv(e) ==
    pc[e] \in Compensating /\ committed[e] # {} => \A f \in Files : bak[e][f] # Torn
CompensatesCommits(e) ==
    pc[e] \in Compensating \ {"discard"} => committed[e] # {}

ExecutorInv(e) == PreparingInv(e) /\ CommittingInv(e) /\ CompensatingInv(e)
                  /\ CompensatesCommits(e)

IInv == TypeOK /\ NoTornDestination /\ \A e \in Executors : ExecutorInv(e)

LEMMA InvInit == Init => IInv
<1> SUFFICES ASSUME Init PROVE IInv
  OBVIOUS
<1>1. NoTornDestination
  BY ContentsAssumption DEF Init, NoTornDestination
<1>2. ASSUME NEW e \in Executors PROVE ExecutorInv(e)
  BY DEF Init, ExecutorInv, PreparingInv, CommittingInv, CompensatingInv,
         CompensatesCommits, Committing, Compensating, VerifiedBackup
<1> QED
  BY <1>1, <1>2, TypeInit DEF IInv

\* What ExecutorInv(x) depends on.
Private(x) == <<pc[x], todo[x], op[x], tmp[x], bak[x], bakSha[x], committed[x]>>

LEMMA PrivateFrame ==
    ASSUME NEW x, ExecutorInv(x), Private(x)' = Private(x)
    PROVE  ExecutorInv(x)'
  BY DEF Private, ExecutorInv, PreparingInv, CommittingInv, CompensatingInv,
         CompensatesCommits, VerifiedBackup, Mutates

\* No step of one executor writes the memory of another.
LEMMA StepIsPrivate ==
    ASSUME TypeOK, NEW e \in Executors, Step(e), NEW x \in Executors, x # e
    PROVE  Private(x)' = Private(x)
<1> USE DEF TypeOK, FileSystemTypeOK, ControlTypeOK, MemoryTypeOK,
            fs, plan, control, memory, outcome, history, budgets
<1>1. ASSUME NEW p, NEW s, Enter(e, p, s) PROVE pc'[x] = pc[x] /\ todo'[x] = todo[x]
  BY <1>1 DEF Enter
<1>2. CASE Admit(e) \/ Gate(e)
  BY <1>1, <1>2 DEF Admit, Gate, Finish, Private
<1>3. CASE EvaluateFile(e)
  BY <1>1, <1>3 DEF EvaluateFile, Loop, Private
<1>4. CASE CreateDirectory(e)
  BY <1>1, <1>4 DEF CreateDirectory, Loop, Raise, Private
<1>5. CASE CreateBackup(e)
  BY <1>1, <1>5 DEF CreateBackup, Raise, Private
<1>6. CASE CreateTemp(e)
  BY <1>1, <1>6 DEF CreateTemp, Loop, Raise, Private
<1>7. CASE CheckAbsent(e) \/ VerifyCommit(e)
  BY <1>1, <1>7 DEF CheckAbsent, VerifyCommit, Raise, Private
<1>8. CASE Replace(e)
  BY <1>1, <1>8 DEF Replace, Raise, Private
<1>9. CASE PostVerify(e)
  BY <1>1, <1>9 DEF PostVerify, Finish, Private
<1>10. CASE Discard(e)
  BY <1>1, <1>10 DEF Discard, Finish, Private
<1>11. CASE Restore(e) \/ RecheckRestored(e)
  BY <1>1, <1>11 DEF Restore, RecheckRestored, NextCompensation, Private
<1>12. CASE CheckCreated(e) \/ UnlinkCreated(e)
  BY <1>1, <1>12 DEF CheckCreated, UnlinkCreated, NextCompensation, Private
<1>13. CASE RemoveDirectory(e) \/ Conclude(e) \/ WriteReceipt(e)
  BY <1>1, <1>13 DEF RemoveDirectory, Conclude, WriteReceipt, Finish, Private
<1> QED
  BY <1>2, <1>3, <1>4, <1>5, <1>6, <1>7, <1>8, <1>9, <1>10, <1>11, <1>12, <1>13 DEF Step

\* No step of an executor puts torn content in place: what it moves to a
\* destination is a verified temporary or a verified backup.
LEMMA NoTornStep ==
    ASSUME TypeOK, NoTornDestination, NEW e \in Executors, ExecutorInv(e), Step(e)
    PROVE  NoTornDestination'
<1> USE DEF TypeOK, FileSystemTypeOK, fs, plan, control, memory, outcome, history, budgets
<1>1. CASE Replace(e)
  <2> DEFINE f == First(todo[e])
  <2>1. f \in Files /\ Source[f] # Torn
    BY OrderInRange, ContentsAssumption
  <2>2. tmp[e][f] # Torn
    BY <1>1, <2>1, ContentsAssumption DEF Replace, ExecutorInv, CommittingInv, Committing
  <2>3. dest' = dest \/ dest' = [dest EXCEPT ![f] = tmp[e][f]]
    BY <1>1 DEF Replace
  <2> QED
    BY <2>1, <2>2, <2>3 DEF NoTornDestination
<1>2. CASE Restore(e)
  <2> DEFINE f == Last(todo[e])
  <2>1. f \in Files
    BY OrderInRange
  <2>2. bak[e][f] # Torn
    BY <1>2, <2>1 DEF Restore, ExecutorInv, CompensatingInv, CompensatesCommits, Compensating
  <2>3. dest' = dest \/ dest' = [dest EXCEPT ![f] = bak[e][f]]
    BY <1>2 DEF Restore
  <2> QED
    BY <2>1, <2>2, <2>3 DEF NoTornDestination
<1>3. CASE UnlinkCreated(e)
  <2>1. \/ dest' = dest
        \/ dest' = [dest EXCEPT ![Last(todo[e])] = Absent]
    BY <1>3 DEF UnlinkCreated
  <2> QED
    BY <2>1, ContentsAssumption DEF NoTornDestination
<1>4. CASE ~(Replace(e) \/ Restore(e) \/ UnlinkCreated(e))
  <2>1. UNCHANGED dest
    BY <1>4 DEF Step, Admit, EvaluateFile, Gate, CreateDirectory, CreateBackup, CreateTemp,
       CheckAbsent, VerifyCommit, PostVerify, Discard, RecheckRestored, CheckCreated,
       RemoveDirectory, Conclude, WriteReceipt
  <2> QED
    BY <2>1 DEF NoTornDestination
<1> QED
  BY <1>1, <1>2, <1>3, <1>4

\* The steps of an executor keep what is known of its own memory.  An action
\* that leaves temporaries, backups, commits and operations alone only has to
\* enter a phase whose part of the invariant follows from the phase before.
LEMMA ExecutorInvStep ==
    ASSUME TypeOK, NoTornDestination, NEW e \in Executors, ExecutorInv(e), Step(e)
    PROVE  ExecutorInv(e)'
<1> USE DEF TypeOK, FileSystemTypeOK, ControlTypeOK, MemoryTypeOK,
            fs, plan, control, memory, outcome, history, budgets
<1> DEFINE Kept == <<op[e], tmp[e], bak[e], bakSha[e], committed[e]>>
<1>1. ASSUME NEW p, NEW s, Enter(e, p, s) PROVE pc'[e] = p /\ todo'[e] = s
  BY <1>1 DEF Enter
\* Leaving for a phase that no part of the invariant speaks of.
<1>2. ASSUME pc'[e] \notin Preparing \cup Committing \cup Compensating
      PROVE  ExecutorInv(e)'
  BY <1>2 DEF ExecutorInv, PreparingInv, CommittingInv, CompensatingInv, CompensatesCommits
\* Raising while everything prepared so far is verified, or nothing committed.
<1>3. ASSUME pc'[e] = "discard",
             committed'[e] # {} => \A f \in Files : bak'[e][f] # Torn
      PROVE  ExecutorInv(e)'
  BY <1>3 DEF ExecutorInv, PreparingInv, CommittingInv, CompensatingInv, CompensatesCommits,
     Preparing, Committing
\* Among the compensating phases.
<1>4. ASSUME pc[e] \in Compensating \ {"discard"}, Kept' = Kept,
             pc'[e] \in Compensating \ {"discard"}
      PROVE  ExecutorInv(e)'
  BY <1>4 DEF ExecutorInv, PreparingInv, CommittingInv, CompensatingInv, CompensatesCommits,
     Preparing, Committing, Compensating
\* Among the preparing phases before the first backup.
<1>5. ASSUME pc[e] \in Preparing, pc[e] # "prepare",
             <<tmp[e], bak[e], bakSha[e], committed[e]>>'
                = <<tmp[e], bak[e], bakSha[e], committed[e]>>,
             \/ pc'[e] \in Preparing \ {"prepare"}
             \/ pc'[e] = "prepare" /\ todo'[e] = Mutates(e) /\ op'[e] = op[e]
      PROVE  ExecutorInv(e)'
  BY <1>5 DEF ExecutorInv, PreparingInv, CommittingInv, CompensatingInv, CompensatesCommits,
     Preparing, Committing, Compensating, VerifiedBackup, Mutates
\* Among the committing phases, and out of them by an exception.
<1>6. ASSUME pc[e] \in Committing, Kept' = Kept, pc'[e] \in Committing \cup {"discard"}
      PROVE  ExecutorInv(e)'
  BY <1>6 DEF ExecutorInv, PreparingInv, CommittingInv, CompensatingInv, CompensatesCommits,
     Preparing, Committing, Compensating, VerifiedBackup, Mutates
<1>7. CASE Admit(e)
  BY <1>1, <1>2, <1>5, <1>7 DEF Admit, Preparing, Committing, Compensating
<1>8. CASE EvaluateFile(e)
  BY <1>1, <1>5, <1>8 DEF EvaluateFile, Loop, Preparing
<1>9. CASE Gate(e)
  BY <1>1, <1>2, <1>5, <1>9 DEF Gate, Finish, Preparing, Committing, Compensating
<1>10. CASE CreateDirectory(e)
  <2>1. UNCHANGED Kept /\ pc[e] = "mkdir"
    BY <1>10 DEF CreateDirectory
  <2>2. \/ pc'[e] = "discard"
        \/ pc'[e] = "mkdir"
        \/ pc'[e] = "prepare" /\ todo'[e] = Mutates(e)
    BY <1>1, <1>10 DEF CreateDirectory, Loop, Raise
  <2>3. committed[e] = {}
    BY <2>1 DEF ExecutorInv, PreparingInv, Preparing
  <2> QED
    BY <1>3, <1>5, <2>1, <2>2, <2>3 DEF Preparing
<1>11. CASE CreateBackup(e)
  <2> DEFINE f == First(todo[e])
  <2>1. /\ f \in Files /\ committed'[e] = {}
        /\ UNCHANGED <<op[e], tmp[e], committed[e]>> /\ pc[e] = "prepare"
    BY <1>11, OrderInRange DEF CreateBackup, ExecutorInv, PreparingInv, Preparing
  <2>2. CASE pc'[e] = "discard"
    BY <1>3, <2>1, <2>2
  <2>3. CASE pc'[e] # "discard"
    <3>1. /\ dest[f] # Absent /\ UNCHANGED control
          /\ bak' = [bak EXCEPT ![e][f] = dest[f]]
          /\ bakSha' = [bakSha EXCEPT ![e][f] = dest[f]]
      BY <1>1, <1>11, <2>3 DEF CreateBackup, Raise
    <3>2. dest[f] \in Contents
      BY <2>1, <3>1 DEF NoTornDestination, Stored
    <3>3. VerifiedBackup(e, f)'
      BY <2>1, <3>1, <3>2 DEF VerifiedBackup
    <3>4. \A g \in Files \ {f} : bak'[e][g] = bak[e][g] /\ bakSha'[e][g] = bakSha[e][g]
      BY <2>1, <3>1
    <3>5. PreparingInv(e)'
      BY <2>1, <3>1, <3>3, <3>4
         DEF ExecutorInv, PreparingInv, Preparing, VerifiedBackup, Mutates
    <3> QED
      BY <2>1, <3>1, <3>5 DEF ExecutorInv, CommittingInv, CompensatingInv,
         CompensatesCommits, Committing, Compensating
  <2> QED
    BY <2>2, <2>3
<1>12. CASE CreateTemp(e)
  <2> DEFINE f == First(todo[e])
  <2>1. /\ f \in Files /\ committed'[e] = {}
        /\ UNCHANGED <<op[e], bak[e], bakSha[e], committed[e]>> /\ pc[e] = "prepare"
        /\ op[e][f] = "replace_required" => VerifiedBackup(e, f)
    BY <1>12, OrderInRange DEF CreateTemp, ExecutorInv, PreparingInv, Preparing
  <2>2. CASE pc'[e] = "discard"
    BY <1>3, <2>1, <2>2
  <2>3. CASE pc'[e] # "discard"
    <3>1. /\ tmp' = [tmp EXCEPT ![e][f] = Source[f]]
          /\ \/ pc'[e] = "prepare" /\ todo'[e] = todo[e] \ {f}
             \/ pc'[e] = "commit" /\ todo[e] \ {f} = {}
      BY <1>1, <1>12, <2>1, <2>3 DEF CreateTemp, Loop, Raise
    <3>2. \A g \in Files : tmp'[e][g] = IF g = f THEN Source[f] ELSE tmp[e][g]
      BY <2>1, <3>1
    <3>3. /\ \A g \in Files : tmp'[e][g] \in {Absent, Source[g]}
          /\ \A g \in Mutates(e) \ (todo[e] \ {f}) :
                /\ tmp'[e][g] = Source[g]
                /\ op[e][g] = "replace_required" => VerifiedBackup(e, g)
      BY <2>1, <3>2 DEF ExecutorInv, PreparingInv, Preparing, Mutates
    <3>4. \A g \in Files : bak[e][g] # Torn
      BY <2>1, ContentsAssumption DEF ExecutorInv, PreparingInv, Preparing, VerifiedBackup
    <3>5. Mutates(e)' = Mutates(e) /\ \A g \in Files : VerifiedBackup(e, g)' = VerifiedBackup(e, g)
      BY <2>1 DEF Mutates, VerifiedBackup
    <3>6. \A g \in Files : bak[e][g] # Absent => VerifiedBackup(e, g)
      BY <2>1 DEF ExecutorInv, PreparingInv, Preparing
    <3>7. Mutates(e) \subseteq Files
      BY DEF Mutates
    <3>8. CASE pc'[e] = "prepare"
      BY <2>1, <3>1, <3>3, <3>5, <3>6, <3>7, <3>8 DEF ExecutorInv, PreparingInv, CommittingInv,
         CompensatingInv, CompensatesCommits, Committing, Compensating
    <3>9. CASE pc'[e] = "commit"
      BY <2>1, <3>1, <3>3, <3>4, <3>5, <3>7, <3>9 DEF ExecutorInv, PreparingInv, CommittingInv,
         CompensatingInv, CompensatesCommits, Preparing, Compensating
    <3> QED
      BY <3>1, <3>8, <3>9
  <2> QED
    BY <2>2, <2>3
<1>13. CASE CheckAbsent(e)
  BY <1>1, <1>6, <1>13 DEF CheckAbsent, Raise, Committing
<1>14. CASE Replace(e)
  <2> DEFINE f == First(todo[e])
  <2>1. f \in Files /\ pc[e] \in Committing
    BY <1>14, OrderInRange DEF Replace, Committing
  <2>2. CASE UNCHANGED <<tmp, committed>> /\ Raise(e)
    BY <1>1, <1>6, <1>14, <2>1, <2>2 DEF Replace, Raise
  <2>3. CASE ~(UNCHANGED <<tmp, committed>> /\ Raise(e))
    <3>1. /\ tmp' = [tmp EXCEPT ![e][f] = Absent]
          /\ committed' = [committed EXCEPT ![e] = @ \cup {f}]
          /\ pc'[e] = "verify"
          /\ UNCHANGED <<op, bak, bakSha>>
      BY <1>1, <1>14, <2>3 DEF Replace
    <3>2. \A g \in Files : tmp'[e][g] = IF g = f THEN Absent ELSE tmp[e][g]
      BY <2>1, <3>1
    <3>3. committed'[e] = committed[e] \cup {f}
      BY <3>1
    <3>4. CommittingInv(e)'
      BY <2>1, <3>1, <3>2, <3>3 DEF ExecutorInv, CommittingInv, Committing, VerifiedBackup, Mutates
    <3> QED
      BY <3>1, <3>4 DEF ExecutorInv, PreparingInv, CompensatingInv, CompensatesCommits,
         Preparing, Compensating
  <2> QED
    BY <2>2, <2>3
<1>15. CASE VerifyCommit(e)
  BY <1>1, <1>6, <1>15 DEF VerifyCommit, Raise, Committing
<1>16. CASE PostVerify(e)
  BY <1>1, <1>2, <1>6, <1>16 DEF PostVerify, Finish, Preparing, Committing, Compensating
<1>17. CASE Discard(e)
  <2>1. UNCHANGED <<op[e], bak[e], bakSha[e], committed[e]>> /\ pc[e] = "discard"
    BY <1>17 DEF Discard
  <2>2. \/ pc'[e] = "compensate" /\ committed[e] # {}
        \/ pc'[e] \in {"rmdir", "receipt"}
    BY <1>1, <1>17 DEF Discard, Finish
  <2>3. CASE pc'[e] = "compensate" /\ committed[e] # {}
    BY <2>1, <2>3 DEF ExecutorInv, PreparingInv, CommittingInv, CompensatingInv,
       CompensatesCommits, Preparing, Committing, Compensating
  <2> QED
    BY <1>2, <2>2, <2>3 DEF Preparing, Committing, Compensating
<1>18. ASSUME NEW f, NextCompensation(e, f), pc[e] \in Compensating \ {"discard"}, UNCHANGED Kept
       PROVE  ExecutorInv(e)'
  BY <1>1, <1>2, <1>4, <1>18 DEF NextCompensation, Preparing, Committing, Compensating
<1>19. CASE Restore(e)
  BY <1>1, <1>4, <1>18, <1>19 DEF Restore, Compensating
<1>20. CASE RecheckRestored(e)
  BY <1>18, <1>20 DEF RecheckRestored, Compensating
<1>21. CASE CheckCreated(e)
  BY <1>1, <1>4, <1>18, <1>21 DEF CheckCreated, Compensating
<1>22. CASE UnlinkCreated(e)
  BY <1>18, <1>22 DEF UnlinkCreated, Compensating
<1>23. CASE RemoveDirectory(e) \/ Conclude(e) \/ WriteReceipt(e)
  BY <1>1, <1>2, <1>23 DEF RemoveDirectory, Conclude, WriteReceipt, Finish,
     Preparing, Committing, Compensating
<1> QED
  BY <1>7, <1>8, <1>9, <1>10, <1>11, <1>12, <1>13, <1>14, <1>15, <1>16, <1>17,
     <1>19, <1>20, <1>21, <1>22, <1>23 DEF Step

\* A kill, another program and rest leave every executor's memory alone, but
\* for the killed one, which is past every phase the invariant speaks of.
LEMMA InvEnvironment ==
    ASSUME IInv,
           \/ \E e \in Executors : Crash(e)
           \/ \E f \in Files, c \in Contents \cup {Absent} : ForeignFile(f, c)
           \/ \E d \in Dirs : ForeignMakeDirectory(d) \/ ForeignRemoveDirectory(d)
           \/ UNCHANGED vars
    PROVE  IInv'
<1> USE DEF plan, control, memory, outcome, history, budgets
<1>1. TypeOK'
  BY TypeEnvironment DEF IInv
<1>2. NoTornDestination'
  BY ContentsAssumption DEF IInv, TypeOK, FileSystemTypeOK, NoTornDestination, Crash,
     ForeignFile, ForeignMakeDirectory, ForeignRemoveDirectory, vars, fs
<1>3. ASSUME NEW x \in Executors PROVE ExecutorInv(x)'
  <2>1. CASE Private(x)' = Private(x)
    BY <2>1, PrivateFrame DEF IInv
  <2>2. ASSUME NEW e \in Executors, Crash(e) PROVE ExecutorInv(x)'
    <3>1. CASE x = e
      <4>1. pc'[x] = "crashed"
        BY <2>2, <3>1 DEF Crash, Enter, IInv, TypeOK, ControlTypeOK
      <4> QED
        BY <4>1 DEF ExecutorInv, PreparingInv, CommittingInv, CompensatingInv,
           CompensatesCommits, Preparing, Committing, Compensating
    <3>2. CASE x # e
      BY <2>1, <2>2, <3>2 DEF Crash, Enter, IInv, TypeOK, ControlTypeOK, Private
    <3> QED
      BY <3>1, <3>2
  <2>3. CASE \/ \E f \in Files, c \in Contents \cup {Absent} : ForeignFile(f, c)
             \/ \E d \in Dirs : ForeignMakeDirectory(d) \/ ForeignRemoveDirectory(d)
             \/ UNCHANGED vars
    BY <2>1, <2>3 DEF ForeignFile, ForeignMakeDirectory, ForeignRemoveDirectory, Interfere,
       Private, vars, fs
  <2> QED
    BY <2>2, <2>3
<1> QED
  BY <1>1, <1>2, <1>3 DEF IInv

LEMMA InvStep == IInv /\ [Next]_vars => IInv'
<1> SUFFICES ASSUME IInv, [Next]_vars PROVE IInv'
  OBVIOUS
<1>1. ASSUME NEW e \in Executors, Step(e) PROVE IInv'
  <2>1. TypeOK' /\ NoTornDestination' /\ ExecutorInv(e)'
    BY <1>1, TypeStep, NoTornStep, ExecutorInvStep DEF IInv
  <2>2. ASSUME NEW x \in Executors, x # e PROVE ExecutorInv(x)'
    BY <1>1, <2>2, StepIsPrivate, PrivateFrame DEF IInv
  <2> QED
    BY <2>1, <2>2 DEF IInv
<1> QED
  BY <1>1, InvEnvironment DEF Next, Rest

LEMMA InvCorrect == Spec => []IInv
  BY InvInit, InvStep, PTL DEF Spec

\* No destination is ever half written, whatever fails, dies or interferes.
THEOREM NeverTorn == Spec => []NoTornDestination
<1>1. IInv => NoTornDestination
  BY DEF IInv
<1> QED
  BY <1>1, InvCorrect, PTL

\* Nothing is committed before everything is prepared and backed up.
THEOREM PreparedFirst == Spec => []AllPreparedBeforeCommit
<1>1. IInv => AllPreparedBeforeCommit
  BY DEF IInv, ExecutorInv, CommittingInv, Committing, VerifiedBackup, AllPreparedBeforeCommit
<1> QED
  BY <1>1, InvCorrect, PTL

-----------------------------------------------------------------------------
(* What an executor remembers and has done, phase by phase: any number of   *)
(* executors, any faults, kills and other programs.                         *)

Early    == {"start", "evaluate", "gate"}
Acting   == {"mkdir", "prepare", "commit", "replace", "verify", "postverify",
             "discard", "compensate", "recheck", "unlink", "rmdir"}
Finished == {"receipt", "done", "raised", "crashed"}
Chains   == {"config", "profiles"}

\* The statuses of a run that committed everything.
Through  == {"executed", "partial_executed", "verification_failed"}

\* A file that is not blocked passed its gates: its source is staged, and it was
\* found as the plan recorded it or already reconciled.
GrantInv(e) ==
    /\ \A f \in Files : op[e][f] # "blocked" =>
          /\ staged[f]
          /\ op[e][f] = "no_change" => seen[e][f] = Source[f]
          /\ f \in Mutates(e) => seen[e][f] = planned[f] /\ planned[f] # Source[f]
          /\ op[e][f] = "create_required" => planned[f] = Absent
    /\ op[e]["profile"] # "blocked" => chain[e] \subseteq MissingChain(plannedDirs)
    /\ pc[e] = "start" \/ (pc[e] = "evaluate" /\ "profile" \in todo[e]) => chain[e] = {}

\* What was done is within what was granted, and nothing is done before the gate.
DoneInv(e) ==
    /\ chain[e] \subseteq Chains
    /\ created[e] \subseteq chain[e] /\ removed[e] \subseteq created[e]
    /\ committed[e] \subseteq Mutates(e)
    /\ committed[e] \cup created[e] \subseteq touched[e]
    /\ touched[e] \subseteq committed[e] \cup chain[e]
    /\ pc[e] \in Early => touched[e] = {}
    /\ pc[e] \in Acting => Mutates(e) # {}
    /\ pc[e] \in Acting \/ touched[e] # {} => \A f \in Files : op[e][f] # "blocked"
    /\ pc[e] \in Early \cup (Acting \ {"rmdir"}) => removed[e] = {}
    /\ \A f \in committed[e] : op[e][f] = "replace_required" => VerifiedBackup(e, f)

\* The work list of each phase.
WorkInv(e) ==
    /\ pc[e] = "evaluate" => todo[e] \in {Files, {"wrapper"}}
    /\ pc[e] = "mkdir" => todo[e] \subseteq chain[e] /\ todo[e] # {}
    /\ pc[e] \in {"prepare"} \cup Committing => todo[e] \subseteq Mutates(e) /\ todo[e] # {}
    /\ pc[e] \in Committing => Mutates(e) \subseteq committed[e] \cup todo[e]
    /\ pc[e] \in {"commit", "replace"} => todo[e] \cap committed[e] = {}
    /\ pc[e] = "verify" => todo[e] \cap committed[e] = {First(todo[e])}
    /\ pc[e] = "postverify" => Mutates(e) \subseteq committed[e]
    /\ pc[e] \in {"compensate", "recheck", "unlink"} =>
          todo[e] \subseteq committed[e] /\ todo[e] # {}
    /\ pc[e] = "recheck" => op[e][Last(todo[e])] = "replace_required"
    /\ pc[e] = "unlink" => op[e][Last(todo[e])] = "create_required"
    /\ pc[e] = "rmdir" => todo[e] \subseteq created[e] \ removed[e]

\* A status is given once, and says how far the run got.
StatusInv(e) ==
    /\ pc[e] \notin Finished => status[e] = "none"
    /\ status[e] \in Through =>
          Mutates(e) \subseteq committed[e] /\ Mutates(e) # {} /\ \A f \in Files : op[e][f] # "blocked"
    /\ status[e] = "executed" => Mutates(e) = Files
    /\ status[e] = "partial_executed" => Mutates(e) # Files
    /\ status[e] = "no_change" => \A f \in Files : op[e][f] = "no_change"
    /\ status[e] \in {"no_change", "blocked"} => committed[e] = {} /\ created[e] = {}
    /\ status[e] = "verification_failed" => ~clean[e]

\* The hashes the receipt will show.
RecordInv(e) ==
    /\ pc[e] \in Early => \A f \in Files : bak[e][f] = Absent
    /\ \A f \in Files \ committed[e] : post[e][f] = Absent
    /\ pc[e] \in Committing \/ status[e] \in Through =>
          \A f \in committed[e] : post[e][f] = Source[f] \/ (pc[e] = "verify" /\ f = First(todo[e]))
    /\ pc[e] \in Preparing \cup Committing \/ status[e] \in Through \cup {"no_change"} =>
          \A f \in Files : bak[e][f] # Absent => op[e][f] = "replace_required" /\ VerifiedBackup(e, f)

RunInv(e) == GrantInv(e) /\ DoneInv(e) /\ WorkInv(e) /\ StatusInv(e) /\ RecordInv(e)

-----------------------------------------------------------------------------
LEMMA RunBegins ==
    ASSUME Init, NEW e \in Executors
    PROVE  RunInv(e)
BY DEF Init, RunInv, GrantInv, DoneInv, WorkInv, StatusInv, RecordInv, Mutates, Preparing,
       Early, Acting, Finished, Committing, Through

\* The order operators pick a member of a set that has one.
LEMMA OrderPicks ==
    /\ \A S \in SUBSET Files : S # {} => First(S) \in S /\ Last(S) \in S
    /\ \A S \in SUBSET Chains : S # {} => FirstDir(S) \in S /\ LastDir(S) \in S
BY DEF First, Last, FirstDir, LastDir, Files, Chains

\* What RunInv(x) depends on, beside the plan.
Memory(x) == <<op[x], seen[x], chain[x], bak[x], bakSha[x], post[x], committed[x], created[x],
               removed[x], touched[x]>>
Outcome(x) == <<clean[x], status[x]>>
Place(x)   == <<pc[x], todo[x]>>

LEMMA RunFrame ==
    ASSUME NEW x, RunInv(x), UNCHANGED <<plan, Memory(x), Outcome(x), Place(x)>>
    PROVE  RunInv(x)'
BY DEF plan, Memory, Outcome, Place, RunInv, GrantInv, DoneInv, WorkInv, StatusInv, RecordInv,
       Mutates, VerifiedBackup

\* No step of one executor writes the memory of another, or the plan.
LEMMA StepLeavesOthers ==
    ASSUME TypeOK, NEW e \in Executors, Step(e), NEW x \in Executors, x # e
    PROVE  UNCHANGED <<plan, Memory(x), Outcome(x), Place(x)>>
<1> USE DEF TypeOK, FileSystemTypeOK, ControlTypeOK, MemoryTypeOK, OutcomeTypeOK, HistoryTypeOK,
            fs, plan, control, memory, outcome, history, budgets
<1>1. ASSUME NEW p, NEW s, Enter(e, p, s) PROVE pc'[x] = pc[x] /\ todo'[x] = todo[x]
  BY <1>1 DEF Enter
<1>2. CASE Admit(e) \/ Gate(e)
  BY <1>1, <1>2 DEF Admit, Gate, Finish, Memory, Outcome, Place
<1>3. CASE EvaluateFile(e)
  BY <1>1, <1>3 DEF EvaluateFile, Loop, Memory, Outcome, Place
<1>4. CASE CreateDirectory(e)
  BY <1>1, <1>4 DEF CreateDirectory, Loop, Raise, Memory, Outcome, Place
<1>5. CASE CreateBackup(e)
  BY <1>1, <1>5 DEF CreateBackup, Raise, Memory, Outcome, Place
<1>6. CASE CreateTemp(e)
  BY <1>1, <1>6 DEF CreateTemp, Loop, Raise, Memory, Outcome, Place
<1>7. CASE CheckAbsent(e) \/ VerifyCommit(e)
  BY <1>1, <1>7 DEF CheckAbsent, VerifyCommit, Raise, Memory, Outcome, Place
<1>8. CASE Replace(e)
  BY <1>1, <1>8 DEF Replace, Raise, Memory, Outcome, Place
<1>9. CASE PostVerify(e)
  BY <1>1, <1>9 DEF PostVerify, Finish, Memory, Outcome, Place
<1>10. CASE Discard(e)
  BY <1>1, <1>10 DEF Discard, Finish, Memory, Outcome, Place
<1>11. CASE Restore(e) \/ RecheckRestored(e)
  BY <1>1, <1>11 DEF Restore, RecheckRestored, NextCompensation, Memory, Outcome, Place
<1>12. CASE CheckCreated(e) \/ UnlinkCreated(e)
  BY <1>1, <1>12 DEF CheckCreated, UnlinkCreated, NextCompensation, Memory, Outcome, Place
<1>13. CASE RemoveDirectory(e) \/ Conclude(e) \/ WriteReceipt(e)
  BY <1>1, <1>13 DEF RemoveDirectory, Conclude, WriteReceipt, Finish, Memory, Outcome, Place
<1> QED
  BY <1>2, <1>3, <1>4, <1>5, <1>6, <1>7, <1>8, <1>9, <1>10, <1>11, <1>12, <1>13 DEF Step

\* The step of an executor keeps RunInv: one case per action, each of which says
\* what the action changes and then appeals to the definitions.
LEMMA RunStep ==
    ASSUME IInv, NEW e \in Executors, RunInv(e), Step(e)
    PROVE  RunInv(e)'
<1> DEFINE Remembers == UNCHANGED <<plan, Memory(e)>>
<1>0. /\ todo[e] \subseteq Files \cup Dirs /\ committed[e] \subseteq Files
      /\ op[e] \in [Files -> Operations] /\ Mutates(e) \subseteq Files
      /\ ExecutorInv(e) /\ TypeOK
  BY DEF IInv, TypeOK, ControlTypeOK, MemoryTypeOK, Mutates
<1>t. /\ op \in [Executors -> [Files -> Operations]] /\ seen \in [Executors -> [Files -> Stored]]
      /\ chain \in [Executors -> SUBSET Dirs] /\ bakSha \in [Executors -> [Files -> Stored]]
      /\ post \in [Executors -> [Files -> Stored]] /\ committed \in [Executors -> SUBSET Files]
      /\ created \in [Executors -> SUBSET Dirs] /\ removed \in [Executors -> SUBSET Dirs]
      /\ clean \in [Executors -> BOOLEAN] /\ bak \in [Executors -> [Files -> Stored]]
      /\ status \in [Executors -> Statuses] /\ touched \in [Executors -> SUBSET (Files \cup Dirs)]
      /\ dest \in [Files -> Stored] /\ dirs \subseteq Dirs
  BY <1>0 DEF TypeOK, MemoryTypeOK, FileSystemTypeOK, OutcomeTypeOK, HistoryTypeOK
<1>e. ASSUME NEW p, NEW s, Enter(e, p, s) PROVE pc'[e] = p /\ todo'[e] = s
  BY <1>e, <1>0 DEF Enter, TypeOK, ControlTypeOK
<1>s. ASSUME NEW s, Finish(e, s)
      PROVE  pc'[e] = "receipt" /\ todo'[e] = {} /\ status'[e] = s
  BY <1>s, <1>e, <1>t DEF Finish
<1>g. ASSUME UNCHANGED <<plan, op[e], seen[e], chain[e]>>, pc'[e] \notin {"start", "evaluate"}
      PROVE  GrantInv(e)'
  BY <1>g DEF RunInv, GrantInv, Mutates, plan
<1>1. CASE Admit(e)
  <2>1. Remembers /\ pc[e] = "start" /\ UNCHANGED clean
    BY <1>1 DEF Admit, memory, plan, fs, history, Memory
  <2>2. \/ pc'[e] = "evaluate" /\ todo'[e] = Files /\ UNCHANGED status
        \/ pc'[e] = "done" /\ status'[e] = "blocked"
    BY <1>1, <1>e, <1>t DEF Admit
  <2> QED
    BY <2>1, <2>2 DEF RunInv, GrantInv, DoneInv, WorkInv, StatusInv, RecordInv, plan, Memory,
       Mutates, VerifiedBackup, Early, Acting, Finished, Through, Preparing, Committing
<1>2. CASE EvaluateFile(e)
  <2> DEFINE f == First(todo[e])
  <2>1. /\ pc[e] = "evaluate" /\ f \in todo[e] /\ f \in Files
        /\ f = "profile" => todo[e] = Files
        /\ UNCHANGED <<plan, bak, bakSha, post, committed, created, removed, touched, clean, status>>
    BY <1>2 DEF EvaluateFile, fs, outcome, history, RunInv, WorkInv, First, Files
  <2>2. PICK o \in Operations, v \in Stored :
           /\ op'[e] = [op[e] EXCEPT ![f] = o] /\ seen'[e] = [seen[e] EXCEPT ![f] = v]
           /\ o # "blocked" => staged[f] /\ ParentRevalidates(f) /\ o = Revalidated(f) /\ v = dest[f]
    <3>1. Revalidated(f) \in Operations /\ dest[f] \in Stored /\ Absent \in Stored
      <4>1. Revalidated(f) \in Operations
        BY DEF Revalidated, PlannedOperation, Operations
      <4>2. dest[f] \in Stored /\ Absent \in Stored
        BY <1>t, <2>1 DEF Stored
      <4> QED BY <4>1, <4>2
    <3>2. PICK readable \in BOOLEAN :
             /\ op' = [op EXCEPT ![e][f] = IF readable /\ staged[f] /\ ParentRevalidates(f)
                                          THEN Revalidated(f) ELSE "blocked"]
             /\ seen' = [seen EXCEPT ![e][f] = IF readable THEN dest[f] ELSE Absent]
      BY <1>2 DEF EvaluateFile
    <3>3. "blocked" \in Operations
      BY DEF Operations
    <3>4. CASE readable /\ staged[f] /\ ParentRevalidates(f)
      BY <1>t, <3>1, <3>2, <3>4
    <3>5. CASE ~(readable /\ staged[f] /\ ParentRevalidates(f))
      BY <1>t, <3>1, <3>2, <3>3, <3>5
    <3> QED BY <3>4, <3>5
  <2>3. \A g \in Files : /\ op'[e][g] = IF g = f THEN o ELSE op[e][g]
                         /\ seen'[e][g] = IF g = f THEN v ELSE seen[e][g]
    BY <1>t, <2>1, <2>2
  <2>4. \/ pc'[e] = "gate"
        \/ pc'[e] = "evaluate" /\ todo'[e] = {"wrapper"}
    BY <1>2, <1>e, <2>1 DEF EvaluateFile, Loop, RunInv, WorkInv, First, Files
  <2>5. chain'[e] = IF f = "profile" /\ Parent[f] \notin dirs THEN MissingChain(dirs) ELSE chain[e]
    BY <1>2, <1>t DEF EvaluateFile
  <2>6. GrantInv(e)'
    <3>1. \A g \in Files : op'[e][g] # "blocked" =>
             /\ staged'[g]
             /\ op'[e][g] = "no_change" => seen'[e][g] = Source[g]
             /\ op'[e][g] \in {"create_required", "replace_required"} =>
                   seen'[e][g] = planned'[g] /\ planned'[g] # Source[g]
             /\ op'[e][g] = "create_required" => planned'[g] = Absent
      BY <2>1, <2>2, <2>3 DEF RunInv, GrantInv, Mutates, plan, Revalidated, PlannedOperation
    <3>2. op'[e]["profile"] # "blocked" => chain'[e] \subseteq MissingChain(plannedDirs')
      <4>1. CASE f = "profile"
        <5>1. chain[e] = {} /\ plannedDirs' = plannedDirs
          BY <2>1, <4>1 DEF RunInv, GrantInv, plan
        <5>2. op'[e]["profile"] = o
          BY <2>1, <2>3, <4>1
        <5> QED BY <2>2, <2>5, <4>1, <5>1, <5>2 DEF ParentRevalidates
      <4>2. CASE f # "profile"
        BY <2>1, <2>3, <2>5, <4>2 DEF RunInv, GrantInv, plan, Files
      <4> QED BY <4>1, <4>2
    <3> QED BY <2>4, <3>1, <3>2 DEF GrantInv, Mutates
  <2>7. touched[e] = {} /\ committed[e] = {} /\ created[e] = {} /\ status[e] = "none"
        /\ \A g \in Files : bak[e][g] = Absent /\ post[e][g] = Absent
    <3>1. touched[e] = {} /\ committed[e] = {} /\ created[e] = {}
      BY <2>1 DEF RunInv, DoneInv, Early
    <3>2. status[e] = "none"
      BY <2>1 DEF RunInv, StatusInv, Finished
    <3> QED BY <2>1, <3>1, <3>2 DEF RunInv, RecordInv, Early
  <2>8. chain'[e] \subseteq Chains
    BY <2>5 DEF MissingChain, Chains, RunInv, DoneInv
  <2> QED
    BY <2>1, <2>4, <2>6, <2>7, <2>8 DEF RunInv, DoneInv, WorkInv, StatusInv, RecordInv,
       Early, Acting, Finished, Through, Committing
<1>3. CASE Gate(e)
  <2>1. Remembers /\ pc[e] = "gate" /\ UNCHANGED clean
    BY <1>3 DEF Gate, memory, plan, fs, history, Memory
  <2>2. /\ touched[e] = {} /\ committed[e] = {} /\ created[e] = {} /\ removed[e] = {}
        /\ status[e] = "none" /\ \A f \in Files : bak[e][f] = Absent
    BY <2>1 DEF RunInv, DoneInv, StatusInv, RecordInv, Early, Finished
  <2>3. \/ pc'[e] = "receipt" /\ status'[e] = "blocked"
        \/ pc'[e] = "receipt" /\ status'[e] = "no_change" /\ \A f \in Files : op[e][f] = "no_change"
        \/ /\ status'[e] = "none" /\ Mutates(e) # {} /\ \A f \in Files : op[e][f] # "blocked"
           /\ \/ pc'[e] = "prepare" /\ todo'[e] = Mutates(e)
              \/ pc'[e] = "mkdir" /\ todo'[e] = chain[e] /\ chain[e] # {}
    BY <1>3, <1>e, <1>s, <2>2 DEF Gate
  <2>4. GrantInv(e)'
    BY <1>g, <2>1, <2>3 DEF Memory
  <2> QED
    BY <2>1, <2>2, <2>3, <2>4 DEF RunInv, DoneInv, WorkInv, StatusInv, RecordInv, Memory,
       Mutates, Early, Acting, Finished, Through, Committing
<1>4. CASE CreateDirectory(e)
  <2> DEFINE d == FirstDir(todo[e])
  <2>1. /\ UNCHANGED <<plan, op, seen, chain, bak, bakSha, post, committed, removed, clean, status>>
        /\ pc[e] = "mkdir"
    BY <1>4 DEF CreateDirectory, outcome
  <2>2. d \in chain[e] /\ d \in Dirs
    BY <2>1, OrderPicks, OrderInRange DEF RunInv, WorkInv, DoneInv
  <2>3. /\ created'[e] \in {created[e], created[e] \cup {d}}
        /\ touched'[e] = touched[e] \cup {d} \/ (touched'[e] = touched[e] /\ created'[e] = created[e])
    BY <1>4, <1>t, <2>2 DEF CreateDirectory
  <2>4. \/ pc'[e] = "discard"
        \/ pc'[e] = "prepare" /\ todo'[e] = Mutates(e)
        \/ pc'[e] = "mkdir" /\ todo'[e] = todo[e] \ {d} /\ todo[e] \ {d} # {}
    BY <1>4, <1>e, <2>1 DEF CreateDirectory, Loop, Raise
  <2>5. GrantInv(e)'
    BY <1>g, <2>1, <2>4
  <2>6. committed[e] = {} /\ status[e] = "none"
    BY <1>0, <2>1 DEF ExecutorInv, PreparingInv, Preparing, RunInv, StatusInv, Finished
  <2>7. DoneInv(e)'
    BY <2>1, <2>2, <2>3, <2>4, <2>6 DEF RunInv, DoneInv, Mutates, Early, Acting
  <2> QED
    BY <2>1, <2>4, <2>5, <2>6, <2>7 DEF RunInv, DoneInv, WorkInv, StatusInv, RecordInv,
       Mutates, VerifiedBackup, Early, Acting, Finished, Through, Preparing, Committing
<1>5. CASE CreateBackup(e)
  <2> DEFINE f == First(todo[e])
  <2>1. /\ UNCHANGED <<plan, op, seen, chain, post, committed, created, removed, touched, clean, status>>
        /\ pc[e] = "prepare" /\ f \in Files /\ op[e][f] = "replace_required"
    BY <1>5, OrderInRange DEF CreateBackup, outcome, history
  <2>2. \/ pc'[e] = "discard"
        \/ /\ UNCHANGED <<pc, todo>>
           /\ bak' = [bak EXCEPT ![e][f] = dest[f]] /\ bakSha' = [bakSha EXCEPT ![e][f] = dest[f]]
           /\ dest[f] # Absent
    BY <1>5, <1>e DEF CreateBackup, Raise, control
  <2>3. dest[f] \in Contents \cup {Absent}
    BY <1>t, <2>1 DEF IInv, NoTornDestination, Stored
  <2>4. pc'[e] = "discard" \/ \A g \in Files :
           IF g = f THEN VerifiedBackup(e, g)'
           ELSE bak'[e][g] = bak[e][g] /\ (VerifiedBackup(e, g) => VerifiedBackup(e, g)')
    BY <1>t, <2>1, <2>2, <2>3 DEF VerifiedBackup
  <2>5. GrantInv(e)'
    BY <1>g, <2>1, <2>2
  <2>6. committed[e] = {} /\ status[e] = "none"
    BY <1>0, <2>1 DEF ExecutorInv, PreparingInv, Preparing, RunInv, StatusInv, Finished
  <2>7. RecordInv(e)'
    BY <2>1, <2>2, <2>4, <2>6 DEF RunInv, RecordInv, Early, Through, Preparing, Committing
  <2> QED
    BY <2>1, <2>2, <2>5, <2>6, <2>7 DEF RunInv, DoneInv, WorkInv, StatusInv,
       Mutates, Early, Acting, Finished, Through, Preparing, Committing
<1>6. CASE CreateTemp(e)
  <2> DEFINE f == First(todo[e])
  <2>1. Remembers /\ pc[e] = "prepare" /\ UNCHANGED <<clean, status>>
    BY <1>6 DEF CreateTemp, memory, outcome, history, Memory
  <2>2. \/ pc'[e] = "discard"
        \/ pc'[e] = "commit" /\ todo'[e] = Mutates(e)
        \/ pc'[e] = "prepare" /\ todo'[e] = todo[e] \ {f} /\ todo[e] \ {f} # {}
    BY <1>6, <1>e, <2>1 DEF CreateTemp, Loop, Raise
  <2>3. committed[e] = {} /\ status[e] = "none"
    BY <1>0, <2>1 DEF ExecutorInv, PreparingInv, Preparing, RunInv, StatusInv, Finished
  <2>4. GrantInv(e)'
    BY <1>g, <2>1, <2>2 DEF Memory
  <2> QED
    BY <2>1, <2>2, <2>3, <2>4 DEF RunInv, DoneInv, WorkInv, StatusInv, RecordInv, Memory,
       VerifiedBackup, Mutates, Early, Acting, Finished, Through, Preparing, Committing
<1>7. CASE CheckAbsent(e)
  <2>1. Remembers /\ pc[e] = "commit" /\ UNCHANGED <<clean, status>>
    BY <1>7 DEF CheckAbsent, memory, outcome, history, fs, Memory
  <2>2. pc'[e] = "discard" \/ (pc'[e] = "replace" /\ todo'[e] = todo[e])
    BY <1>7, <1>e DEF CheckAbsent, Raise
  <2>3. GrantInv(e)'
    BY <1>g, <2>1, <2>2 DEF Memory
  <2> QED
    BY <2>1, <2>2, <2>3 DEF RunInv, DoneInv, WorkInv, StatusInv, RecordInv, Memory,
       VerifiedBackup, Mutates, Early, Acting, Finished, Through, Preparing, Committing
<1>8. CASE Replace(e)
  <2> DEFINE f == First(todo[e])
  <2>1. /\ UNCHANGED <<plan, op, seen, chain, bak, bakSha, post, created, removed, clean, status>>
        /\ pc[e] \in {"commit", "replace"}
    BY <1>8 DEF Replace, outcome
  <2>2. f \in todo[e] /\ f \in Mutates(e) /\ f \in Files
    BY <1>0, <2>1, OrderPicks DEF RunInv, WorkInv, Committing
  <2>3. \/ pc'[e] = "discard" /\ UNCHANGED <<committed, touched>>
        \/ /\ pc'[e] = "verify" /\ todo'[e] = todo[e]
           /\ committed'[e] = committed[e] \cup {f} /\ touched'[e] = touched[e] \cup {f}
    BY <1>8, <1>e, <1>t DEF Replace, Raise
  <2>4. GrantInv(e)'
    BY <1>g, <2>1, <2>3
  <2>5. op[e][f] = "replace_required" => VerifiedBackup(e, f)
    BY <1>0, <2>1, <2>2 DEF ExecutorInv, CommittingInv, Committing
  <2>6. status[e] = "none"
    BY <2>1 DEF RunInv, StatusInv, Finished
  <2>7. DoneInv(e)'
    BY <2>1, <2>2, <2>3, <2>5 DEF RunInv, DoneInv, Mutates, VerifiedBackup, Early, Acting
  <2>8. RecordInv(e)'
    BY <2>1, <2>3, <2>6 DEF RunInv, RecordInv, VerifiedBackup, Early, Through, Preparing, Committing
  <2> QED
    BY <2>1, <2>2, <2>3, <2>4, <2>6, <2>7, <2>8 DEF RunInv, WorkInv, StatusInv, Mutates,
       Finished, Through, Committing
<1>9. CASE VerifyCommit(e)
  <2> DEFINE f == First(todo[e])
  <2>1. /\ UNCHANGED <<plan, op, seen, chain, bak, bakSha, committed, created, removed, touched,
                       clean, status>>
        /\ pc[e] = "verify" /\ status[e] = "none" /\ f \in committed[e] /\ f \in Files
    BY <1>9, OrderInRange DEF VerifyCommit, fs, outcome, history, RunInv, WorkInv, StatusInv, Finished
  <2>2. PICK v \in Stored :
           /\ post'[e] = [post[e] EXCEPT ![f] = v]
           /\ \/ pc'[e] = "discard"
              \/ /\ v = Source[f]
                 /\ \/ pc'[e] = "postverify" /\ todo'[e] = committed[e] /\ todo[e] = {f}
                    \/ pc'[e] = "commit" /\ todo'[e] = todo[e] \ {f} /\ todo[e] # {f}
    <3>1. dest[f] \in Stored /\ Absent \in Stored
      BY <1>t, <2>1 DEF Stored
    <3> QED BY <1>9, <1>e, <1>t, <2>1, <3>1 DEF VerifyCommit, Raise
  <2>3. \A g \in Files : post'[e][g] = IF g = f THEN v ELSE post[e][g]
    BY <1>t, <2>1, <2>2
  <2>4. GrantInv(e)'
    BY <1>g, <2>1, <2>2
  <2>5. /\ Mutates(e) \subseteq committed[e] \cup todo[e] /\ committed[e] \subseteq Mutates(e)
        /\ todo[e] \subseteq Mutates(e) /\ todo[e] \cap committed[e] = {f}
    BY <2>1 DEF RunInv, WorkInv, DoneInv, Committing
  <2>6. WorkInv(e)'
    <3>1. f \in todo[e]
      BY <1>0, <2>1, <2>5, OrderPicks DEF RunInv, WorkInv, Committing
    <3>2. \/ /\ pc'[e] = "postverify" /\ todo'[e] = committed[e] /\ committed[e] # {}
             /\ Mutates(e) \subseteq committed[e]
          \/ /\ pc'[e] = "commit" /\ todo'[e] \subseteq Mutates(e) /\ todo'[e] # {}
             /\ Mutates(e) \subseteq committed[e] \cup todo'[e] /\ todo'[e] \cap committed[e] = {}
          \/ pc'[e] = "discard"
      BY <2>1, <2>2, <2>5, <3>1
    <3> QED BY <2>1, <2>5, <3>2 DEF WorkInv, Mutates, Committing
  <2>7. RecordInv(e)'
    BY <1>0, <2>1, <2>2, <2>3 DEF RunInv, RecordInv, VerifiedBackup, Early, Through, Preparing, Committing
  <2> QED
    BY <2>1, <2>2, <2>4, <2>6, <2>7 DEF RunInv, DoneInv, StatusInv, Mutates, VerifiedBackup,
       Early, Acting, Finished, Through
<1>10. CASE PostVerify(e)
  <2> DEFINE f == First(todo[e])
  <2>1. /\ UNCHANGED <<plan, op, seen, chain, bak, bakSha, post, committed, created, removed, touched>>
        /\ pc[e] = "postverify" /\ status[e] = "none" /\ f \in todo[e]
    BY <1>0, <1>10, OrderPicks DEF PostVerify, fs, history, RunInv, WorkInv, StatusInv, Finished, Committing
  <2>2. \/ pc'[e] = "postverify" /\ todo'[e] = todo[e] \ {f} /\ todo[e] # {f} /\ UNCHANGED status
        \/ /\ pc'[e] = "receipt"
           /\ \/ status'[e] = "verification_failed" /\ ~clean'[e]
              \/ status'[e] = "executed" /\ Mutates(e) = Files
              \/ status'[e] = "partial_executed" /\ Mutates(e) # Files
    BY <1>10, <1>e, <1>s, <1>t DEF PostVerify
  <2>3. GrantInv(e)'
    BY <1>g, <2>1, <2>2
  <2>4. /\ Mutates(e) \subseteq committed[e] /\ Mutates(e) # {} /\ \A g \in Files : op[e][g] # "blocked"
    BY <2>1 DEF RunInv, WorkInv, DoneInv, Acting
  <2>5. StatusInv(e)'
    BY <2>1, <2>2, <2>4 DEF StatusInv, Mutates, Finished, Through
  <2> QED
    BY <2>1, <2>2, <2>3, <2>5 DEF RunInv, DoneInv, WorkInv, RecordInv, Mutates, VerifiedBackup,
       Early, Acting, Through, Preparing, Committing
<1>11. CASE Discard(e)
  <2>1. Remembers /\ pc[e] = "discard" /\ UNCHANGED clean
    BY <1>11 DEF Discard, memory, history, Memory
  <2>2. removed[e] = {} /\ status[e] = "none"
    BY <2>1 DEF RunInv, DoneInv, StatusInv, Acting, Finished
  <2>3. \/ pc'[e] = "compensate" /\ todo'[e] = committed[e] /\ committed[e] # {} /\ UNCHANGED status
        \/ pc'[e] = "rmdir" /\ todo'[e] = created[e] /\ UNCHANGED status
        \/ pc'[e] = "receipt" /\ committed[e] = {} /\ created[e] = {} /\ status'[e] = "blocked"
    BY <1>11, <1>e, <1>s DEF Discard
  <2>4. GrantInv(e)'
    BY <1>g, <2>1, <2>3 DEF Memory
  <2> QED
    BY <2>1, <2>2, <2>3, <2>4 DEF RunInv, DoneInv, WorkInv, StatusInv, RecordInv, Memory,
       VerifiedBackup, Mutates, Early, Acting, Finished, Through, Preparing, Committing
\* The compensating phases: the files still to do are committed ones, and what
\* changes is whether all went well and what was touched.
<1>n. ASSUME pc[e] \in {"compensate", "recheck", "unlink"},
             UNCHANGED <<plan, op, seen, chain, bak, bakSha, post, committed, created, removed, status>>,
             LET f == Last(todo[e]) IN
             /\ touched'[e] = touched[e] \/ touched'[e] = touched[e] \cup {f}
             /\ \/ pc'[e] = "recheck" /\ todo'[e] = todo[e] /\ op[e][f] = "replace_required"
                \/ pc'[e] = "unlink" /\ todo'[e] = todo[e] /\ op[e][f] # "replace_required"
                \/ NextCompensation(e, f)
      PROVE  RunInv(e)'
  <2> DEFINE f == Last(todo[e])
  <2>1. f \in todo[e] /\ f \in committed[e] /\ f \in Files /\ f \in Mutates(e)
    BY <1>0, <1>n, OrderPicks DEF RunInv, WorkInv, DoneInv
  <2>2. \/ pc'[e] = "recheck" /\ todo'[e] = todo[e] /\ op[e][f] = "replace_required"
        \/ pc'[e] = "unlink" /\ todo'[e] = todo[e] /\ op[e][f] = "create_required"
        \/ pc'[e] = "rmdir" /\ todo'[e] = created[e]
        \/ pc'[e] = "compensate" /\ todo'[e] = todo[e] \ {f} /\ todo[e] # {f}
    BY <1>e, <1>n, <2>1 DEF NextCompensation, Mutates
  <2>3. GrantInv(e)'
    BY <1>g, <1>n, <2>2
  <2>4. removed[e] = {} /\ status[e] = "none"
    BY <1>n DEF RunInv, DoneInv, StatusInv, Acting, Finished
  <2>5. DoneInv(e)'
    BY <1>n, <2>1, <2>2, <2>4 DEF RunInv, DoneInv, Mutates, VerifiedBackup, Early, Acting
  <2> QED
    BY <1>n, <2>1, <2>2, <2>3, <2>4, <2>5 DEF RunInv, WorkInv, StatusInv, RecordInv,
       VerifiedBackup, Mutates, Early, Finished, Through, Preparing, Committing
<1>12. CASE Restore(e)
  <2>1. touched'[e] = touched[e] \/ touched'[e] = touched[e] \cup {Last(todo[e])}
    BY <1>12, <1>t DEF Restore, history
  <2> QED BY <1>12, <1>e, <1>n, <2>1 DEF Restore, outcome
<1>13. CASE RecheckRestored(e)
  BY <1>13, <1>n DEF RecheckRestored, fs, outcome, history
<1>14. CASE CheckCreated(e)
  BY <1>14, <1>e, <1>n DEF CheckCreated, fs, outcome, history
<1>15. CASE UnlinkCreated(e)
  <2>1. touched'[e] = touched[e] \/ touched'[e] = touched[e] \cup {Last(todo[e])}
    BY <1>15, <1>t DEF UnlinkCreated, history
  <2> QED BY <1>15, <1>n, <2>1 DEF UnlinkCreated, outcome
<1>16. CASE RemoveDirectory(e)
  <2> DEFINE d == LastDir(todo[e])
  <2>1. /\ UNCHANGED <<plan, op, seen, chain, bak, bakSha, post, committed, created, status>>
        /\ pc[e] = "rmdir" /\ todo[e] # {}
    BY <1>16 DEF RemoveDirectory, outcome
  <2>2. d \in created[e] \ removed[e] /\ d \in chain[e]
    BY <2>1, OrderPicks DEF RunInv, WorkInv, DoneInv
  <2>3. /\ \/ UNCHANGED <<removed, touched>>
           \/ removed'[e] = removed[e] \cup {d} /\ touched'[e] = touched[e] \cup {d}
        /\ \/ pc'[e] = "rmdir" /\ todo'[e] = todo[e] \ {d}
           \/ pc'[e] = "raised"
    BY <1>16, <1>e, <1>t DEF RemoveDirectory
  <2>4. GrantInv(e)'
    BY <1>g, <2>1, <2>3
  <2>5. DoneInv(e)'
    BY <2>1, <2>2, <2>3 DEF RunInv, DoneInv, Mutates, VerifiedBackup, Early, Acting
  <2>6. status[e] = "none"
    BY <2>1 DEF RunInv, StatusInv, Finished
  <2> QED
    BY <2>1, <2>2, <2>3, <2>4, <2>5, <2>6 DEF RunInv, WorkInv, StatusInv, RecordInv,
       VerifiedBackup, Mutates, Early, Finished, Through, Preparing, Committing
<1>17. CASE Conclude(e)
  <2>1. Remembers /\ pc[e] = "rmdir" /\ UNCHANGED clean
    BY <1>17 DEF Conclude, fs, memory, history, Memory
  <2>2. pc'[e] = "receipt" /\ status'[e] \in {"failed_compensated", "failed_compensation_incomplete"}
    BY <1>17, <1>s DEF Conclude
  <2>3. GrantInv(e)'
    BY <1>g, <2>1, <2>2 DEF Memory
  <2> QED
    BY <2>1, <2>2, <2>3 DEF RunInv, DoneInv, WorkInv, StatusInv, RecordInv, Memory,
       VerifiedBackup, Mutates, Early, Acting, Finished, Through, Preparing, Committing
<1>18. CASE WriteReceipt(e)
  <2>1. Remembers /\ pc[e] = "receipt" /\ UNCHANGED <<clean, status>>
    BY <1>18 DEF WriteReceipt, fs, memory, history, Memory
  <2>2. pc'[e] \in {"done", "raised"}
    BY <1>18, <1>e DEF WriteReceipt
  <2>3. GrantInv(e)'
    BY <1>g, <2>1, <2>2 DEF Memory
  <2> QED
    BY <2>1, <2>2, <2>3 DEF RunInv, DoneInv, WorkInv, StatusInv, RecordInv, Memory,
       VerifiedBackup, Mutates, Early, Acting, Finished, Through, Preparing, Committing
<1> QED
  BY <1>1, <1>2, <1>3, <1>4, <1>5, <1>6, <1>7, <1>8, <1>9, <1>10, <1>11, <1>12, <1>13, <1>14,
     <1>15, <1>16, <1>17, <1>18 DEF Step

\* A kill, another program and rest leave what an executor remembers alone.
LEMMA RunEnvironment ==
    ASSUME TypeOK, NEW x \in Executors, RunInv(x),
           \/ \E e \in Executors : Crash(e)
           \/ \E f \in Files, c \in Contents \cup {Absent} : ForeignFile(f, c)
           \/ \E d \in Dirs : ForeignMakeDirectory(d) \/ ForeignRemoveDirectory(d)
           \/ UNCHANGED vars
    PROVE  RunInv(x)'
<1>1. ASSUME NEW e \in Executors, Crash(e) PROVE RunInv(x)'
  <2>1. UNCHANGED <<plan, Memory(x), Outcome(x)>>
    BY <1>1 DEF Crash, memory, history, Memory, Outcome
  <2>2. Place(x)' = Place(x) \/ pc'[x] = "crashed"
    BY <1>1 DEF Crash, Enter, Place, TypeOK, ControlTypeOK
  <2>3. CASE pc'[x] = "crashed"
    <3> USE <2>1, <2>3 DEF plan, Memory, Outcome, RunInv, Mutates, VerifiedBackup
    <3>1. GrantInv(x)' /\ StatusInv(x)'
      BY DEF GrantInv, StatusInv, Finished
    <3>2. DoneInv(x)' /\ WorkInv(x)'
      BY DEF DoneInv, WorkInv, Early, Acting, Committing
    <3>3. RecordInv(x)'
      BY DEF RecordInv, StatusInv, Early, Preparing, Committing, Finished, Through
    <3> QED BY <3>1, <3>2, <3>3
  <2> QED BY <2>1, <2>2, <2>3, RunFrame
<1>2. CASE \/ \E f \in Files, c \in Contents \cup {Absent} : ForeignFile(f, c)
           \/ \E d \in Dirs : ForeignMakeDirectory(d) \/ ForeignRemoveDirectory(d)
           \/ UNCHANGED vars
  <2>1. UNCHANGED <<plan, Memory(x), Outcome(x), Place(x)>>
    BY <1>2 DEF ForeignFile, ForeignMakeDirectory, ForeignRemoveDirectory, Interfere, vars, fs, control,
       memory, outcome, history, Memory, Outcome, Place
  <2> QED BY <2>1, RunFrame
<1> QED BY <1>1, <1>2

Runs == \A e \in Executors : RunInv(e)

LEMMA RunsCorrect == Spec => [](IInv /\ Runs)
<1>1. Init => Runs
  BY RunBegins DEF Runs
<1>2. IInv /\ Runs /\ [Next]_vars => Runs'
  <2> SUFFICES ASSUME IInv, Runs, [Next]_vars, NEW x \in Executors PROVE RunInv(x)'
    BY DEF Runs
  <2>1. RunInv(x) /\ TypeOK
    BY DEF Runs, IInv
  <2>2. ASSUME NEW e \in Executors, Step(e) PROVE RunInv(x)'
    <3>1. CASE x = e
      BY <2>1, <2>2, <3>1, RunStep
    <3>2. CASE x # e
      BY <2>1, <2>2, <3>2, StepLeavesOthers, RunFrame
    <3> QED BY <3>1, <3>2
  <2> QED BY <2>1, <2>2, RunEnvironment DEF Next, Rest
<1> QED BY <1>1, <1>2, InvCorrect, PTL DEF Spec

\* An executor changes only what the saved plan authorizes: files the plan meant
\* to change, found as the plan recorded them, and directories the plan found
\* missing, and nothing unless every gate of both files passed.
THEOREM WithinCeiling == Spec => []WithinPlanCeiling
<1>1. IInv /\ Runs => WithinPlanCeiling
  <2> SUFFICES ASSUME IInv, Runs, NEW e \in Executors, touched[e] # {}
               PROVE  /\ \A f \in Files : staged[f] /\ seen[e][f] \in {planned[f], Source[f]}
                      /\ \A f \in touched[e] \cap Files :
                            seen[e][f] = planned[f] /\ planned[f] # Source[f]
                      /\ touched[e] \cap Dirs \subseteq MissingChain(plannedDirs)
    BY DEF WithinPlanCeiling
  <2>1. /\ GrantInv(e) /\ DoneInv(e) /\ op[e] \in [Files -> Operations]
        /\ \A f \in Files : op[e][f] # "blocked"
    BY DEF Runs, RunInv, DoneInv, IInv, TypeOK, MemoryTypeOK
  <2>2. \A f \in Files : op[e][f] = "no_change" \/ f \in Mutates(e)
    BY <2>1 DEF Operations, Mutates
  <2>3. chain[e] \cap Files = {} /\ committed[e] \cap Dirs = {} /\ "profile" \in Files
    BY <2>1 DEF DoneInv, Chains, Files, Dirs, Mutates
  <2> QED BY <2>1, <2>2, <2>3 DEF GrantInv, DoneInv
<1> QED BY <1>1, RunsCorrect, PTL

-----------------------------------------------------------------------------
(* Several executors of one plan, and nobody else: what they own together.  *)

\* The content of a destination is nothing, the source's or in somebody's backup.
Saved(f) == dest[f] \in {Absent, Source[f]} \/ \E x \in Executors : bak[x][f] = dest[f]

\* Directories an executor made and has not removed are there, and its alone.
Disjoint ==
    \A e1, e2 \in Executors : e1 # e2 =>
        (created[e1] \ removed[e1]) \cap (created[e2] \ removed[e2]) = {}
DirsInv ==
    foreign = 0 => Disjoint /\ \A e \in Executors : created[e] \ removed[e] \subseteq dirs

\* A file that was committed, or found reconciled, stays so until it is undone;
\* one that is to be overwritten or deleted is saved.
FilesInv ==
    foreign = 0 => \A e \in Executors, f \in Files :
        /\ op[e][f] = "no_change" \/ f \in committed[e] => f \in undone \/ dest[f] = Source[f]
        /\ op[e][f] = "create_required" \/ bak[e][f] \notin {Absent, Torn} => Saved(f)

\* No other program has acted before a step after which none has.
LEMMA StillCalm ==
    ASSUME TypeOK, [Next]_vars, foreign' = 0
    PROVE  /\ foreign = 0
           /\ \/ \E e \in Executors : Step(e)
              \/ UNCHANGED <<dest, dirs, tmp, bak, plan, memory, status, history>>
<1>1. foreign \in Nat
  BY DEF TypeOK, HistoryTypeOK
<1>2. ASSUME NEW e \in Executors, Step(e) PROVE UNCHANGED foreign
  BY <1>2 DEF Step, Admit, EvaluateFile, Gate, CreateDirectory, CreateBackup, CreateTemp, CheckAbsent,
     Replace, VerifyCommit, PostVerify, Discard, Restore, RecheckRestored, CheckCreated, UnlinkCreated,
     RemoveDirectory, Conclude, WriteReceipt, budgets
<1>3. ~Interfere
  BY <1>1 DEF Interfere
<1>4. ASSUME NEW e \in Executors, Crash(e)
      PROVE  UNCHANGED <<foreign, dest, dirs, tmp, bak, plan, memory, status, history>>
  BY <1>4 DEF Crash
<1>5. UNCHANGED vars => UNCHANGED <<foreign, dest, dirs, tmp, bak, plan, memory, status, history>>
  BY DEF vars, fs, budgets, outcome
<1> QED BY <1>2, <1>3, <1>4, <1>5 DEF Next, Rest, ForeignFile, ForeignMakeDirectory, ForeignRemoveDirectory

LEMMA DirsStep ==
    ASSUME IInv, Runs, DirsInv, [Next]_vars
    PROVE  DirsInv'
<1> SUFFICES ASSUME foreign' = 0
             PROVE  Disjoint' /\ \A x \in Executors : created'[x] \ removed'[x] \subseteq dirs'
  BY DEF DirsInv
<1>1. Disjoint /\ \A x \in Executors : created[x] \ removed[x] \subseteq dirs
  BY StillCalm DEF IInv, DirsInv
<1>2. created \in [Executors -> SUBSET Dirs] /\ removed \in [Executors -> SUBSET Dirs]
  BY DEF IInv, TypeOK, MemoryTypeOK
<1>3. CASE UNCHANGED <<dirs, created, removed>>
  BY <1>1, <1>3 DEF Disjoint
<1>4. ASSUME NEW e \in Executors, CreateDirectory(e), ~UNCHANGED <<dirs, created>> PROVE DirsInv'
  <2> DEFINE d == FirstDir(todo[e])
  <2>1. UNCHANGED removed /\ d \notin dirs /\ dirs' = dirs \cup {d}
        /\ (created' = created \/ created' = [created EXCEPT ![e] = created[e] \cup {d}])
    BY <1>4 DEF CreateDirectory
  <2>2. \A x \in Executors : created'[x] = created[x] \/ (x = e /\ created'[x] = created[x] \cup {d})
    BY <1>2, <2>1
  <2>3. \A x \in Executors : d \notin created[x] \ removed[x]
    BY <1>1, <2>1
  <2> QED BY <1>1, <2>1, <2>2, <2>3 DEF Disjoint, DirsInv
<1>5. ASSUME NEW e \in Executors, RemoveDirectory(e), ~UNCHANGED <<dirs, removed>> PROVE DirsInv'
  <2> DEFINE d == LastDir(todo[e])
  <2>1. UNCHANGED created /\ dirs' = dirs \ {d} /\ removed' = [removed EXCEPT ![e] = removed[e] \cup {d}]
        /\ pc[e] = "rmdir" /\ todo[e] # {}
    BY <1>5 DEF RemoveDirectory
  <2>2. d \in created[e] \ removed[e]
    BY <2>1, OrderPicks DEF Runs, RunInv, WorkInv, DoneInv
  <2>3. \A x \in Executors : removed'[x] = IF x = e THEN removed[e] \cup {d} ELSE removed[x]
    BY <1>2, <2>1
  <2>4. \A x \in Executors : x # e => d \notin created[x] \ removed[x]
    BY <1>1, <2>2 DEF Disjoint
  <2> QED BY <1>1, <2>1, <2>3, <2>4 DEF Disjoint, DirsInv
<1>6. ASSUME NEW e \in Executors, Step(e), ~CreateDirectory(e), ~RemoveDirectory(e)
      PROVE  UNCHANGED <<dirs, created, removed>>
  BY <1>6 DEF Step, Admit, EvaluateFile, Gate, CreateBackup, CreateTemp, CheckAbsent,
     Replace, VerifyCommit, PostVerify, Discard, Restore, RecheckRestored, CheckCreated, UnlinkCreated,
     Conclude, WriteReceipt, memory, fs
<1>7. ASSUME NEW e \in Executors, Step(e), ~UNCHANGED <<dirs, created, removed>> PROVE DirsInv'
  <2>1. CASE CreateDirectory(e)
    BY <1>4, <1>7, <2>1 DEF CreateDirectory
  <2>2. CASE RemoveDirectory(e)
    BY <1>5, <1>7, <2>2 DEF RemoveDirectory
  <2> QED BY <1>6, <1>7, <2>1, <2>2
<1>8. UNCHANGED memory => UNCHANGED <<created, removed>>
  BY DEF memory
<1> QED BY <1>3, <1>7, <1>8, StillCalm DEF DirsInv, IInv

LEMMA FilesStep ==
    ASSUME IInv, Runs, FilesInv, [Next]_vars
    PROVE  FilesInv'
<1> DEFINE Reconciled(e, f) ==
              op[e][f] = "no_change" \/ f \in committed[e] => f \in undone \/ dest[f] = Source[f]
           Backed(e, f) == op[e][f] = "create_required" \/ bak[e][f] \notin {Absent, Torn} => Saved(f)
<1> SUFFICES ASSUME foreign' = 0, NEW x \in Executors, NEW g \in Files
             PROVE  Reconciled(x, g)' /\ Backed(x, g)'
  BY DEF FilesInv
<1>1. \A e \in Executors, f \in Files : Reconciled(e, f) /\ Backed(e, f)
  BY StillCalm DEF IInv, FilesInv
<1>2. /\ op \in [Executors -> [Files -> Operations]] /\ committed \in [Executors -> SUBSET Files]
      /\ bak \in [Executors -> [Files -> Stored]] /\ dest \in [Files -> Stored]
      /\ tmp \in [Executors -> [Files -> Stored]] /\ TypeOK
  BY DEF IInv, TypeOK, MemoryTypeOK, FileSystemTypeOK
<1>3. CASE UNCHANGED <<dest, bak, op, committed, undone>>
  BY <1>1, <1>3 DEF Saved
<1>4. ASSUME NEW e \in Executors, EvaluateFile(e) PROVE Reconciled(x, g)' /\ Backed(x, g)'
  <2> DEFINE f == First(todo[e])
  <2>1. UNCHANGED <<dest, bak, committed, undone>> /\ f \in Files
    BY <1>4, OrderInRange DEF EvaluateFile, fs, history
  <2>2. PICK o \in {"blocked", Revalidated(f)} : op' = [op EXCEPT ![e][f] = o]
    BY <1>4 DEF EvaluateFile
  <2>3. /\ o = "no_change" => dest[f] = Source[f]
        /\ o = "create_required" => dest[f] = Absent
    BY DEF Revalidated, PlannedOperation
  <2>4. op'[x][g] = IF x = e /\ g = f THEN o ELSE op[x][g]
    BY <1>2, <2>1, <2>2
  <2> QED BY <1>1, <2>1, <2>3, <2>4 DEF Saved
<1>5. ASSUME NEW e \in Executors, CreateBackup(e) PROVE Reconciled(x, g)' /\ Backed(x, g)'
  <2> DEFINE f == First(todo[e])
  <2>1. UNCHANGED <<dest, op, committed, undone>> /\ f \in Files /\ bak[e][f] = Absent
    BY <1>5, OrderInRange DEF CreateBackup, history
  <2>2. bak' = bak \/ \E v \in {Torn, dest[f]} : bak' = [bak EXCEPT ![e][f] = v]
    BY <1>5 DEF CreateBackup
  <2>3. PICK v \in {Absent, Torn, dest[f]} :
           \A y \in Executors, h \in Files : bak'[y][h] = IF y = e /\ h = f THEN v ELSE bak[y][h]
    BY <1>2, <2>1, <2>2
  <2>4. Saved(g) => Saved(g)'
    BY <2>1, <2>3 DEF Saved
  <2>5. x = e /\ g = f /\ bak'[x][g] \notin {Absent, Torn} => Saved(g)'
    BY <2>1, <2>3 DEF Saved
  <2> QED BY <1>1, <2>1, <2>3, <2>4, <2>5
<1>6. ASSUME NEW e \in Executors, Replace(e), ~UNCHANGED dest \/ ~UNCHANGED committed
      PROVE  Reconciled(x, g)' /\ Backed(x, g)'
  <2> DEFINE f == First(todo[e])
  <2>1. /\ UNCHANGED <<op, bak, undone>> /\ pc[e] \in {"commit", "replace"}
        /\ dest' = [dest EXCEPT ![f] = tmp[e][f]]
        /\ committed' = [committed EXCEPT ![e] = committed[e] \cup {f}]
    BY <1>6 DEF Replace
  <2>2. RunInv(e) /\ ExecutorInv(e) /\ todo[e] \subseteq Mutates(e) /\ todo[e] # {}
        /\ todo[e] \cap committed[e] = {} /\ Mutates(e) \subseteq Files
    BY <2>1 DEF Runs, RunInv, IInv, WorkInv, Committing, Mutates
  <2>3. f \in todo[e] /\ f \in Files
    BY <2>2, OrderPicks
  <2>4. tmp[e][f] = Source[f]
    BY <2>1, <2>2, <2>3 DEF ExecutorInv, CommittingInv, Committing
  <2>5. /\ \A h \in Files : dest'[h] = IF h = f THEN Source[f] ELSE dest[h]
        /\ committed'[x] \subseteq committed[x] \cup {f}
    BY <1>2, <2>1, <2>3, <2>4
  <2> QED BY <1>1, <2>1, <2>5 DEF Saved
<1>7. ASSUME NEW e \in Executors, Restore(e), ~UNCHANGED <<dest, undone>>
      PROVE  Reconciled(x, g)' /\ Backed(x, g)'
  <2> DEFINE f == Last(todo[e])
  <2>1. /\ UNCHANGED <<op, bak, committed>> /\ dest' = [dest EXCEPT ![f] = bak[e][f]]
        /\ undone' = undone \cup {f} /\ f \in Files
    BY <1>7, OrderInRange DEF Restore, history
  <2>2. \A h \in Files : dest'[h] = IF h = f THEN bak[e][f] ELSE dest[h]
    BY <1>2, <2>1
  <2> QED BY <1>1, <2>1, <2>2 DEF Saved
<1>8. ASSUME NEW e \in Executors, UnlinkCreated(e), ~UNCHANGED <<dest, undone>>
      PROVE  Reconciled(x, g)' /\ Backed(x, g)'
  <2> DEFINE f == Last(todo[e])
  <2>1. /\ UNCHANGED <<op, bak, committed>> /\ dest' = [dest EXCEPT ![f] = Absent]
        /\ undone' = undone \cup {f} /\ f \in Files
    BY <1>8, OrderInRange DEF UnlinkCreated, history
  <2>2. \A h \in Files : dest'[h] = IF h = f THEN Absent ELSE dest[h]
    BY <1>2, <2>1
  <2> QED BY <1>1, <2>1, <2>2 DEF Saved
<1>9. ASSUME NEW e \in Executors, Step(e) PROVE Reconciled(x, g)' /\ Backed(x, g)'
  <2>1. CASE EvaluateFile(e) \/ CreateBackup(e)
    BY <1>4, <1>5, <2>1
  <2>2. CASE Replace(e)
    BY <1>3, <1>6, <2>2 DEF Replace
  <2>3. CASE Restore(e)
    BY <1>3, <1>7, <2>3 DEF Restore, history
  <2>4. CASE UnlinkCreated(e)
    BY <1>3, <1>8, <2>4 DEF UnlinkCreated, history
  <2>5. CASE ~(EvaluateFile(e) \/ CreateBackup(e) \/ Replace(e) \/ Restore(e) \/ UnlinkCreated(e))
    <3>1. UNCHANGED <<dest, bak, op, committed, undone>>
      BY <1>9, <2>5 DEF Step, Admit, Gate, CreateDirectory, CreateTemp, CheckAbsent, VerifyCommit,
         PostVerify, Discard, RecheckRestored, CheckCreated, RemoveDirectory, Conclude, WriteReceipt,
         memory, fs, history
    <3> QED BY <1>3, <3>1
  <2> QED BY <2>1, <2>2, <2>3, <2>4, <2>5
<1> QED BY <1>2, <1>3, <1>9, StillCalm DEF memory, history

LEMMA SharedInit == Init => DirsInv /\ FilesInv
BY DEF Init, DirsInv, FilesInv, Disjoint

LEMMA SharedCorrect == Spec => [](IInv /\ Runs /\ DirsInv /\ FilesInv)
<1>1. (IInv /\ Runs) /\ (DirsInv /\ FilesInv) /\ [Next]_vars => (DirsInv /\ FilesInv)'
  BY DirsStep, FilesStep
<1>2. QED
  BY <1>1, SharedInit, RunsCorrect, PTL DEF Spec

\* While only executors of the plan have acted, no directory an executor made
\* and may still remove is another one's.
THEOREM OwnsAlone == Spec => []OwnedOnce
<1>1. DirsInv => OwnedOnce
  BY DEF DirsInv, Disjoint, OwnedOnce
<1> QED BY <1>1, SharedCorrect, PTL

\* While only executors of the plan have acted, a run that reports a success or
\* nothing to do stays right until some run takes a commit back.
THEOREM StaysReconciled == Spec => []ReconciledUnlessUndone
<1>1. IInv /\ Runs /\ FilesInv => ReconciledUnlessUndone
  <2> SUFFICES ASSUME IInv, Runs, FilesInv, foreign = 0, undone = {},
                      NEW e \in Executors, status[e] \in {"executed", "partial_executed", "no_change"}
               PROVE  dest = Source
    BY DEF ReconciledUnlessUndone
  <2>1. /\ op[e] \in [Files -> Operations] /\ dest \in [Files -> Stored]
        /\ Source \in [Files -> Contents] /\ StatusInv(e)
    BY ContentsAssumption DEF IInv, TypeOK, MemoryTypeOK, FileSystemTypeOK, Runs, RunInv
  <2>2. \A f \in Files : op[e][f] = "no_change" \/ f \in committed[e]
    <3>1. CASE status[e] = "no_change"
      BY <2>1, <3>1 DEF StatusInv
    <3>2. CASE status[e] # "no_change"
      BY <2>1, <3>2 DEF StatusInv, Through, Mutates, Operations
    <3> QED BY <3>1, <3>2
  <2>3. \A f \in Files : dest[f] = Source[f]
    BY <2>2 DEF FilesInv
  <2> QED BY <2>1, <2>3
<1> QED BY <1>1, SharedCorrect, PTL

\* While only executors of the plan have acted, whatever one of them overwrites or
\* deletes is the source's content or stands in a backup file.
THEOREM OverwritesAreSaved == Spec => NoUnsavedOverwrite
<1>1. IInv /\ Runs /\ FilesInv /\ [Next]_vars =>
        (foreign' = 0 =>
           \A f \in Files : dest'[f] # dest[f] =>
              \/ dest[f] \in {Absent, Source[f]}
              \/ \E e \in Executors : bak'[e][f] = dest[f])
  <2> SUFFICES ASSUME IInv, Runs, FilesInv, [Next]_vars, foreign' = 0, NEW f \in Files, dest'[f] # dest[f]
               PROVE  \/ dest[f] \in {Absent, Source[f]}
                      \/ \E e \in Executors : bak'[e][f] = dest[f]
    OBVIOUS
  <2>1. foreign = 0
    BY StillCalm DEF IInv
  <2>2. PICK e \in Executors : Step(e)
    BY <2>1, StillCalm DEF IInv
  <2>3. Replace(e) \/ Restore(e) \/ UnlinkCreated(e)
    BY <2>2 DEF Step, Admit, EvaluateFile, Gate, CreateDirectory, CreateBackup, CreateTemp, CheckAbsent,
       VerifyCommit, PostVerify, Discard, RecheckRestored, CheckCreated, RemoveDirectory,
       Conclude, WriteReceipt, fs
  <2>4. /\ UNCHANGED bak /\ RunInv(e) /\ ExecutorInv(e)
        /\ op[e][f] = "create_required" \/ VerifiedBackup(e, f)
    <3>0. RunInv(e) /\ ExecutorInv(e) /\ dest \in [Files -> Stored] /\ committed[e] \subseteq Files
      BY DEF Runs, IInv, TypeOK, FileSystemTypeOK, MemoryTypeOK
    <3>1. CASE Replace(e)
      <4>1. pc[e] \in Committing /\ f = First(todo[e]) /\ UNCHANGED bak
        BY <3>0, <3>1 DEF Replace, Committing
      <4>2. f \in Mutates(e)
        BY <3>0, <4>1, OrderPicks DEF RunInv, WorkInv, Mutates
      <4> QED BY <3>0, <4>1, <4>2 DEF ExecutorInv, CommittingInv, Mutates
    <3>2. CASE Restore(e) \/ UnlinkCreated(e)
      <4>1. /\ pc[e] \in {"compensate", "unlink"} /\ f = Last(todo[e]) /\ UNCHANGED bak
            /\ pc[e] = "compensate" => op[e][f] = "replace_required"
        BY <3>0, <3>2 DEF Restore, UnlinkCreated
      <4>2. f \in committed[e] /\ (pc[e] = "unlink" => op[e][f] = "create_required")
        BY <3>0, <4>1, OrderPicks DEF RunInv, WorkInv
      <4> QED BY <3>0, <4>1, <4>2 DEF RunInv, DoneInv
    <3> QED BY <2>3, <3>0, <3>1, <3>2
  <2>5. Saved(f)
    <3>1. VerifiedBackup(e, f) => bak[e][f] \notin {Absent, Torn}
      BY ContentsAssumption DEF VerifiedBackup
    <3> QED BY <2>1, <2>4, <3>1 DEF FilesInv
  <2> QED BY <2>4, <2>5 DEF Saved
<1>2. IInv /\ Runs /\ FilesInv /\ [Next]_vars
      => [foreign' = 0 =>
            \A f \in Files : dest'[f] # dest[f] =>
               \/ dest[f] \in {Absent, Source[f]}
               \/ \E e \in Executors : bak'[e][f] = dest[f]]_vars
  BY <1>1
<1> QED BY <1>2, SharedCorrect, PTL DEF Spec, NoUnsavedOverwrite

-----------------------------------------------------------------------------
(* A single executor that no other program disturbs: what the disk holds.   *)

Forward == {"mkdir", "prepare", "commit", "replace", "verify", "postverify", "discard"}

\* A file that passed its gates and is not committed is as it was found, a
\* verified backup holds what was found, and until a failure is compensated a
\* committed file holds the source.
AloneInv(e) ==
    foreign = 0 =>
      /\ \A f \in Files \ committed[e] : op[e][f] # "blocked" => dest[f] = seen[e][f]
      /\ \A f \in Files : VerifiedBackup(e, f) => bak[e][f] = seen[e][f]
      /\ pc[e] \in Forward \/ status[e] \in Through =>
            \A f \in committed[e] : dest[f] = Source[f]

\* Where an executor can go forward from, and where it can be through.
LEMMA ForwardFrom ==
    ASSUME TypeOK, NEW e \in Executors, Step(e)
    PROVE  /\ pc'[e] \in Forward => pc[e] \in Forward \cup {"gate"}
           /\ status'[e] \in Through => status[e] \in Through \/ pc[e] = "postverify"
<1>e. ASSUME NEW p, NEW s, Enter(e, p, s) PROVE pc'[e] = p
  BY <1>e DEF Enter, TypeOK, ControlTypeOK
<1>s. ASSUME NEW s, Finish(e, s) PROVE pc'[e] = "receipt" /\ status'[e] = s
  BY <1>s, <1>e DEF Finish, TypeOK, OutcomeTypeOK
<1>t. status \in [Executors -> Statuses]
  BY DEF TypeOK, OutcomeTypeOK
<1> USE DEF Forward, Through
<1>1. CASE Admit(e) \/ EvaluateFile(e) \/ Gate(e)
  BY <1>1, <1>e, <1>s, <1>t DEF Admit, EvaluateFile, Loop, Gate, outcome
<1>2. CASE CreateDirectory(e) \/ CreateBackup(e) \/ CreateTemp(e) \/ CheckAbsent(e) \/ Replace(e)
           \/ VerifyCommit(e) \/ PostVerify(e)
  BY <1>2 DEF CreateDirectory, CreateBackup, CreateTemp, CheckAbsent, Replace, VerifyCommit,
     PostVerify, outcome
<1>3. CASE Discard(e) \/ Conclude(e) \/ WriteReceipt(e)
  BY <1>3, <1>e, <1>s DEF Discard, Conclude, WriteReceipt
<1>4. CASE Restore(e) \/ RecheckRestored(e) \/ CheckCreated(e) \/ UnlinkCreated(e)
  BY <1>4, <1>e DEF Restore, RecheckRestored, CheckCreated, UnlinkCreated, NextCompensation, outcome
<1>5. CASE RemoveDirectory(e)
  BY <1>5, <1>e DEF RemoveDirectory, outcome
<1> QED BY <1>1, <1>2, <1>3, <1>4, <1>5 DEF Step

\* The types the steps below need, at one executor.
LEMMA FieldTypes ==
    ASSUME IInv, NEW e \in Executors
    PROVE  /\ op \in [Executors -> [Files -> Operations]] /\ seen \in [Executors -> [Files -> Stored]]
           /\ bak \in [Executors -> [Files -> Stored]] /\ bakSha \in [Executors -> [Files -> Stored]]
           /\ committed \in [Executors -> SUBSET Files] /\ created \in [Executors -> SUBSET Dirs]
           /\ touched \in [Executors -> SUBSET (Files \cup Dirs)] /\ clean \in [Executors -> BOOLEAN]
           /\ pc \in [Executors -> Phases] /\ todo \in [Executors -> SUBSET (Files \cup Dirs)]
           /\ status \in [Executors -> Statuses]
           /\ dest \in [Files -> Stored] /\ dirs \subseteq Dirs /\ TypeOK /\ ExecutorInv(e)
BY DEF IInv, TypeOK, MemoryTypeOK, FileSystemTypeOK, ControlTypeOK, OutcomeTypeOK, HistoryTypeOK

\* What a commit, a restore and a removal put in place.
LEMMA ReplaceWrites ==
    ASSUME IInv, Runs, NEW e \in Executors, Replace(e)
    PROVE  LET f == First(todo[e]) IN
           /\ pc[e] \in {"commit", "replace"} /\ f \in Mutates(e) \ committed[e]
           /\ UNCHANGED <<bak, bakSha, op, seen>>
           /\ \/ UNCHANGED <<dest, committed>>
              \/ /\ dest' = [dest EXCEPT ![f] = Source[f]] /\ pc'[e] = "verify" /\ todo'[e] = todo[e]
                 /\ committed' = [committed EXCEPT ![e] = committed[e] \cup {f}]
<1> DEFINE f == First(todo[e])
<1>1. /\ pc[e] \in {"commit", "replace"} /\ RunInv(e) /\ ExecutorInv(e) /\ TypeOK
      /\ UNCHANGED <<bak, bakSha, op, seen>>
  BY DEF Replace, Runs, IInv
<1>2. f \in todo[e] /\ f \in Mutates(e) /\ f \notin committed[e]
  BY <1>1, OrderPicks DEF RunInv, WorkInv, Committing, Mutates
<1>3. tmp[e][f] = Source[f]
  BY <1>1, <1>2 DEF ExecutorInv, CommittingInv, Committing
<1> QED BY <1>1, <1>2, <1>3 DEF Replace, Enter, TypeOK, ControlTypeOK

LEMMA RestoreWrites ==
    ASSUME IInv, Runs, NEW e \in Executors, Restore(e)
    PROVE  LET f == Last(todo[e]) IN
           /\ f \in todo[e] \cap committed[e] /\ op[e][f] = "replace_required" /\ VerifiedBackup(e, f)
           /\ pc[e] = "compensate" /\ UNCHANGED <<bak, bakSha, op, seen, committed>>
           /\ \/ UNCHANGED dest /\ ~clean'[e] /\ NextCompensation(e, f)
              \/ /\ dest' = [dest EXCEPT ![f] = bak[e][f]] /\ UNCHANGED clean
                 /\ pc'[e] = "recheck" /\ todo'[e] = todo[e]
<1> DEFINE f == Last(todo[e])
<1>1. /\ pc[e] = "compensate" /\ RunInv(e) /\ TypeOK /\ op[e][f] = "replace_required"
      /\ UNCHANGED <<bak, bakSha, op, seen, committed>>
  BY DEF Restore, Runs, IInv
<1>2. f \in todo[e] /\ f \in committed[e]
  BY <1>1, OrderPicks DEF RunInv, WorkInv, DoneInv, Mutates
<1>3. VerifiedBackup(e, f)
  BY <1>1, <1>2 DEF RunInv, DoneInv
<1> QED BY <1>1, <1>2, <1>3 DEF Restore, Enter, TypeOK, ControlTypeOK, MemoryTypeOK, history

LEMMA UnlinkWrites ==
    ASSUME IInv, Runs, NEW e \in Executors, UnlinkCreated(e)
    PROVE  LET f == Last(todo[e]) IN
           /\ f \in todo[e] \cap committed[e] /\ op[e][f] = "create_required" /\ seen[e][f] = Absent
           /\ pc[e] = "unlink" /\ UNCHANGED <<bak, bakSha, op, seen, committed>>
           /\ NextCompensation(e, f)
           /\ \/ UNCHANGED dest /\ ~clean'[e]
              \/ dest' = [dest EXCEPT ![f] = Absent] /\ UNCHANGED clean
<1> DEFINE f == Last(todo[e])
<1>1. /\ pc[e] = "unlink" /\ RunInv(e) /\ TypeOK
      /\ UNCHANGED <<bak, bakSha, op, seen, committed>>
  BY DEF UnlinkCreated, Runs, IInv
<1>2. f \in todo[e] /\ f \in committed[e] /\ op[e][f] = "create_required"
  BY <1>1, OrderPicks DEF RunInv, WorkInv, DoneInv, Mutates
<1>3. seen[e][f] = Absent
  BY <1>1, <1>2 DEF RunInv, GrantInv, DoneInv, Mutates
<1> QED BY <1>1, <1>2, <1>3 DEF UnlinkCreated, TypeOK, MemoryTypeOK

\* The other steps change no destination and commit nothing.
LEMMA OthersWrite ==
    ASSUME NEW e \in Executors, Step(e), ~Replace(e), ~Restore(e), ~UnlinkCreated(e)
    PROVE  /\ UNCHANGED <<dest, committed>>
           /\ EvaluateFile(e) \/ UNCHANGED <<op, seen>>
           /\ CreateBackup(e) \/ UNCHANGED <<bak, bakSha>>
<1>1. CASE Admit(e) \/ EvaluateFile(e) \/ Gate(e) \/ CreateDirectory(e)
  BY <1>1 DEF Admit, EvaluateFile, Gate, CreateDirectory, fs, memory
<1>2. CASE CreateBackup(e) \/ CreateTemp(e) \/ CheckAbsent(e) \/ VerifyCommit(e) \/ PostVerify(e)
  BY <1>2 DEF CreateBackup, CreateTemp, CheckAbsent, VerifyCommit, PostVerify, fs, memory
<1>3. CASE Discard(e) \/ RecheckRestored(e) \/ CheckCreated(e) \/ RemoveDirectory(e)
           \/ Conclude(e) \/ WriteReceipt(e)
  BY <1>3 DEF Discard, RecheckRestored, CheckCreated, RemoveDirectory, Conclude, WriteReceipt,
     fs, memory
<1> QED BY <1>1, <1>2, <1>3 DEF Step

\* One file of an evaluation.
LEMMA EvaluateReads ==
    ASSUME IInv, Runs, NEW e \in Executors, EvaluateFile(e)
    PROVE  \E f \in Files :
             /\ f = First(todo[e]) /\ f \in todo[e]
             /\ \A g \in Files : g # f => op'[e][g] = op[e][g] /\ seen'[e][g] = seen[e][g]
             /\ op'[e][f] # "blocked" => seen'[e][f] = dest[f]
             /\ "read" \notin FaultKinds => seen'[e][f] = dest[f]
             /\ \/ pc'[e] = "gate" /\ todo[e] = {f}
                \/ pc'[e] = "evaluate" /\ todo'[e] = todo[e] \ {f}
<1> DEFINE f == First(todo[e])
<1>1. f \in Files /\ pc[e] = "evaluate" /\ f \in todo[e]
  BY OrderInRange, OrderPicks DEF EvaluateFile, Runs, RunInv, WorkInv, First, Files
<1>2. \/ pc'[e] = "gate" /\ todo[e] = {f}
      \/ pc'[e] = "evaluate" /\ todo'[e] = todo[e] \ {f}
  BY <1>1 DEF EvaluateFile, Loop, Enter, IInv, TypeOK, ControlTypeOK
<1>3. /\ \A g \in Files : g # f => op'[e][g] = op[e][g] /\ seen'[e][g] = seen[e][g]
      /\ op'[e][f] # "blocked" => seen'[e][f] = dest[f]
      /\ "read" \notin FaultKinds => seen'[e][f] = dest[f]
  BY <1>1, FieldTypes DEF EvaluateFile, Fault
<1> QED BY <1>1, <1>2, <1>3

LEMMA AloneStep ==
    ASSUME NEW e, Executors = {e}, IInv, Runs, AloneInv(e), [Next]_vars
    PROVE  AloneInv(e)'
<1> SUFFICES ASSUME foreign' = 0 PROVE AloneInv(e)'
  BY DEF AloneInv
<1>0. e \in Executors /\ foreign = 0 /\ TypeOK /\ RunInv(e)
  BY StillCalm DEF IInv, Runs
<1>t. /\ op[e] \in [Files -> Operations] /\ bak \in [Executors -> [Files -> Stored]]
      /\ committed \in [Executors -> SUBSET Files] /\ dest \in [Files -> Stored]
      /\ bakSha \in [Executors -> [Files -> Stored]]
  BY <1>0, FieldTypes
<1>1. CASE Replace(e)
  <2> DEFINE f == First(todo[e])
  <2>1. CASE UNCHANGED <<dest, committed>>
    BY <1>0, <1>1, <2>1, ReplaceWrites, ForwardFrom DEF Step, AloneInv, VerifiedBackup, Forward
  <2>2. CASE ~UNCHANGED <<dest, committed>>
    <3>1. /\ \A g \in Files : dest'[g] = IF g = f THEN Source[f] ELSE dest[g]
          /\ committed'[e] = committed[e] \cup {f} /\ UNCHANGED <<bak, bakSha, op, seen>>
          /\ pc[e] \in Forward /\ f \in Files
      BY <1>0, <1>1, <1>t, <2>2, ReplaceWrites DEF Forward, Mutates
    <3> QED BY <1>0, <1>t, <3>1 DEF AloneInv, VerifiedBackup
  <2> QED BY <2>1, <2>2
<1>2. CASE Restore(e) \/ UnlinkCreated(e)
  <2>1. /\ UNCHANGED <<bak, bakSha, op, seen, committed>> /\ pc[e] \notin Forward
        /\ \A g \in Files \ committed[e] : dest'[g] = dest[g]
    BY <1>0, <1>2, <1>t, RestoreWrites, UnlinkWrites DEF Forward
  <2>2. pc'[e] \notin Forward /\ status'[e] \notin Through
    <3>1. Step(e) /\ pc[e] \in {"compensate", "unlink"}
      BY <1>2 DEF Step, Restore, UnlinkCreated
    <3>2. status[e] = "none"
      BY <1>0, <3>1 DEF RunInv, StatusInv, Finished
    <3> QED BY <1>0, <3>1, <3>2, ForwardFrom DEF Forward, Through
  <2> QED BY <1>0, <2>1, <2>2 DEF AloneInv, VerifiedBackup
<1>3. CASE Step(e) /\ ~Replace(e) /\ ~Restore(e) /\ ~UnlinkCreated(e)
  <2>1. UNCHANGED <<dest, committed>>
    BY <1>0, <1>3, OthersWrite
  <2>2. \A f \in Files \ committed'[e] : op'[e][f] # "blocked" => dest'[f] = seen'[e][f]
    BY <1>0, <1>3, <2>1, OthersWrite, EvaluateReads DEF AloneInv
  <2>3. \A f \in Files : VerifiedBackup(e, f)' => bak'[e][f] = seen'[e][f]
    <3>1. CASE EvaluateFile(e)
      <4>1. \A f \in Files : bak[e][f] = Absent
        BY <1>0, <3>1 DEF RunInv, RecordInv, EvaluateFile, Early
      <4> QED BY <3>1, <4>1, ContentsAssumption DEF EvaluateFile, fs, VerifiedBackup
    <3>2. CASE CreateBackup(e)
      <4> DEFINE f == First(todo[e])
      <4>1. /\ f \in Files /\ op[e][f] = "replace_required" /\ UNCHANGED <<seen, op>>
            /\ pc[e] = "prepare"
        BY <3>2, OrderInRange DEF CreateBackup
      <4>2. committed[e] = {}
        BY <1>0, <4>1, FieldTypes DEF ExecutorInv, PreparingInv, Preparing
      <4>3. dest[f] = seen[e][f]
        BY <1>0, <4>1, <4>2 DEF AloneInv
      <4>4. \/ UNCHANGED <<bak, bakSha>>
            \/ \E v \in {dest[f], Torn}, w \in {dest[f], Torn, Absent} :
                  /\ bak' = [bak EXCEPT ![e][f] = v] /\ bakSha' = [bakSha EXCEPT ![e][f] = w]
        BY <3>2 DEF CreateBackup
      <4>5. \A g \in Files : \/ bak'[e][g] = bak[e][g] /\ bakSha'[e][g] = bakSha[e][g]
                             \/ g = f /\ bak'[e][g] \in {dest[f], Torn}
        BY <1>0, <1>t, <4>1, <4>4
      <4> QED BY <1>0, <4>1, <4>3, <4>5, ContentsAssumption DEF AloneInv, VerifiedBackup
    <3>3. CASE ~EvaluateFile(e) /\ ~CreateBackup(e)
      BY <1>0, <1>3, <3>3, OthersWrite DEF AloneInv, VerifiedBackup
    <3> QED BY <3>1, <3>2, <3>3
  <2>4. pc'[e] \in Forward \/ status'[e] \in Through =>
            \A f \in committed'[e] : dest'[f] = Source[f]
    <3>1. pc[e] = "gate" => committed[e] = {}
      BY <1>0 DEF RunInv, DoneInv, Early
    <3> QED BY <1>0, <1>3, <2>1, <3>1, ForwardFrom DEF AloneInv, Forward
  <2> QED BY <2>2, <2>3, <2>4 DEF AloneInv
<1>4. CASE \E x \in Executors : Crash(x)
  <2>1. UNCHANGED <<dest, bak, memory, status>> /\ pc'[e] = "crashed"
    BY <1>0, <1>4 DEF Crash, Enter, TypeOK, ControlTypeOK
  <2> QED BY <1>0, <2>1 DEF AloneInv, VerifiedBackup, memory, Forward
<1>5. CASE UNCHANGED vars
  BY <1>0, <1>5 DEF AloneInv, VerifiedBackup, vars, fs, control, memory, outcome
<1>6. \/ Step(e) \/ (\E x \in Executors : Crash(x)) \/ UNCHANGED vars
  <2>1. ~Interfere
    BY <1>0 DEF Interfere, TypeOK, HistoryTypeOK
  <2> QED BY <1>0, <2>1 DEF Next, Rest, ForeignFile, ForeignMakeDirectory, ForeignRemoveDirectory
<1> QED BY <1>1, <1>2, <1>3, <1>4, <1>5, <1>6

LEMMA AloneCorrect ==
    ASSUME NEW e, Executors = {e}
    PROVE  Spec => [](IInv /\ Runs /\ AloneInv(e))
<1>1. Init => AloneInv(e)
  BY ContentsAssumption DEF Init, AloneInv, VerifiedBackup, Forward, Through
<1>2. (IInv /\ Runs) /\ AloneInv(e) /\ [Next]_vars => AloneInv(e)'
  BY AloneStep
<1> QED BY <1>1, <1>2, RunsCorrect, PTL DEF Spec

\* The receipt of a single executor nobody disturbed that ended in a success, a
\* no-op or a failed post-verification passes the validator of saved receipts,
\* whatever faults it met.
THEOREM ReceiptsValidate ==
    ASSUME NEW e, Executors = {e}
    PROVE  Spec => []SuccessReceiptValidates
<1>1. IInv /\ Runs /\ AloneInv(e) => SuccessReceiptValidates
  <2> SUFFICES ASSUME IInv, Runs, AloneInv(e), foreign = 0,
                      status[e] \in Through \cup {"no_change"}
               PROVE  ReceiptValidates(e)
    BY DEF SuccessReceiptValidates, Undisturbed, Through
  <2>0. /\ e \in Executors /\ RunInv(e) /\ op[e] \in [Files -> Operations]
        /\ committed[e] \subseteq Mutates(e) /\ pc[e] \in Finished
    BY FieldTypes DEF Runs, RunInv, DoneInv, StatusInv, Through
  <2>1. ASSUME NEW f \in Files PROVE OperationRecordValid(e, f)
    <3>1. f \in committed[e] => post[e][f] = Source[f] /\ status[e] \in Through
      BY <2>0 DEF RunInv, RecordInv, StatusInv, Finished
    <3>2. f \in committed[e] /\ op[e][f] = "create_required" => seen[e][f] = Absent
      BY <2>0 DEF RunInv, GrantInv, Mutates
    <3>3. f \notin committed[e] => post[e][f] = Absent
      BY <2>0 DEF RunInv, RecordInv
    <3>4. bak[e][f] # Absent =>
            op[e][f] = "replace_required" /\ bakSha[e][f] # Absent /\ bakSha[e][f] = seen[e][f]
      BY <2>0, ContentsAssumption DEF RunInv, RecordInv, AloneInv, VerifiedBackup
    <3> QED BY <3>1, <3>2, <3>3, <3>4 DEF OperationRecordValid
  <2>2. StatusPrecedenceValid(e)
    <3>1. created[e] \subseteq chain[e] /\ removed[e] \subseteq created[e]
      BY <2>0 DEF RunInv, DoneInv
    <3>2. status[e] = "executed" => committed[e] = Files
      BY <2>0 DEF RunInv, StatusInv, Through, Mutates
    <3>3. status[e] = "partial_executed" =>
             committed[e] # {} /\ \E f \in Files : op[e][f] = "no_change"
      BY <2>0 DEF RunInv, StatusInv, Through, Mutates, Operations
    <3>4. status[e] = "no_change" => committed[e] = {} /\ \A f \in Files : op[e][f] = "no_change"
      BY <2>0 DEF RunInv, StatusInv
    <3>5. status[e] = "verification_failed" => ~clean[e]
      BY <2>0 DEF RunInv, StatusInv
    <3> QED BY <3>1, <3>2, <3>3, <3>4, <3>5 DEF StatusPrecedenceValid, Through
  <2> QED BY <2>1, <2>2 DEF ReceiptValidates
<1> QED BY <1>1, AloneCorrect, PTL

-----------------------------------------------------------------------------
(* The same executor when every file it asks about can be read: what it     *)
(* remembers of the disk is the truth, and compensation takes all back.     *)

Recovering == {"compensate", "recheck", "unlink", "rmdir"}

\* What was evaluated and not committed is as it was seen, blocked or not.
SightInv(e) ==
    foreign = 0 =>
      /\ pc[e] = "start" => Mutates(e) = {}
      /\ pc[e] = "evaluate" => \A f \in Files \ todo[e] : dest[f] = seen[e][f]
      /\ pc[e] \notin {"start", "evaluate", "crashed"} /\ Mutates(e) # {} =>
            \A f \in Files \ committed[e] : dest[f] = seen[e][f]

\* Where compensation stands with a committed file.
TakenBack(e, f) ==
    IF pc[e] = "recheck" /\ f = Last(todo[e]) THEN dest[f] = seen[e][f]
    ELSE IF pc[e] # "rmdir" /\ f \in todo[e] THEN dest[f] = Source[f]
    ELSE clean[e] => dest[f] = seen[e][f]

RecoveryInv(e) ==
    foreign = 0 =>
      /\ pc[e] \in Recovering => \A f \in committed[e] : TakenBack(e, f)
      /\ pc[e] = "rmdir" /\ clean[e] => (created[e] \ todo[e]) \cap dirs = {}
      /\ status[e] = "failed_compensated" =>
            created[e] \cap dirs = {} /\ \A f \in committed[e] : dest[f] = seen[e][f]

\* Every directory made is known to have been, and a run that ended says how.
OwnInv(e) ==
    /\ touched[e] \cap Dirs = created[e]
    /\ pc[e] \in {"receipt", "done"} => status[e] # "none"

LEMMA OwnStep ==
    ASSUME NEW e, Executors = {e}, "read" \notin FaultKinds, IInv, Runs, OwnInv(e), Step(e)
    PROVE  OwnInv(e)'
<1>0. e \in Executors /\ TypeOK /\ RunInv(e)
  BY DEF IInv, Runs
<1>t. /\ touched \in [Executors -> SUBSET (Files \cup Dirs)] /\ created \in [Executors -> SUBSET Dirs]
      /\ status \in [Executors -> Statuses]
  BY <1>0, FieldTypes
<1>e. ASSUME NEW p, NEW s, Enter(e, p, s) PROVE pc'[e] = p
  BY <1>0, <1>e DEF Enter, TypeOK, ControlTypeOK
<1>s. ASSUME NEW s, Finish(e, s) PROVE pc'[e] = "receipt" /\ status'[e] = s
  BY <1>s, <1>e, <1>t DEF Finish
<1>d. Files \cap Dirs = {}
  BY DEF Files, Dirs
<1>1. touched'[e] \cap Dirs = created'[e]
  <2>1. CASE CreateDirectory(e)
    BY <1>t, <2>1, OrderInRange DEF CreateDirectory, Fault, OwnInv
  <2>2. CASE Replace(e)
    BY <1>t, <1>d, <2>2, OrderInRange DEF Replace, OwnInv
  <2>3. CASE Restore(e) \/ UnlinkCreated(e)
    BY <1>t, <1>d, <2>3, OrderInRange DEF Restore, UnlinkCreated, history, OwnInv
  <2>4. CASE RemoveDirectory(e)
    <3>1. pc[e] = "rmdir" /\ todo[e] # {}
      BY <2>4 DEF RemoveDirectory
    <3>2. LastDir(todo[e]) \in created[e]
      BY <1>0, <3>1, OrderPicks DEF RunInv, WorkInv, DoneInv
    <3> QED BY <1>t, <2>4, <3>2 DEF RemoveDirectory, OwnInv
  <2>5. CASE Admit(e) \/ EvaluateFile(e) \/ Gate(e) \/ CreateBackup(e) \/ CreateTemp(e) \/ CheckAbsent(e)
    BY <2>5 DEF Admit, EvaluateFile, Gate, CreateBackup, CreateTemp, CheckAbsent, memory, history, OwnInv
  <2>6. CASE VerifyCommit(e) \/ PostVerify(e) \/ Discard(e) \/ RecheckRestored(e) \/ CheckCreated(e)
             \/ Conclude(e) \/ WriteReceipt(e)
    BY <2>6 DEF VerifyCommit, PostVerify, Discard, RecheckRestored, CheckCreated, Conclude,
       WriteReceipt, memory, history, OwnInv
  <2> QED BY <2>1, <2>2, <2>3, <2>4, <2>5, <2>6 DEF Step
<1>2. pc'[e] \in {"receipt", "done"} => status'[e] # "none"
  <2>1. CASE Admit(e) \/ EvaluateFile(e) \/ Gate(e) \/ CreateDirectory(e)
    BY <1>e, <1>s, <1>t, <2>1 DEF Admit, EvaluateFile, Gate, CreateDirectory, Loop, Raise
  <2>2. CASE CreateBackup(e) \/ CreateTemp(e) \/ CheckAbsent(e) \/ Replace(e) \/ VerifyCommit(e)
    BY <1>e, <2>2 DEF CreateBackup, CreateTemp, CheckAbsent, Replace, VerifyCommit, Loop, Raise, control
  <2>3. CASE PostVerify(e) \/ Discard(e) \/ Conclude(e)
    BY <1>e, <1>s, <2>3 DEF PostVerify, Discard, Conclude
  <2>4. CASE Restore(e) \/ RecheckRestored(e) \/ CheckCreated(e) \/ UnlinkCreated(e)
    BY <1>e, <2>4 DEF Restore, RecheckRestored, CheckCreated, UnlinkCreated, NextCompensation
  <2>5. CASE RemoveDirectory(e)
    BY <1>e, <2>5 DEF RemoveDirectory
  <2>6. CASE WriteReceipt(e)
    BY <2>6 DEF WriteReceipt, OwnInv
  <2> QED BY <2>1, <2>2, <2>3, <2>4, <2>5, <2>6 DEF Step
<1> QED BY <1>1, <1>2 DEF OwnInv

LEMMA SightStep ==
    ASSUME NEW e, Executors = {e}, "read" \notin FaultKinds, IInv, Runs, AloneInv(e), SightInv(e),
           Step(e), foreign' = 0, foreign = 0, (IInv /\ Runs /\ AloneInv(e))'
    PROVE  SightInv(e)'
<1>0. /\ e \in Executors /\ TypeOK /\ RunInv(e) /\ RunInv(e)'
      /\ committed[e] \subseteq Files
  BY FieldTypes DEF IInv, Runs
<1>e. ASSUME NEW p, NEW s, Enter(e, p, s) PROVE pc'[e] = p /\ todo'[e] = s
  BY <1>0, <1>e DEF Enter, TypeOK, ControlTypeOK
<1>s. ASSUME NEW s, Finish(e, s) PROVE pc'[e] = "receipt"
  BY <1>s, <1>e DEF Finish
<1>1. CASE Admit(e)
  <2>1. /\ UNCHANGED <<op, seen, dest, committed>> /\ pc[e] = "start"
        /\ (pc'[e] = "evaluate" /\ todo'[e] = Files) \/ pc'[e] = "done"
    BY <1>1, <1>e DEF Admit, memory, fs
  <2> QED BY <2>1 DEF SightInv, Mutates
<1>2. CASE EvaluateFile(e)
  <2>1. UNCHANGED <<dest, committed>> /\ pc[e] = "evaluate"
    BY <1>2 DEF EvaluateFile, fs
  <2> QED BY <1>0, <1>2, <2>1, EvaluateReads DEF SightInv
<1>3. CASE Gate(e)
  <2>1. UNCHANGED <<op, seen, dest, committed>> /\ pc[e] = "gate"
    BY <1>3 DEF Gate, memory, fs
  <2>2. pc'[e] \notin {"start", "evaluate"}
    BY <1>3, <1>e, <1>s DEF Gate
  <2> QED BY <2>1, <2>2 DEF SightInv, Mutates
<1>4. CASE WriteReceipt(e)
  <2>1. UNCHANGED <<op, seen, dest, committed>> /\ pc[e] = "receipt"
    BY <1>4 DEF WriteReceipt, memory, fs
  <2>2. pc'[e] \notin {"start", "evaluate"}
    BY <1>4, <1>e DEF WriteReceipt
  <2> QED BY <2>1, <2>2 DEF SightInv, Mutates
<1>5. CASE ~Admit(e) /\ ~EvaluateFile(e) /\ ~Gate(e) /\ ~WriteReceipt(e)
  <2>1. pc[e] \in Acting /\ pc'[e] \notin {"start", "evaluate"} /\ UNCHANGED op
    <3>1. CASE CreateDirectory(e) \/ CreateBackup(e) \/ CreateTemp(e) \/ CheckAbsent(e)
      BY <1>e, <3>1 DEF CreateDirectory, CreateBackup, CreateTemp, CheckAbsent, Loop, Raise,
         control, memory, Acting
    <3>2. CASE Replace(e) \/ VerifyCommit(e) \/ PostVerify(e) \/ Discard(e)
      BY <1>e, <1>s, <3>2 DEF Replace, VerifyCommit, PostVerify, Discard, Raise, memory, Acting
    <3>3. CASE Restore(e) \/ RecheckRestored(e) \/ CheckCreated(e) \/ UnlinkCreated(e)
      BY <1>e, <3>3 DEF Restore, RecheckRestored, CheckCreated, UnlinkCreated, NextCompensation, Acting
    <3>4. CASE RemoveDirectory(e) \/ Conclude(e)
      BY <1>e, <1>s, <3>4 DEF RemoveDirectory, Conclude, memory, Acting
    <3> QED BY <1>5, <3>1, <3>2, <3>3, <3>4 DEF Step
  <2>2. \A f \in Files : op'[e][f] # "blocked"
    BY <1>0, <2>1 DEF RunInv, DoneInv
  <2> QED BY <2>1, <2>2 DEF SightInv, AloneInv
<1> QED BY <1>1, <1>2, <1>3, <1>4, <1>5

LEMMA RecoveryStep ==
    ASSUME NEW e, Executors = {e}, "read" \notin FaultKinds, IInv, Runs, AloneInv(e), RecoveryInv(e),
           Step(e), foreign' = 0, foreign = 0
    PROVE  RecoveryInv(e)'
<1>0. /\ e \in Executors /\ TypeOK /\ RunInv(e) /\ committed[e] \subseteq Files
      /\ dest \in [Files -> Stored] /\ clean \in [Executors -> BOOLEAN]
      /\ status \in [Executors -> Statuses]
  BY FieldTypes DEF IInv, Runs
<1>e. ASSUME NEW p, NEW s, Enter(e, p, s) PROVE pc'[e] = p /\ todo'[e] = s
  BY <1>0, <1>e DEF Enter, TypeOK, ControlTypeOK
<1>s. ASSUME NEW s, Finish(e, s) PROVE pc'[e] = "receipt" /\ status'[e] = s
  BY <1>0, <1>s, <1>e DEF Finish
\* One file more is compensated: the others keep their place.
<1>n. ASSUME pc[e] \in {"compensate", "recheck", "unlink"}, UNCHANGED <<committed, seen, created, status>>,
             NEW f \in committed[e], f = Last(todo[e]), NextCompensation(e, f),
             \A g \in committed[e] \ {f} : dest'[g] = dest[g],
             clean'[e] => clean[e] /\ dest'[f] = seen[e][f]
      PROVE  RecoveryInv(e)'
  <2>1. \/ pc'[e] = "rmdir" /\ todo'[e] = created[e] /\ todo[e] = {f}
        \/ pc'[e] = "compensate" /\ todo'[e] = todo[e] \ {f} /\ todo[e] # {f}
    BY <1>e, <1>n DEF NextCompensation
  <2>2. \A g \in committed[e] : TakenBack(e, g)
    BY <1>n DEF RecoveryInv, Recovering
  <2>3. \A g \in committed[e] : TakenBack(e, g)'
    BY <1>n, <2>1, <2>2 DEF TakenBack
  <2>4. status[e] = "none"
    BY <1>0, <1>n DEF RunInv, StatusInv, Finished
  <2>5. pc'[e] = "rmdir" => created'[e] \ todo'[e] = {}
    <3>1. UNCHANGED created
      BY <1>n
    <3> QED BY <2>1, <3>1
  <2> QED BY <1>n, <2>1, <2>3, <2>4, <2>5 DEF RecoveryInv
<1>1. CASE Discard(e)
  <2>1. /\ UNCHANGED <<dest, dirs, committed, created, clean>> /\ pc[e] = "discard" /\ status[e] = "none"
    BY <1>0, <1>1 DEF Discard, memory, RunInv, StatusInv, Finished
  <2>2. \A f \in committed[e] : dest[f] = Source[f]
    BY <2>1 DEF AloneInv, Forward
  <2>3. \/ pc'[e] = "compensate" /\ todo'[e] = committed[e] /\ UNCHANGED status
        \/ pc'[e] = "rmdir" /\ todo'[e] = created[e] /\ committed[e] = {} /\ UNCHANGED status
        \/ pc'[e] = "receipt" /\ status'[e] = "blocked"
    BY <1>1, <1>e, <1>s DEF Discard
  <2> QED BY <2>1, <2>2, <2>3 DEF RecoveryInv, TakenBack, Recovering
<1>2. CASE Restore(e)
  <2> DEFINE f == Last(todo[e])
  <2>1. /\ f \in todo[e] /\ f \in committed[e] /\ VerifiedBackup(e, f) /\ pc[e] = "compensate"
        /\ UNCHANGED <<seen, committed, created, status>>
    BY <1>0, <1>2, RestoreWrites DEF Restore, outcome
  <2>2. CASE UNCHANGED dest /\ ~clean'[e] /\ NextCompensation(e, f)
    BY <1>n, <2>1, <2>2
  <2>3. CASE /\ dest' = [dest EXCEPT ![f] = bak[e][f]] /\ UNCHANGED clean
             /\ pc'[e] = "recheck" /\ todo'[e] = todo[e]
    <3>1. \A g \in committed[e] : dest'[g] = IF g = f THEN seen[e][f] ELSE dest[g]
      BY <1>0, <2>1, <2>3 DEF AloneInv
    <3>2. status[e] = "none"
      BY <1>0, <2>1 DEF RunInv, StatusInv, Finished
    <3>3. \A g \in committed[e] : TakenBack(e, g)'
      BY <2>1, <2>3, <3>1 DEF RecoveryInv, TakenBack, Recovering
    <3> QED BY <2>1, <2>3, <3>2, <3>3 DEF RecoveryInv
  <2> QED BY <1>0, <1>2, <2>2, <2>3, RestoreWrites
<1>3. CASE RecheckRestored(e)
  <2> DEFINE f == Last(todo[e])
  <2>1. /\ UNCHANGED <<dest, seen, committed, created, status>> /\ pc[e] = "recheck"
        /\ NextCompensation(e, f) /\ (clean'[e] => clean[e])
    BY <1>0, <1>3 DEF RecheckRestored, fs, outcome
  <2>2. f \in committed[e]
    BY <1>0, <2>1, OrderPicks DEF RunInv, WorkInv, DoneInv, Mutates
  <2>3. dest[f] = seen[e][f]
    BY <2>1, <2>2 DEF RecoveryInv, TakenBack, Recovering
  <2> QED BY <1>n, <2>1, <2>2, <2>3
<1>4. CASE CheckCreated(e)
  <2> DEFINE f == Last(todo[e])
  <2>1. UNCHANGED <<dest, dirs, seen, committed, created, status>> /\ pc[e] = "compensate"
    BY <1>4 DEF CheckCreated, fs, outcome
  <2>2. f \in committed[e] /\ f \in todo[e]
    BY <1>0, <2>1, OrderPicks DEF RunInv, WorkInv, DoneInv, Mutates
  <2>3. dest[f] = Source[f]
    BY <2>1, <2>2 DEF RecoveryInv, TakenBack, Recovering
  <2>4. pc'[e] = "unlink" /\ todo'[e] = todo[e] /\ (clean'[e] => clean[e])
    BY <1>0, <1>4, <1>e, <2>3 DEF CheckCreated, Fault
  <2>5. status[e] = "none"
    BY <1>0, <2>1 DEF RunInv, StatusInv, Finished
  <2> QED BY <2>1, <2>4, <2>5 DEF RecoveryInv, TakenBack, Recovering
<1>5. CASE UnlinkCreated(e)
  <2> DEFINE f == Last(todo[e])
  <2>1. /\ f \in committed[e] /\ seen[e][f] = Absent /\ pc[e] = "unlink" /\ NextCompensation(e, f)
        /\ UNCHANGED <<seen, committed, created, status>>
        /\ (UNCHANGED dest /\ ~clean'[e]) \/ (dest' = [dest EXCEPT ![f] = Absent] /\ UNCHANGED clean)
    BY <1>0, <1>5, UnlinkWrites DEF UnlinkCreated, outcome
  <2>2. /\ \A g \in committed[e] \ {f} : dest'[g] = dest[g]
        /\ clean'[e] => clean[e] /\ dest'[f] = seen[e][f]
    BY <1>0, <2>1
  <2> QED BY <1>n, <2>1, <2>2
<1>6. CASE RemoveDirectory(e)
  <2> DEFINE d == LastDir(todo[e])
  <2>1. UNCHANGED <<dest, seen, committed, created, status>> /\ pc[e] = "rmdir" /\ status[e] = "none"
    BY <1>0, <1>6 DEF RemoveDirectory, outcome, RunInv, StatusInv, Finished
  <2>2. /\ pc'[e] = "rmdir" /\ clean'[e] => clean[e] /\ todo'[e] = todo[e] \ {d} /\ dirs' = dirs \ {d}
        /\ clean'[e] => clean[e]
    BY <1>0, <1>6, <1>e DEF RemoveDirectory
  <2>3. pc'[e] \in {"rmdir", "raised"}
    BY <1>6, <1>e DEF RemoveDirectory
  <2> QED BY <2>1, <2>2, <2>3 DEF RecoveryInv, TakenBack, Recovering
<1>7. CASE Conclude(e)
  <2>1. /\ UNCHANGED <<dest, dirs, seen, committed, created>> /\ pc[e] = "rmdir" /\ todo[e] = {}
    BY <1>7 DEF Conclude, fs, memory
  <2>2. pc'[e] = "receipt" /\ (status'[e] = "failed_compensated" => clean[e])
    BY <1>7, <1>s DEF Conclude
  <2> QED BY <2>1, <2>2 DEF RecoveryInv, TakenBack, Recovering
<1>8. CASE WriteReceipt(e)
  <2>1. UNCHANGED <<dest, dirs, seen, committed, created, status>>
    BY <1>8 DEF WriteReceipt, fs, memory
  <2>2. pc'[e] \in {"done", "raised"}
    BY <1>8, <1>e DEF WriteReceipt
  <2> QED BY <2>1, <2>2 DEF RecoveryInv, Recovering
<1>9. ASSUME pc'[e] \notin Recovering, status'[e] # "failed_compensated" PROVE RecoveryInv(e)'
  BY <1>9 DEF RecoveryInv, Recovering
<1>10. CASE Admit(e) \/ EvaluateFile(e) \/ Gate(e) \/ CreateDirectory(e) \/ CreateBackup(e) \/ CreateTemp(e)
  <2>1. status[e] = "none"
    BY <1>0, <1>10 DEF RunInv, StatusInv, Finished, Admit, EvaluateFile, Gate, CreateDirectory,
       CreateBackup, CreateTemp
  <2>2. CASE Admit(e) \/ EvaluateFile(e) \/ Gate(e)
    BY <1>0, <1>e, <1>s, <1>9, <2>1, <2>2 DEF Admit, EvaluateFile, Gate, Loop, Recovering, outcome
  <2>3. CASE CreateDirectory(e) \/ CreateBackup(e) \/ CreateTemp(e)
    BY <1>e, <1>9, <2>1, <2>3 DEF CreateDirectory, CreateBackup, CreateTemp, Loop, Raise, Recovering,
       outcome, control
  <2> QED BY <1>10, <2>2, <2>3
<1>11. CASE CheckAbsent(e) \/ Replace(e) \/ VerifyCommit(e) \/ PostVerify(e)
  <2>1. status[e] = "none"
    BY <1>0, <1>11 DEF RunInv, StatusInv, Finished, CheckAbsent, Replace, VerifyCommit, PostVerify
  <2> QED
    BY <1>0, <1>e, <1>s, <1>9, <1>11, <2>1 DEF CheckAbsent, Replace, VerifyCommit, PostVerify, Raise,
       Recovering, outcome
<1> QED BY <1>1, <1>2, <1>3, <1>4, <1>5, <1>6, <1>7, <1>8, <1>10, <1>11 DEF Step

TruthInv(e) == AloneInv(e) /\ OwnInv(e) /\ SightInv(e) /\ RecoveryInv(e)

LEMMA TruthCorrect ==
    ASSUME NEW e, Executors = {e}, "read" \notin FaultKinds
    PROVE  Spec => [](IInv /\ Runs /\ (foreign = 0 => TruthInv(e)))
<1> DEFINE Truth == foreign = 0 => TruthInv(e)
<1>0. e \in Executors
  OBVIOUS
<1>1. Init => Truth
  <2> SUFFICES ASSUME Init PROVE TruthInv(e)
    OBVIOUS
  <2>1. AloneInv(e)
    BY <1>0, ContentsAssumption DEF Init, AloneInv, VerifiedBackup, Forward, Through
  <2>2. OwnInv(e)
    BY <1>0 DEF Init, OwnInv
  <2>3. SightInv(e)
    BY <1>0 DEF Init, SightInv, Mutates
  <2>4. RecoveryInv(e)
    BY <1>0 DEF Init, RecoveryInv, Recovering
  <2> QED BY <2>1, <2>2, <2>3, <2>4 DEF TruthInv
<1>2. (IInv /\ Runs) /\ (IInv /\ Runs)' /\ Truth /\ [Next]_vars => Truth'
  <2> SUFFICES ASSUME IInv /\ Runs, (IInv /\ Runs)', Truth, [Next]_vars, foreign' = 0
               PROVE  TruthInv(e)'
    OBVIOUS
  <2>0. foreign = 0 /\ TruthInv(e) /\ TypeOK /\ AloneInv(e)'
    BY StillCalm, AloneStep DEF TruthInv, IInv
  <2>1. CASE Step(e)
    BY <2>0, <2>1, OwnStep, SightStep, RecoveryStep DEF TruthInv
  <2>2. CASE \E x \in Executors : Crash(x)
    <3>1. UNCHANGED <<dest, dirs, memory, status, touched>> /\ pc'[e] = "crashed"
      BY <1>0, <2>0, <2>2 DEF Crash, Enter, TypeOK, ControlTypeOK, history
    <3> QED BY <2>0, <3>1 DEF TruthInv, OwnInv, SightInv, RecoveryInv, Recovering, memory
  <2>3. CASE UNCHANGED vars
    <3>1. UNCHANGED <<dest, dirs, memory, status, touched, pc, todo>>
      BY <2>3 DEF vars, fs, control, outcome, history
    <3> QED
      BY <2>0, <3>1 DEF TruthInv, OwnInv, SightInv, RecoveryInv, TakenBack, Mutates, memory
  <2>4. Step(e) \/ (\E x \in Executors : Crash(x)) \/ UNCHANGED vars
    <3>1. ~Interfere
      BY <2>0 DEF Interfere, TypeOK, HistoryTypeOK
    <3> QED BY <1>0, <3>1 DEF Next, Rest, ForeignFile, ForeignMakeDirectory, ForeignRemoveDirectory
  <2> QED BY <2>1, <2>2, <2>3, <2>4
<1> HIDE DEF Truth
<1>3. Spec => [](IInv /\ Runs /\ Truth)
  BY <1>1, <1>2, RunsCorrect, PTL DEF Spec
<1> QED BY <1>3 DEF Truth

\* What such an executor reports is what the disk holds: a success means the
\* source's content, a refusal or a clean compensation that all is as found.
THEOREM StatusIsHonest ==
    ASSUME NEW e, Executors = {e}, "read" \notin FaultKinds
    PROVE  Spec => []HonestOutcome
<1>1. IInv /\ Runs /\ (foreign = 0 => TruthInv(e)) => HonestOutcome
  <2> SUFFICES ASSUME IInv, Runs, TruthInv(e), foreign = 0, pc[e] \in {"receipt", "done"}
               PROVE  /\ status[e] \in {"executed", "partial_executed", "no_change"} => dest = Source
                      /\ status[e] \in {"blocked", "no_change", "failed_compensated"} =>
                            /\ touched[e] \cap Files # {} => dest = seen[e]
                            /\ touched[e] \cap Dirs \cap dirs = {}
    BY DEF HonestOutcome, Undisturbed
  <2>1. /\ e \in Executors /\ RunInv(e) /\ op[e] \in [Files -> Operations]
        /\ committed[e] \subseteq Mutates(e) /\ chain[e] \cap Files = {}
        /\ dest \in [Files -> Stored] /\ seen[e] \in [Files -> Stored]
        /\ Source \in [Files -> Contents]
        /\ AloneInv(e) /\ OwnInv(e) /\ RecoveryInv(e)
    BY FieldTypes, ContentsAssumption DEF Runs, RunInv, DoneInv, Chains, Files, TruthInv
  <2>2. ASSUME status[e] \in {"executed", "partial_executed", "no_change"} PROVE dest = Source
    <3>1. ASSUME NEW f \in Files PROVE dest[f] = Source[f]
      <4>1. CASE f \in committed[e]
        BY <2>1, <2>2, <4>1 DEF AloneInv, Through, RunInv, StatusInv
      <4>2. CASE f \notin committed[e]
        <5>1. op[e][f] = "no_change"
          BY <2>1, <2>2, <4>2 DEF RunInv, StatusInv, Through, Mutates, Operations
        <5> QED BY <2>1, <4>2, <5>1 DEF AloneInv, RunInv, GrantInv
      <4> QED BY <4>1, <4>2
    <3> QED BY <2>1, <3>1
  <2>3. ASSUME status[e] \in {"blocked", "no_change"}
        PROVE  touched[e] \cap Files = {} /\ touched[e] \cap Dirs = {}
    BY <2>1, <2>3 DEF RunInv, StatusInv, DoneInv, OwnInv
  <2>4. ASSUME status[e] = "failed_compensated"
        PROVE  (touched[e] # {} => dest = seen[e]) /\ touched[e] \cap Dirs \cap dirs = {}
    <3>1. touched[e] # {} => \A f \in Files : dest[f] = seen[e][f]
      BY <2>1, <2>4 DEF RunInv, DoneInv, AloneInv, RecoveryInv
    <3>2. touched[e] \cap Dirs \cap dirs = {}
      BY <2>1, <2>4 DEF OwnInv, RecoveryInv
    <3> QED BY <2>1, <3>1, <3>2
  <2> QED BY <2>2, <2>3, <2>4
<1> QED BY <1>1, TruthCorrect, PTL

\* A plan such an executor leaves half applied is confessed as a compensation
\* that is incomplete.
THEOREM HalfAppliedConfessed ==
    ASSUME NEW e, Executors = {e}, "read" \notin FaultKinds
    PROVE  Spec => []HalfAppliedIsConfessed
<1>1. IInv /\ Runs /\ (foreign = 0 => TruthInv(e)) => HalfAppliedIsConfessed
  <2> SUFFICES ASSUME IInv, Runs, TruthInv(e), foreign = 0, pc[e] = "done", dest # seen[e],
                      NEW f \in Mutates(e), dest[f] # Source[f]
               PROVE  status[e] = "failed_compensation_incomplete"
    BY DEF HalfAppliedIsConfessed, Undisturbed
  <2>1. /\ e \in Executors /\ RunInv(e) /\ f \in Files /\ status[e] \in Statuses
        /\ dest \in [Files -> Stored] /\ seen[e] \in [Files -> Stored]
    BY FieldTypes DEF Runs, Mutates
  <2>2. PICK g \in Files : dest[g] # seen[e][g]
    BY <2>1
  <2>3. g \in committed[e]
    BY <2>2 DEF TruthInv, SightInv
  <2>4. status[e] \notin Through
    BY <2>1 DEF RunInv, StatusInv, TruthInv, AloneInv
  <2>5. status[e] \notin {"no_change", "blocked"}
    BY <2>1, <2>3 DEF RunInv, StatusInv
  <2>6. status[e] # "failed_compensated" /\ status[e] # "none"
    BY <2>2, <2>3 DEF TruthInv, RecoveryInv, OwnInv
  <2> QED BY <2>1, <2>4, <2>5, <2>6 DEF Statuses, Through
<1> QED BY <1>1, TruthCorrect, PTL
-----------------------------------------------------------------------------
(* Termination, as far as safety says it: any number of executors, faults,  *)
(* kills and other programs.                                                *)

\* The members of a work list; the runtime root and "bin" are never on one.
Items(S) == (IF "profile" \in S THEN 1 ELSE 0) + (IF "wrapper" \in S THEN 1 ELSE 0)
            + (IF "config" \in S THEN 1 ELSE 0) + (IF "profiles" \in S THEN 1 ELSE 0)

\* The files whose backup is still to be made.
Unsaved(e) == {f \in todo[e] : op[e][f] = "replace_required" /\ bak[e][f] = Absent}

\* How many steps an executor may still take: one for each decision, evaluation,
\* directory, backup, temporary, check, commit, hash and compensation ahead of it.
StepsLeft(e) ==
    CASE pc[e] = "start"      -> 25
      [] pc[e] = "evaluate"   -> 22 + Items(todo[e])
      [] pc[e] = "gate"       -> 22
      [] pc[e] = "mkdir"      -> 19 + Items(todo[e])
      [] pc[e] = "prepare"    -> 15 + Items(todo[e]) + Items(Unsaved(e))
      [] pc[e] = "commit"     -> 9 + 3 * Items(todo[e])
      [] pc[e] = "replace"    -> 8 + 3 * Items(todo[e])
      [] pc[e] = "verify"     -> 7 + 3 * Items(todo[e])
      [] pc[e] = "discard"    -> 9
      [] pc[e] = "compensate" -> 4 + 2 * Items(todo[e])
      [] pc[e] \in {"recheck", "unlink"} -> 3 + 2 * Items(todo[e])
      [] pc[e] = "rmdir"      -> 2 + Items(todo[e])
      [] pc[e] = "postverify" -> 1 + Items(todo[e])
      [] pc[e] = "receipt"    -> 1
      [] OTHER                -> 0

\* Where an executor has a step that needs no fault: the guards of the actions of
\* each phase, for what that phase can find on the disk.
MayStep(e) ==
    LET first == First(todo[e])
        last  == Last(todo[e])
    IN \/ pc[e] \in {"start", "evaluate", "replace", "verify", "postverify", "discard",
                     "recheck", "unlink", "rmdir", "receipt"}
       \/ pc[e] = "gate" /\ \/ \E f \in Files : op[e][f] = "blocked"
                            \/ \A f \in Files : op[e][f] = "no_change"
                            \/ Mutates(e) # {} /\ \A f \in Files : op[e][f] # "blocked"
       \/ pc[e] = "mkdir" /\ todo[e] # {}
       \/ pc[e] = "prepare" /\ op[e][first] \in {"create_required", "replace_required"}
       \/ pc[e] = "commit" /\ op[e][first] \in {"create_required", "replace_required"}
       \/ pc[e] = "compensate" /\ op[e][last] = "create_required"
       \/ pc[e] = "compensate" /\ op[e][last] = "replace_required" /\ bak[e][last] = bakSha[e][last]

NeverStuck == \A e \in Executors : pc[e] \notin Stopped => MayStep(e)

-----------------------------------------------------------------------------
LEMMA ItemsCount ==
    /\ \A S : Items(S) \in 0..4 /\ (S = {} => Items(S) = 0)
    /\ \A S \in SUBSET Files : Items(S) <= 2 /\ (S # {} => Items(S) >= 1)
    /\ \A S \in SUBSET Chains : Items(S) <= 2 /\ (S # {} => Items(S) >= 1)
    /\ \A S : \A x \in S : x \in Files \cup Chains => Items(S \ {x}) = Items(S) - 1
    /\ \A S, T : S \subseteq T => Items(S) <= Items(T)
<1>1. \A S : Items(S) \in 0..4 /\ (S = {} => Items(S) = 0)
  BY DEF Items
<1>2. ASSUME NEW S \in SUBSET Files PROVE Items(S) <= 2 /\ (S # {} => Items(S) >= 1)
  <2>1. "config" \notin S /\ "profiles" \notin S
    BY DEF Files
  <2>2. S # {} => "profile" \in S \/ "wrapper" \in S
    BY DEF Files
  <2> QED BY <2>1, <2>2 DEF Items
<1>3. ASSUME NEW S \in SUBSET Chains PROVE Items(S) <= 2 /\ (S # {} => Items(S) >= 1)
  <2>1. "profile" \notin S /\ "wrapper" \notin S
    BY DEF Chains
  <2>2. S # {} => "config" \in S \/ "profiles" \in S
    BY DEF Chains
  <2> QED BY <2>1, <2>2 DEF Items
<1>4. \A S : \A x \in S : x \in Files \cup Chains => Items(S \ {x}) = Items(S) - 1
  BY DEF Items, Files, Chains
<1>5. \A S, T : S \subseteq T => Items(S) <= Items(T)
  BY DEF Items
<1> QED BY <1>1, <1>2, <1>3, <1>4, <1>5

LEMMA StepsBounded ==
    ASSUME IInv, NEW e \in Executors, RunInv(e)
    PROVE  StepsLeft(e) \in 0..25
<1>1. pc[e] \in {"evaluate", "prepare", "compensate", "recheck", "unlink"} \cup Committing
         => todo[e] \subseteq Files
  BY DEF RunInv, WorkInv, DoneInv, Files, Mutates, Committing
<1>2. pc[e] \in {"mkdir", "rmdir"} => todo[e] \subseteq Chains
  BY DEF RunInv, WorkInv, DoneInv
<1>3. Unsaved(e) \subseteq todo[e]
  BY DEF Unsaved
<1>4. /\ Items(todo[e]) \in 0..4 /\ Items(Unsaved(e)) \in 0..4 /\ Items(Unsaved(e)) <= Items(todo[e])
      /\ todo[e] \subseteq Files => Items(todo[e]) <= 2
      /\ todo[e] \subseteq Chains => Items(todo[e]) <= 2
  BY <1>3, ItemsCount
<1> QED BY <1>1, <1>2, <1>4 DEF StepsLeft, Committing

\* The step of an executor, one case per action.
LEMMA StepRunsDown ==
    ASSUME IInv, NEW e \in Executors, RunInv(e), Step(e)
    PROVE  StepsLeft(e)' < StepsLeft(e)
<1>0. /\ TypeOK /\ committed[e] \subseteq Files /\ created[e] \subseteq Chains
      /\ op[e] \in [Files -> Operations] /\ Mutates(e) \subseteq Files
      /\ bak \in [Executors -> [Files -> Stored]] /\ op \in [Executors -> [Files -> Operations]]
  BY DEF IInv, TypeOK, FileSystemTypeOK, MemoryTypeOK, Mutates, RunInv, DoneInv
<1>e. ASSUME NEW p, NEW s, Enter(e, p, s) PROVE pc'[e] = p /\ todo'[e] = s
  BY <1>e, <1>0 DEF Enter, TypeOK, ControlTypeOK
<1>s. ASSUME NEW s, Finish(e, s) PROVE pc'[e] = "receipt"
  BY <1>s, <1>e DEF Finish
<1>d. ASSUME Raise(e) PROVE pc'[e] = "discard"
  BY <1>d, <1>e DEF Raise
<1>w. WorkInv(e)
  BY DEF RunInv
<1>i. /\ Items(Files) = 2 /\ Items(Mutates(e)) <= 2 /\ Items(Mutates(e)) \in 0..4
      /\ Items(chain[e]) <= 2 /\ Items(chain[e]) \in 0..4
      /\ Items(committed[e]) <= 2 /\ Items(committed[e]) \in 0..4
      /\ Items(created[e]) <= 2 /\ Items(created[e]) \in 0..4
      /\ Items(todo[e]) \in 0..4 /\ Items(Unsaved(e)) \in 0..4
      /\ Items(todo'[e]) \in 0..4 /\ Items(Unsaved(e)') \in 0..4
      /\ Items({}) = 0
  <2>1. Items(Files) = 2
    BY DEF Items, Files
  <2>2. chain[e] \subseteq Chains
    BY DEF RunInv, DoneInv
  <2> QED BY <1>0, <2>1, <2>2, ItemsCount
\* What taking one file, or one directory, off the list leaves.
<1>f. ASSUME todo[e] \subseteq Files, todo[e] # {}, NEW f \in {First(todo[e]), Last(todo[e])}
      PROVE  /\ f \in todo[e] /\ f \in Files
             /\ Items(todo[e] \ {f}) = Items(todo[e]) - 1 /\ Items(todo[e]) \in 1..2
  <2>1. f \in todo[e] /\ f \in Files
    BY <1>f, OrderPicks
  <2>2. Items(todo[e] \ {f}) = Items(todo[e]) - 1
    BY <2>1, ItemsCount
  <2>3. Items(todo[e]) >= 1 /\ Items(todo[e]) <= 2
    BY <1>f, ItemsCount
  <2> QED BY <2>1, <2>2, <2>3, <1>i
<1>c. ASSUME todo[e] \subseteq Chains, todo[e] # {}, NEW d \in {FirstDir(todo[e]), LastDir(todo[e])}
      PROVE  Items(todo[e] \ {d}) = Items(todo[e]) - 1 /\ Items(todo[e]) \in 1..2
  <2>1. d \in todo[e] /\ d \in Chains
    BY <1>c, OrderPicks
  <2>2. Items(todo[e] \ {d}) = Items(todo[e]) - 1
    BY <2>1, ItemsCount
  <2>3. Items(todo[e]) >= 1 /\ Items(todo[e]) <= 2
    BY <1>c, ItemsCount
  <2> QED BY <2>2, <2>3, <1>i
<1>1. CASE Admit(e)
  <2>1. pc[e] = "start" /\ (pc'[e] = "done" \/ (pc'[e] = "evaluate" /\ todo'[e] = Files))
    BY <1>1, <1>e DEF Admit
  <2> QED BY <2>1, <1>i DEF StepsLeft
<1>2. CASE EvaluateFile(e)
  <2>1. pc[e] = "evaluate" /\ todo[e] \subseteq Files /\ todo[e] # {}
    BY <1>2, <1>w DEF EvaluateFile, WorkInv, Files
  <2>2. PICK f \in {First(todo[e])} : Loop(e, todo[e] \ {f}, "gate", {})
    BY <1>2 DEF EvaluateFile
  <2>3. pc'[e] = "gate" \/ (pc'[e] = "evaluate" /\ todo'[e] = todo[e] \ {f})
    BY <2>1, <2>2, <1>e DEF Loop
  <2> QED BY <2>1, <2>3, <1>f DEF StepsLeft
<1>3. CASE Gate(e)
  <2>1. /\ pc[e] = "gate"
        /\ \/ pc'[e] = "receipt"
           \/ pc'[e] = "prepare" /\ todo'[e] = Mutates(e)
           \/ pc'[e] = "mkdir" /\ todo'[e] = chain[e]
    BY <1>3, <1>e, <1>s DEF Gate
  <2>2. Unsaved(e)' \subseteq todo'[e]
    BY DEF Unsaved
  <2>3. Items(Unsaved(e)') <= Items(todo'[e])
    BY <2>2, ItemsCount
  <2> QED BY <2>1, <2>3, <1>i DEF StepsLeft
<1>4. CASE CreateDirectory(e)
  <2>1. pc[e] = "mkdir" /\ todo[e] \subseteq Chains /\ todo[e] # {}
    BY <1>4, <1>w DEF CreateDirectory, WorkInv, RunInv, DoneInv
  <2>2. PICK d \in {FirstDir(todo[e])} : Loop(e, todo[e] \ {d}, "prepare", Mutates(e)) \/ Raise(e)
    BY <1>4 DEF CreateDirectory
  <2>3. \/ pc'[e] = "discard"
        \/ pc'[e] = "prepare" /\ todo'[e] = Mutates(e)
        \/ pc'[e] = "mkdir" /\ todo'[e] = todo[e] \ {d}
    BY <2>1, <2>2, <1>e, <1>d DEF Loop
  <2>4. Unsaved(e)' \subseteq todo'[e]
    BY DEF Unsaved
  <2>5. Items(Unsaved(e)') <= Items(todo'[e])
    BY <2>4, ItemsCount
  <2>6. Items(todo[e] \ {d}) = Items(todo[e]) - 1 /\ Items(todo[e]) \in 1..2
    BY <2>1, <1>c
  <2>7. CASE pc'[e] = "prepare" /\ todo'[e] = Mutates(e)
    BY <2>1, <2>5, <2>6, <2>7, <1>i DEF StepsLeft
  <2>8. CASE pc'[e] = "mkdir" /\ todo'[e] = todo[e] \ {d}
    BY <2>1, <2>6, <2>8 DEF StepsLeft
  <2>9. CASE pc'[e] = "discard"
    BY <2>1, <2>6, <2>9 DEF StepsLeft
  <2> QED BY <2>3, <2>7, <2>8, <2>9
<1>5. CASE CreateBackup(e)
  <2> DEFINE f == First(todo[e])
  <2>1. pc[e] = "prepare" /\ todo[e] \subseteq Files /\ todo[e] # {}
    BY <1>5, <1>w, <1>0 DEF CreateBackup, WorkInv
  <2>2. f \in todo[e] /\ f \in Files /\ Items(todo[e]) \in 1..2
    BY <2>1, <1>f
  <2>3. CASE Raise(e)
    BY <2>1, <2>2, <2>3, <1>d, <1>i DEF StepsLeft
  <2>4. CASE ~Raise(e)
    <3>1. /\ dest[f] # Absent /\ bak' = [bak EXCEPT ![e][f] = dest[f]] /\ UNCHANGED <<control, op>>
          /\ op[e][f] = "replace_required" /\ bak[e][f] = Absent
      BY <1>5, <2>4 DEF CreateBackup
    <3>2. pc'[e] = "prepare" /\ todo'[e] = todo[e]
      BY <2>1, <3>1 DEF control
    <3>3. f \in Unsaved(e) /\ Unsaved(e)' = Unsaved(e) \ {f}
      BY <1>0, <2>1, <2>2, <3>1, <3>2 DEF Unsaved
    <3>4. Items(Unsaved(e)') = Items(Unsaved(e)) - 1
      BY <2>2, <3>3, ItemsCount
    <3> QED BY <2>1, <3>2, <3>4, <1>i DEF StepsLeft
  <2> QED BY <2>3, <2>4
<1>6. CASE CreateTemp(e)
  <2> DEFINE f == First(todo[e])
  <2>1. pc[e] = "prepare" /\ todo[e] \subseteq Files /\ todo[e] # {} /\ UNCHANGED <<bak, op>>
    BY <1>6, <1>w, <1>0 DEF CreateTemp, WorkInv, memory
  <2>2. /\ f \in todo[e] /\ Items(todo[e]) \in 1..2 /\ Items(todo[e] \ {f}) = Items(todo[e]) - 1
    BY <2>1, <1>f
  <2>3. Raise(e) \/ Loop(e, todo[e] \ {f}, "commit", Mutates(e))
    BY <1>6 DEF CreateTemp
  <2>4. \/ pc'[e] = "discard"
        \/ pc'[e] = "commit" /\ todo'[e] = Mutates(e)
        \/ pc'[e] = "prepare" /\ todo'[e] = todo[e] \ {f}
    BY <2>1, <2>3, <1>e, <1>d DEF Loop
  <2>5. todo'[e] = todo[e] \ {f} => Unsaved(e)' \subseteq Unsaved(e)
    BY <2>1 DEF Unsaved
  <2>6. todo'[e] = todo[e] \ {f} => Items(Unsaved(e)') <= Items(Unsaved(e))
    BY <2>5, ItemsCount
  <2>7. CASE pc'[e] = "discard"
    BY <2>1, <2>2, <2>7, <1>i DEF StepsLeft
  <2>8. CASE pc'[e] = "commit" /\ todo'[e] = Mutates(e)
    BY <2>1, <2>2, <2>8, <1>i DEF StepsLeft
  <2>9. CASE pc'[e] = "prepare" /\ todo'[e] = todo[e] \ {f}
    BY <2>1, <2>2, <2>6, <2>9, <1>i DEF StepsLeft
  <2> QED BY <2>4, <2>7, <2>8, <2>9
<1>7. CASE CheckAbsent(e)
  <2>1. pc[e] = "commit" /\ todo[e] \subseteq Files /\ todo[e] # {}
    BY <1>7, <1>w, <1>0 DEF CheckAbsent, WorkInv, Committing
  <2>2. pc'[e] = "discard" \/ (pc'[e] = "replace" /\ todo'[e] = todo[e])
    BY <1>7, <1>e, <1>d DEF CheckAbsent
  <2> QED BY <2>1, <2>2, <1>i, ItemsCount DEF StepsLeft
<1>8. CASE Replace(e)
  <2>1. pc[e] \in {"commit", "replace"} /\ todo[e] \subseteq Files /\ todo[e] # {}
    BY <1>8, <1>w, <1>0 DEF Replace, WorkInv, Committing
  <2>2. pc'[e] = "discard" \/ (pc'[e] = "verify" /\ todo'[e] = todo[e])
    BY <1>8, <1>e, <1>d DEF Replace
  <2>3. Items(todo[e]) >= 1
    BY <2>1, ItemsCount
  <2> QED BY <2>1, <2>2, <2>3, <1>i DEF StepsLeft
<1>9. CASE VerifyCommit(e)
  <2>1. pc[e] = "verify" /\ todo[e] \subseteq Files /\ todo[e] # {}
    BY <1>9, <1>w, <1>0 DEF VerifyCommit, WorkInv, Committing
  <2>2. PICK f \in {First(todo[e])} :
           \/ Raise(e) \/ Enter(e, "postverify", committed[e])
           \/ Enter(e, "commit", todo[e] \ {f})
    BY <1>9 DEF VerifyCommit
  <2>3. \/ pc'[e] = "discard" \/ (pc'[e] = "postverify" /\ todo'[e] = committed[e])
        \/ pc'[e] = "commit" /\ todo'[e] = todo[e] \ {f}
    BY <2>2, <1>e, <1>d
  <2>4. Items(todo[e] \ {f}) = Items(todo[e]) - 1 /\ Items(todo[e]) \in 1..2
    BY <2>1, <1>f
  <2>5. CASE pc'[e] = "discard"
    BY <2>1, <2>4, <2>5 DEF StepsLeft
  <2>6. CASE pc'[e] = "postverify" /\ todo'[e] = committed[e]
    BY <2>1, <2>4, <2>6, <1>i DEF StepsLeft
  <2>7. CASE pc'[e] = "commit" /\ todo'[e] = todo[e] \ {f}
    BY <2>1, <2>4, <2>7 DEF StepsLeft
  <2> QED BY <2>3, <2>5, <2>6, <2>7
<1>10. CASE PostVerify(e)
  <2>1. pc[e] = "postverify" /\ todo[e] \subseteq Files /\ todo[e] # {}
    BY <1>10, <1>w, <1>0 DEF PostVerify, WorkInv, Committing
  <2>2. PICK f \in {First(todo[e])} :
           (\E s : Finish(e, s)) \/ Enter(e, "postverify", todo[e] \ {f})
    BY <1>10 DEF PostVerify
  <2>3. pc'[e] = "receipt" \/ (pc'[e] = "postverify" /\ todo'[e] = todo[e] \ {f})
    BY <2>2, <1>e, <1>s
  <2>4. Items(todo[e] \ {f}) = Items(todo[e]) - 1 /\ Items(todo[e]) \in 1..2
    BY <2>1, <1>f
  <2> QED BY <2>1, <2>3, <2>4 DEF StepsLeft
<1>11. CASE Discard(e)
  <2>1. /\ pc[e] = "discard"
        /\ \/ pc'[e] = "compensate" /\ todo'[e] = committed[e]
           \/ pc'[e] = "rmdir" /\ todo'[e] = created[e]
           \/ pc'[e] = "receipt"
    BY <1>11, <1>e, <1>s DEF Discard
  <2> QED BY <2>1, <1>i DEF StepsLeft
<1>n. ASSUME NextCompensation(e, Last(todo[e])), pc[e] \in {"compensate", "recheck", "unlink"}
      PROVE  StepsLeft(e)' < StepsLeft(e)
  <2> DEFINE f == Last(todo[e])
  <2>1. /\ todo[e] \subseteq Files /\ todo[e] # {}
    BY <1>n, <1>w, <1>0 DEF WorkInv
  <2>2. Items(todo[e] \ {f}) = Items(todo[e]) - 1 /\ Items(todo[e]) \in 1..2
    BY <2>1, <1>f
  <2>3. \/ pc'[e] = "rmdir" /\ todo'[e] = created[e]
        \/ pc'[e] = "compensate" /\ todo'[e] = todo[e] \ {f}
    BY <1>n, <1>e DEF NextCompensation
  <2>4. CASE pc'[e] = "rmdir" /\ todo'[e] = created[e]
    BY <1>n, <2>2, <2>4, <1>i DEF StepsLeft
  <2>5. CASE pc'[e] = "compensate" /\ todo'[e] = todo[e] \ {f}
    BY <1>n, <2>2, <2>5 DEF StepsLeft
  <2> QED BY <2>3, <2>4, <2>5
<1>12. CASE Restore(e)
  <2>1. pc[e] = "compensate" /\ (NextCompensation(e, Last(todo[e])) \/ Enter(e, "recheck", todo[e]))
    BY <1>12 DEF Restore
  <2>2. CASE Enter(e, "recheck", todo[e])
    BY <2>1, <2>2, <1>e, <1>i DEF StepsLeft
  <2> QED BY <2>1, <2>2, <1>n
<1>13. CASE RecheckRestored(e) \/ UnlinkCreated(e)
  BY <1>13, <1>n DEF RecheckRestored, UnlinkCreated
<1>14. CASE CheckCreated(e)
  <2>1. pc[e] = "compensate" /\ (NextCompensation(e, Last(todo[e])) \/ Enter(e, "unlink", todo[e]))
    BY <1>14 DEF CheckCreated
  <2>2. CASE Enter(e, "unlink", todo[e])
    BY <2>1, <2>2, <1>e, <1>i DEF StepsLeft
  <2> QED BY <2>1, <2>2, <1>n
<1>15. CASE RemoveDirectory(e)
  <2>1. pc[e] = "rmdir" /\ todo[e] \subseteq Chains /\ todo[e] # {}
    BY <1>15, <1>w, <1>0 DEF RemoveDirectory, WorkInv
  <2>2. PICK d \in {LastDir(todo[e])} : Enter(e, "rmdir", todo[e] \ {d}) \/ Enter(e, "raised", {})
    BY <1>15 DEF RemoveDirectory
  <2>3. pc'[e] = "raised" \/ (pc'[e] = "rmdir" /\ todo'[e] = todo[e] \ {d})
    BY <2>2, <1>e
  <2>4. Items(todo[e] \ {d}) = Items(todo[e]) - 1 /\ Items(todo[e]) \in 1..2
    BY <2>1, <1>c
  <2> QED BY <2>1, <2>3, <2>4 DEF StepsLeft
<1>16. CASE Conclude(e)
  <2>1. pc[e] = "rmdir" /\ pc'[e] = "receipt"
    BY <1>16, <1>s DEF Conclude
  <2> QED BY <2>1, <1>i DEF StepsLeft
<1>17. CASE WriteReceipt(e)
  <2>1. pc[e] = "receipt" /\ pc'[e] \in {"done", "raised"}
    BY <1>17, <1>e DEF WriteReceipt
  <2> QED BY <2>1 DEF StepsLeft
<1> QED
  BY <1>1, <1>2, <1>3, <1>4, <1>5, <1>6, <1>7, <1>8, <1>9, <1>10, <1>11, <1>12, <1>13, <1>14, <1>15,
     <1>16, <1>17 DEF Step

\* No step of anybody else gives an executor more to do, and a kill ends it.
LEMMA StepsLeftFrame ==
    ASSUME NEW x, UNCHANGED <<pc[x], todo[x], op[x], bak[x]>>
    PROVE  StepsLeft(x)' = StepsLeft(x)
BY DEF StepsLeft, Unsaved

LEMMA CrashEnds ==
    ASSUME IInv, NEW e \in Executors, Crash(e), NEW x \in Executors, Runs
    PROVE  StepsLeft(x)' <= StepsLeft(x)
<1>1. /\ pc' = [pc EXCEPT ![e] = "crashed"] /\ todo' = [todo EXCEPT ![e] = {}] /\ UNCHANGED <<op, bak>>
      /\ pc \in [Executors -> Phases] /\ StepsLeft(x) \in 0..25
  BY StepsBounded DEF Crash, Enter, memory, IInv, TypeOK, ControlTypeOK, Runs
<1>2. CASE x = e
  <2>1. pc'[x] = "crashed"
    BY <1>1, <1>2
  <2>2. StepsLeft(x)' = 0
    BY <2>1 DEF StepsLeft
  <2> QED BY <1>1, <2>2
<1>3. CASE x # e
  <2>1. UNCHANGED <<pc[x], todo[x], op[x], bak[x]>>
    BY <1>1, <1>3
  <2> QED BY <1>1, <2>1, StepsLeftFrame
<1> QED BY <1>2, <1>3

\* An executor takes at most 25 steps, however many run and whatever fails or
\* interferes: no loop over files or directories ever starts again, so a failure
\* is compensated once and never retried.  (The safety half of Termination.)
THEOREM StepsRunDown ==
    Spec => /\ [](\A e \in Executors : StepsLeft(e) \in 0..25)
            /\ [][\A e \in Executors : /\ StepsLeft(e)' <= StepsLeft(e)
                                       /\ Step(e) => StepsLeft(e)' < StepsLeft(e)]_vars
<1> DEFINE Bounded == \A e \in Executors : StepsLeft(e) \in 0..25
           Down == \A e \in Executors : /\ StepsLeft(e)' <= StepsLeft(e)
                                        /\ Step(e) => StepsLeft(e)' < StepsLeft(e)
<1>1. IInv /\ Runs => Bounded
  BY StepsBounded DEF Runs
<1>2. IInv /\ Runs /\ [Next]_vars => [Down]_vars
  <2> SUFFICES ASSUME IInv, Runs, Next, NEW x \in Executors
               PROVE  StepsLeft(x)' <= StepsLeft(x) /\ (Step(x) => StepsLeft(x)' < StepsLeft(x))
    OBVIOUS
  <2>1. StepsLeft(x) \in 0..25 /\ RunInv(x) /\ TypeOK
    BY StepsBounded DEF Runs, IInv
  <2>2. Step(x) => StepsLeft(x)' < StepsLeft(x)
    BY <2>1, StepRunsDown
  <2>3. StepsLeft(x)' <= StepsLeft(x)
    <3>1. ASSUME NEW e \in Executors, Step(e) PROVE StepsLeft(x)' <= StepsLeft(x)
      <4>1. CASE x = e
        <5>1. StepsLeft(x)' < StepsLeft(x)
          BY <3>1, <4>1, <2>2
        <5>2. StepsLeft(x)' \in Nat
          BY ItemsCount DEF StepsLeft
        <5> QED BY <5>1, <5>2, <2>1
      <4>2. CASE x # e
        <5>1. UNCHANGED <<pc[x], todo[x], op[x], bak[x]>>
          BY <3>1, <4>2, <2>1, StepLeavesOthers DEF Memory, Place
        <5> QED BY <5>1, <2>1, StepsLeftFrame
      <4> QED BY <4>1, <4>2
    <3>2. ASSUME NEW e \in Executors, Crash(e) PROVE StepsLeft(x)' <= StepsLeft(x)
      BY <3>2, CrashEnds
    <3>3. CASE UNCHANGED <<pc, todo, op, bak>>
      BY <3>3, <2>1, StepsLeftFrame
    <3> QED BY <3>1, <3>2, <3>3 DEF Next, Rest, vars, fs, control, memory, ForeignFile,
               ForeignMakeDirectory, ForeignRemoveDirectory, Interfere
  <2> QED BY <2>2, <2>3
<1> QED BY <1>1, <1>2, RunsCorrect, PTL DEF Spec

\* And it always has a way on: whatever the disk holds, in no phase is an executor
\* that is not at its end left without a step that needs no fault.  A file to be
\* prepared or committed is one of the plan's, and a commit that is compensated
\* still has the backup that was verified.
THEOREM AlwaysAWay == Spec => []NeverStuck
<1>1. IInv /\ Runs => NeverStuck
  <2> SUFFICES ASSUME IInv, Runs, NEW e \in Executors, pc[e] \notin Stopped PROVE MayStep(e)
    BY DEF NeverStuck
  <2>1. /\ pc[e] \in Phases /\ op[e] \in [Files -> Operations] /\ committed[e] \subseteq Mutates(e)
        /\ \A f \in committed[e] : op[e][f] = "replace_required" => VerifiedBackup(e, f)
        /\ WorkInv(e) /\ Mutates(e) \subseteq Files
    BY DEF IInv, TypeOK, ControlTypeOK, MemoryTypeOK, Runs, RunInv, DoneInv, Mutates
  <2>2. CASE pc[e] = "gate"
    <3>1. \A f \in Files : op[e][f] \in {"blocked", "no_change"} \/ f \in Mutates(e)
      BY <2>1 DEF Operations, Mutates
    <3> QED BY <2>2, <3>1 DEF MayStep
  <2>3. CASE pc[e] \in {"prepare", "commit"}
    <3>1. First(todo[e]) \in Mutates(e)
      BY <2>1, <2>3, OrderPicks DEF WorkInv, Committing
    <3> QED BY <2>3, <3>1 DEF MayStep, Mutates
  <2>4. CASE pc[e] = "compensate"
    <3>1. Last(todo[e]) \in committed[e]
      BY <2>1, <2>4, OrderPicks DEF WorkInv
    <3>2. op[e][Last(todo[e])] \in {"create_required", "replace_required"}
      BY <2>1, <3>1 DEF Mutates
    <3>3. op[e][Last(todo[e])] = "replace_required" => bak[e][Last(todo[e])] = bakSha[e][Last(todo[e])]
      BY <2>1, <3>1 DEF VerifiedBackup
    <3> QED BY <2>4, <3>2, <3>3 DEF MayStep
  <2>5. CASE pc[e] = "mkdir"
    BY <2>1, <2>5 DEF MayStep, WorkInv
  <2>6. CASE pc[e] \notin {"gate", "prepare", "commit", "compensate", "mkdir"}
    BY <2>1, <2>6 DEF MayStep, Phases, Stopped
  <2> QED BY <2>2, <2>3, <2>4, <2>5, <2>6
<1> QED BY <1>1, RunsCorrect, PTL
===============================================================================
