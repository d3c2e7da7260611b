-------------------------- MODULE MCRuntimeReconcile --------------------------
(* Finite instances of RuntimeReconcile.                                     *)
EXTENDS RuntimeReconcile, TLC

CONSTANTS e1, e2, src, old, third

MCSource == [f \in Files |-> src]

\* A plan that changes both files, found as it left them.  The profile is
\* created with its parent chain or replaced, the wrapper created or replaced.
FreshInit ==
    /\ Init
    /\ pc = [e \in Executors |-> "start"]
    /\ \A f \in Files : staged[f] /\ planned[f] \notin {src, third}
    /\ dest = planned
    /\ dirs = plannedDirs
    /\ "config" \in dirs <=> "profiles" \in dirs

FreshSpec == FreshInit /\ [][Next]_vars

\* One executor over every saved plan and every disk, beside another program ...
Single == Init /\ pc[e1] = "start" /\ pc[e2] = "crashed"

\* ... or two executors at once on a fresh plan.  Other programs act only where
\* the second executor never did.
MCInit == Single \/ FreshInit
MCNext ==
    /\ Next
    /\ foreign' # foreign => pc[e2] = "crashed" /\ touched[e2] = {}
MCSpec == MCInit /\ [][MCNext]_vars /\ \A e \in Executors : WF_vars(Step(e))
=============================================================================
