---------------------------- MODULE NoReplaceStore ----------------------------
(***************************************************************************)
(* What the publication of reviewed-change artifacts promises its callers, *)
(* without its files: a store of artifacts, each under its own identity,   *)
(* written at most once and as a whole.  An entry is never replaced,       *)
(* repaired or removed; only a power loss may take one that was not        *)
(* flushed.  Every answer is true of the store.                            *)
(***************************************************************************)
CONSTANTS Publishers, Bundles

VARIABLES
    target,   \* the artifact each publisher was given
    store,    \* what the store holds under each artifact's identity
    durable,  \* the entries a power loss cannot take
    put,      \* publishers whose current invocation published its artifact
    answer    \* what each publisher returned

vars == <<target, store, durable, put, answer>>

Init ==
    /\ target \in [Publishers -> Bundles]
    /\ store \in [Bundles -> {"missing", "whole", "other"}]
    /\ durable = {b \in Bundles : store[b] # "missing"}
    /\ put = {}
    /\ answer = [p \in Publishers |-> "none"]

Waiting(p) == answer[p] = "none"

\* The artifact becomes visible: at once, whole, and where nothing was before.
Put(p) ==
    /\ Waiting(p) /\ p \notin put
    /\ store[target[p]] = "missing"
    /\ store' = [store EXCEPT ![target[p]] = "whole"]
    /\ put' = put \cup {p}
    /\ UNCHANGED <<target, durable, answer>>

\* Entries reach the disk.
Sync ==
    /\ durable' \in SUBSET {b \in Bundles : store[b] # "missing"}
    /\ durable \subseteq durable'
    /\ UNCHANGED <<target, store, put, answer>>

\* An answer of success is given only for an artifact that is there, a refusal only
\* by who did not put it there.
Answer(p) ==
    /\ Waiting(p)
    /\ \E a \in {"published", "present", "refused", "unknown"} :
          /\ a = "published" => p \in put
          /\ a \in {"present", "refused"} => p \notin put
          /\ a \in {"published", "present"} => store[target[p]] = "whole"
          /\ answer' = [answer EXCEPT ![p] = a]
    /\ UNCHANGED <<target, store, durable, put>>

\* A publisher that dies starts over.
Die(p) ==
    /\ Waiting(p)
    /\ put' = put \ {p}
    /\ UNCHANGED <<target, store, durable, answer>>

\* A power loss ends everyone's invocation and may take or damage what was not
\* flushed; what is there afterwards is on disk.
PowerLoss ==
    /\ store' \in [Bundles -> {"missing", "whole", "other"}]
    /\ \A b \in Bundles :
          /\ b \in durable \/ store[b] = "missing" => store'[b] = store[b]
          /\ store'[b] = "whole" => store[b] = "whole"
    /\ durable' = {b \in Bundles : store'[b] # "missing"}
    /\ put' = {p \in put : ~Waiting(p)}
    /\ UNCHANGED <<target, answer>>

Next ==
    \/ \E p \in Publishers : Put(p) \/ Answer(p) \/ Die(p)
    \/ Sync
    \/ PowerLoss

Spec == Init /\ [][Next]_vars
=============================================================================
