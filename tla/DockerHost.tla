------------------------------- MODULE DockerHost -----------------------------
(***************************************************************************)
(* The Docker host as ShellForgeAI's restart lanes meet it: one container  *)
(* under the exact target name, and one "docker restart" request per       *)
(* caller.  External: modelled from how src/ calls "docker inspect" and    *)
(* "docker restart" and what it makes of their answers.                    *)
(*                                                                         *)
(* The daemon serves a request in its own time, whether or not the caller  *)
(* still waits.  Labels only change when the container is made anew, which *)
(* starts it; starts are numbered, so "started" is State.StartedAt.        *)
(***************************************************************************)
EXTENDS Naturals

CONSTANTS
    Callers,    \* invocations that may ask for a restart
    LabelSets,  \* what a container's labels can say; "none" says nothing
    MaxStarts   \* bound: starts of a container under the target name

ASSUME LabelsAssumption == "none" \in LabelSets
ASSUME StartsAssumption == MaxStarts \in Nat \ {0}

VARIABLES
    container,  \* what an exact inspection would show
    starts,     \* starts so far
    request,    \* per caller: "none", "held", "done" or "failed"
    served      \* history, per caller: the start its request brought about

host == <<container, starts, request, served>>

\* What an inspection shows; "dated" if it shows the start time.
Shown(labels, started) ==
    [found |-> TRUE, labels |-> labels, started |-> started, dated |-> TRUE]
Absent     == [found |-> FALSE, labels |-> "none", started |-> 0, dated |-> FALSE]
Containers == {Absent} \cup {Shown(l, s) : l \in LabelSets, s \in 1..MaxStarts}
Sights     == Containers \cup {[c EXCEPT !.dated = FALSE] : c \in Containers}

HostTypeOK ==
    /\ container \in Containers
    /\ starts \in 0..MaxStarts
    /\ request \in [Callers -> {"none", "held", "done", "failed"}]
    /\ served \in [Callers -> 0..MaxStarts]

HostInit ==
    /\ container \in {Shown(l, 1) : l \in LabelSets}
    /\ starts = 1
    /\ request = [i \in Callers |-> "none"]
    /\ served = [i \in Callers |-> 0]

\* A caller's request reaches the daemon.
AskRestart(i) ==
    /\ request' = [request EXCEPT ![i] = "held"]
    /\ UNCHANGED <<container, starts, served>>

DaemonRestarts(i) ==
    /\ request[i] = "held"
    /\ container.found
    /\ starts < MaxStarts
    /\ starts' = starts + 1
    /\ container' = [container EXCEPT !.started = starts + 1]
    /\ request' = [request EXCEPT ![i] = "done"]
    /\ served' = [served EXCEPT ![i] = starts + 1]

DaemonRefuses(i) ==
    /\ request[i] = "held"
    /\ request' = [request EXCEPT ![i] = "failed"]
    /\ UNCHANGED <<container, starts, served>>

\* Somebody else makes the container anew, with any labels, or starts it again.
SomeoneStarts ==
    /\ starts < MaxStarts
    /\ starts' = starts + 1
    /\ container' \in {Shown(l, starts + 1) : l \in LabelSets}
    /\ UNCHANGED <<request, served>>

SomeoneRemoves ==
    /\ container.found
    /\ container' = Absent
    /\ UNCHANGED <<starts, request, served>>

HostStep ==
    \/ \E i \in Callers : DaemonRestarts(i) \/ DaemonRefuses(i)
    \/ SomeoneStarts
    \/ SomeoneRemoves
=============================================================================
