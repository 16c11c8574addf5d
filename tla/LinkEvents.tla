----------------------------- MODULE LinkEvents -----------------------------
(***************************************************************************)
(* What the Ethernet switch HAL promises the Ethernet agent about link     *)
(* events, with nothing of how it keeps the promise.                       *)
(*                                                                         *)
(* An interface is absent, "Down" or "Up".  The agent is told "Up" or      *)
(* "Down", never twice the same in a row, and only ever something that was *)
(* true at some moment since it was last told about that interface: a      *)
(* report may be late, never stale.  When the agent's process restarts it  *)
(* forgets what it was told.                                               *)
(***************************************************************************)
CONSTANT Intf                  \* the interfaces the HAL watches

VARIABLES link,                \* link[i]: the state of interface i now
          told,                \* told[i]: what the agent was last told of i
          seen                 \* seen[i]: the states i has had since then

vars == <<link, told, seen>>

Reportable == {"Up", "Down"}
LinkValue  == Reportable \cup {"absent"}

\* The part of a link state that can be reported at all.
Visible(v) == {v} \cap Reportable

Init ==
    /\ link \in [Intf -> LinkValue]
    /\ told = [i \in Intf |-> "none"]
    /\ seen = [i \in Intf |-> Visible(link[i])]

\* The link of interface i changes.
Change(i, v) ==
    /\ link' = [link EXCEPT ![i] = v]
    /\ seen' = [seen EXCEPT ![i] = @ \cup Visible(v)]
    /\ UNCHANGED told

\* The agent is told v about interface i.
Report(i, v) ==
    /\ v \in seen[i]
    /\ v # told[i]
    /\ told' = [told EXCEPT ![i] = v]
    /\ seen' = [seen EXCEPT ![i] = Visible(link[i])]
    /\ UNCHANGED link

\* The agent's process restarts.
Restart ==
    /\ told' = [i \in Intf |-> "none"]
    /\ seen' = [i \in Intf |-> Visible(link[i])]
    /\ UNCHANGED link

Next ==
    \/ \E i \in Intf, v \in LinkValue : Change(i, v)
    \/ \E i \in Intf, v \in Reportable : Report(i, v)
    \/ Restart

Spec == Init /\ [][Next]_vars
=============================================================================
