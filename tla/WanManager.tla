----------------------------- MODULE WanManager -----------------------------
(***************************************************************************)
(* The WAN manager as far as the scripts of this layer meet it: the name   *)
(* it publishes in sysevent before it goes on to start the WAN.            *)
(***************************************************************************)
EXTENDS Naturals

CONSTANTS
    Ifnames,        \* well-formed interface names
    MaxLosses,      \* bound: power losses
    MaxFaults       \* bound: commands that fail

Empty   == ""           \* no value; also a file without the record
Invalid == "?"          \* a text that is no interface name
NoFile  == "no file"
NoName  == "no name"    \* the WAN manager is not bringing a link up

ASSUME NamesAssumption == Ifnames \cap {Empty, Invalid, NoFile, NoName} = {}

ASSUME BoundAssumption == MaxLosses \in Nat /\ MaxFaults \in Nat

Texts == Ifnames \cup {Empty, Invalid}

VARIABLES
    current,        \* sysevent current_wan_ifname
    wanName,        \* the interface that is being brought up
    losses, faults

wanVars == <<current, wanName, losses, faults>>

wanInit ==
    /\ current = Empty /\ wanName = NoName
    /\ losses = 0 /\ faults = 0

wanType ==
    /\ current \in Texts /\ wanName \in Texts \cup {NoName}
    /\ losses \in 0 .. MaxLosses /\ faults \in 0 .. MaxFaults

\* A command fails, as often as the bound allows.
Fault == faults < MaxFaults /\ faults' = faults + 1

\* wan_setUpIPv4 and wan_setUpIPv6: the interface is published first, be it
\* without a name; nobody looks at the result of sysevent_set.
SetCurrent ==
    /\ wanName = NoName
    /\ wanName' \in Texts
    /\ \/ current' = wanName' /\ UNCHANGED faults
       \/ UNCHANGED current /\ Fault
    /\ UNCHANGED losses

\* What follows for that interface ends with touch /var/run/wan_started.
GoOn ==
    /\ wanName # NoName
    /\ wanName' = NoName
    /\ UNCHANGED <<current, losses>>

\* The link is lost.
Withdraw ==
    /\ wanName = NoName
    /\ current' = Empty
    /\ UNCHANGED <<wanName, losses, faults>>

\* Power is lost and the device boots again: sysevent is empty.
Reboot ==
    /\ losses < MaxLosses
    /\ losses' = losses + 1
    /\ current' = Empty /\ wanName' = NoName
    /\ UNCHANGED faults
=============================================================================
