----------------------------- MODULE BridgeSync -----------------------------
(***************************************************************************)
(* Who is a member of the LAN bridge brlan0.  utopia_init.sh creates the   *)
(* bridge and adds the members that PSM lists; the Ethernet agent writes   *)
(* the list (dmsb.l2net.1.Members.Eth) and then sends multinet-syncMembers,*)
(* whose handler, vlan_util_genericarm.sh, runs as a process of its own    *)
(* for each event.  Utopia, PSM, the agent and the handlers run            *)
(* concurrently.                                                           *)
(***************************************************************************)
EXTENDS Naturals

CONSTANTS
    Wired,          \* Ethernet interfaces, which PSM may list
    Wlan,           \* interfaces with DEVTYPE=wlan, managed by OneWifi
    PartOf,         \* <<a, b>>: the name a occurs within the name b
    Handlers,       \* processes that can run the event handler at once
    MaxWrites       \* bound: writes of the list by the agent

Intf == Wired \cup Wlan

ASSUME NameAssumption ==
    /\ Wired \cap Wlan = {}
    /\ PartOf \subseteq Intf \X Intf
    /\ \A i \in Intf : <<i, i>> \in PartOf

ASSUME WriteAssumption == MaxWrites \in Nat

VARIABLES
    exists,         \* interfaces with a directory in /sys/class/net
    bridge,         \* brlan0 exists
    members,        \* members of brlan0
    psmUp,          \* PSM answers psmcli
    psm,            \* the list in PSM
    registered,     \* the event has a handler
    initPc,         \* utopia_init.sh: addbr, read, add, done
    initTodo,       \* members utopia_init.sh still has to add
    agentPc,        \* the Ethernet agent: idle or send
    pending,        \* events not yet given to a handler process
    hPc, hPsm, hCur,\* handlers: position, members listed, members to visit
    writes,
    notified        \* history: the last change was followed by an event

netVars  == <<exists, bridge, members>>
psmVars  == <<psmUp, psm>>
initVars == <<initPc, initTodo>>
agentVars == <<agentPc, writes, notified>>
hVars    == <<hPc, hPsm, hCur>>
vars == <<netVars, psmVars, registered, initVars, agentVars, pending, hVars>>

TypeOK ==
    /\ exists \in SUBSET Intf
    /\ bridge \in BOOLEAN
    /\ members \in SUBSET exists
    /\ psmUp \in BOOLEAN
    /\ psm \in SUBSET Wired
    /\ registered \in BOOLEAN
    /\ initPc \in {"addbr", "read", "add", "done"}
    /\ initTodo \in SUBSET Wired
    /\ agentPc \in {"idle", "send"}
    /\ pending \in 0 .. MaxWrites
    /\ hPc \in [Handlers -> {"idle", "current", "remove", "add"}]
    /\ hPsm \in [Handlers -> SUBSET Wired]
    /\ hCur \in [Handlers -> SUBSET Intf]
    /\ writes \in 0 .. MaxWrites
    /\ notified \in BOOLEAN

Init ==
    /\ exists \in SUBSET Intf
    /\ bridge = FALSE
    /\ members = {}
    /\ psmUp = FALSE
    /\ psm \in SUBSET Wired
    /\ registered = FALSE
    /\ initPc = "addbr"
    /\ initTodo = {}
    /\ agentPc = "idle"
    /\ pending = 0
    /\ hPc = [h \in Handlers |-> "idle"]
    /\ hPsm = [h \in Handlers |-> {}]
    /\ hCur = [h \in Handlers |-> {}]
    /\ writes = 0
    /\ notified = FALSE

-----------------------------------------------------------------------------
(* Helpers *)

\* What `psmcli get dmsb.l2net.1.Members.Eth` prints.
PsmGet == IF psmUp THEN psm ELSE {}

\* brctl addif brlan0 i: fails without the bridge or the interface.
Addif(i) == members' = IF bridge /\ i \in exists THEN members \cup {i}
                       ELSE members

\* echo "${PSM_BRIDGE_MEMBERS}" | grep -q "${intf}": any part of the text.
Listed(i, list) == \E j \in list : <<i, j>> \in PartOf

-----------------------------------------------------------------------------
(* The kernel, PSM and OneWifi (external) *)

Plug(i) ==
    /\ i \notin exists
    /\ exists' = exists \cup {i}
    /\ notified' = FALSE
    /\ UNCHANGED <<bridge, members, psmVars, registered, initVars, agentPc,
                   writes, pending, hVars>>

\* An interface that goes away leaves the bridge.
Unplug(i) ==
    /\ i \in exists
    /\ exists' = exists \ {i}
    /\ members' = members \ {i}
    /\ UNCHANGED <<bridge, psmVars, registered, initVars, agentVars, pending,
                   hVars>>

PsmStart ==
    /\ ~psmUp
    /\ psmUp' = TRUE
    /\ UNCHANGED <<netVars, psm, registered, initVars, agentVars, pending,
                   hVars>>

OneWifiAdds(i) ==
    /\ i \in Wlan
    /\ Addif(i)
    /\ UNCHANGED <<exists, bridge, psmVars, registered, initVars, agentVars,
                   pending, hVars>>

-----------------------------------------------------------------------------
(* utopia_init.sh *)

\* execute_dir runs in the background and registers the event handler.
Register ==
    /\ ~registered
    /\ registered' = TRUE
    /\ UNCHANGED <<netVars, psmVars, initVars, agentVars, pending, hVars>>

InitAddbr ==
    /\ initPc = "addbr"
    /\ bridge' = TRUE
    /\ initPc' = "read"
    /\ UNCHANGED <<exists, members, psmVars, registered, initTodo, agentVars,
                   pending, hVars>>

\* Bug variant: the list is left to the event handlers.
InitReadSkips ==
    /\ initPc = "read"
    /\ initPc' = "done"
    /\ UNCHANGED <<netVars, psmVars, registered, initTodo, agentVars, pending,
                   hVars>>

InitRead ==
    /\ initPc = "read"
    /\ initTodo' = PsmGet
    /\ initPc' = "add"
    /\ UNCHANGED <<netVars, psmVars, registered, agentVars, pending, hVars>>

InitAdd(i) ==
    /\ initPc = "add"
    /\ i \in initTodo
    /\ initTodo' = initTodo \ {i}
    /\ Addif(i)
    /\ UNCHANGED <<exists, bridge, psmVars, registered, initPc, agentVars,
                   pending, hVars>>

InitDone ==
    /\ initPc = "add"
    /\ initTodo = {}
    /\ initPc' = "done"
    /\ UNCHANGED <<netVars, psmVars, registered, initTodo, agentVars, pending,
                   hVars>>

-----------------------------------------------------------------------------
(* The Ethernet agent (external): writes the list, then sends the event *)

AgentWrite(list) ==
    /\ psmUp
    /\ agentPc = "idle"
    /\ writes < MaxWrites
    /\ writes' = writes + 1
    /\ psm' = list
    /\ notified' = FALSE
    /\ agentPc' = "send"
    /\ UNCHANGED <<netVars, psmUp, registered, initVars, pending, hVars>>

\* An event without a registered handler is lost.
AgentSend ==
    /\ agentPc = "send"
    /\ agentPc' = "idle"
    /\ notified' = registered
    /\ pending' = IF registered THEN pending + 1 ELSE pending
    /\ UNCHANGED <<netVars, psmVars, registered, initVars, writes, hVars>>

-----------------------------------------------------------------------------
(* vlan_util_genericarm.sh multinet-syncMembers 1 *)

hFrame == <<exists, bridge, psmVars, registered, initVars, agentVars>>

\* A new process for the event; its first command reads the list.
SyncStart(h) ==
    /\ pending > 0
    /\ hPc[h] = "idle"
    /\ pending' = pending - 1
    /\ hPsm' = [hPsm EXCEPT ![h] = PsmGet]
    /\ hPc' = [hPc EXCEPT ![h] = "current"]
    /\ UNCHANGED <<members, hCur, hFrame>>

\* Bug variant: it first waits until no other handler runs.
SyncCurrentAlone(h) ==
    /\ hPc[h] = "current"
    /\ \A g \in Handlers \ {h} : hPc[g] = "idle"
    /\ hCur' = [hCur EXCEPT ![h] = members]
    /\ hPc' = [hPc EXCEPT ![h] = "remove"]
    /\ UNCHANGED <<members, pending, hPsm, hFrame>>

\* CURRENT_MEMBERS from /sys/class/net/brlan0/lower_*.
SyncCurrent(h) ==
    /\ hPc[h] = "current"
    /\ hCur' = [hCur EXCEPT ![h] = members]
    /\ hPc' = [hPc EXCEPT ![h] = "remove"]
    /\ UNCHANGED <<members, pending, hPsm, hFrame>>

\* What `brctl delif brlan0 "${x}"` removes for the loop variable intf: x is
\* not set before the second loop, so the command names no interface.
DelifTarget(intf) == {}

\* One iteration of the first loop.
SyncRemove(h, i) ==
    /\ hPc[h] = "remove"
    /\ i \in hCur[h]
    /\ hCur' = [hCur EXCEPT ![h] = @ \ {i}]
    /\ members' = IF i \in Wlan \/ Listed(i, hPsm[h]) THEN members
                  ELSE members \ DelifTarget(i)
    /\ UNCHANGED <<pending, hPc, hPsm, hFrame>>

SyncRemoved(h) ==
    /\ hPc[h] = "remove"
    /\ hCur[h] = {}
    /\ hPc' = [hPc EXCEPT ![h] = "add"]
    /\ UNCHANGED <<members, pending, hPsm, hCur, hFrame>>

\* One iteration of the second loop: missing interfaces are ignored.
SyncAdd(h, i) ==
    /\ hPc[h] = "add"
    /\ i \in hPsm[h]
    /\ hPsm' = [hPsm EXCEPT ![h] = @ \ {i}]
    /\ Addif(i)
    /\ UNCHANGED <<pending, hPc, hCur, hFrame>>

SyncEnd(h) ==
    /\ hPc[h] = "add"
    /\ hPsm[h] = {}
    /\ hPc' = [hPc EXCEPT ![h] = "idle"]
    /\ UNCHANGED <<members, pending, hPsm, hCur, hFrame>>

Sync(h) ==
    \/ SyncStart(h) \/ SyncCurrent(h) \/ SyncRemoved(h) \/ SyncEnd(h)
    \/ \E i \in Intf : SyncRemove(h, i) \/ SyncAdd(h, i)

-----------------------------------------------------------------------------
UtopiaInit == InitAddbr \/ InitRead \/ (\E i \in Wired : InitAdd(i)) \/ InitDone

Next ==
    \/ \E i \in Intf : Plug(i) \/ Unplug(i) \/ OneWifiAdds(i)
    \/ PsmStart
    \/ Register
    \/ UtopiaInit
    \/ (\E list \in SUBSET Wired : AgentWrite(list)) \/ AgentSend
    \/ \E h \in Handlers : Sync(h)

Spec == Init /\ [][Next]_vars

\* Utopia's script and the handlers that have work to do run on, and the agent
\* sends the event after its write.
FairSpec ==
    /\ Spec
    /\ WF_vars(UtopiaInit) /\ WF_vars(AgentSend)
    /\ \A h \in Handlers : WF_vars(Sync(h))

-----------------------------------------------------------------------------
(* Properties *)

\* Nothing is under way: Utopia's set-up is done, no event waits or runs.
Quiet ==
    /\ initPc = "done"
    /\ agentPc = "idle"
    /\ pending = 0
    /\ \A h \in Handlers : hPc[h] = "idle"

\* After a change of the list whose event was not lost, everything listed
\* that exists ends up in the bridge, in whatever order Utopia's set-up, the
\* start of PSM and overlapping handlers ran; also if the event was handled
\* before there was a bridge.
ListedAreMembers == Quiet /\ notified => psm \cap exists \subseteq members

\* Everything listed that exists is in the bridge in the end, and stays there,
\* if the last change was followed by an event that was not lost: no handler
\* waits for Utopia, PSM or another handler for ever, and no late one undoes
\* what an earlier one did.
ListedJoinInTheEnd == <>[]notified => <>[](psm \cap exists \subseteq members)

\* The handler removes from the bridge what it logs as to be removed
\* ("Interface ${intf} needs to be removed from brlan0").  The code names the
\* wrong variable in the command, and the interface stays.
RemovedAsLogged ==
    [][\A h \in Handlers, i \in Wired :
          SyncRemove(h, i) /\ ~Listed(i, hPsm[h]) => i \notin members']_vars
=============================================================================
