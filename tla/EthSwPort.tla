----------------------------- MODULE EthSwPort ------------------------------
(***************************************************************************)
(* The port API of the Ethernet switch HAL (ccsp_hal_ethsw.c): four ports, *)
(* all of them standing for the one interface eth1, which is on the port   *)
(* that its sysfs path names.  The HAL keeps admin_status, a copy of what  *)
(* it last set, and consults the kernel only for the path.                 *)
(*                                                                         *)
(* Setting and getting the admin status take one step per access to the    *)
(* kernel or to admin_status; the other functions read and return in one   *)
(* step, at any time, since no lock keeps their callers apart.  One thread *)
(* at a time sets, and one gets.  Null arguments are rejected like an      *)
(* unsupported port.                                                       *)
(***************************************************************************)
EXTENDS Naturals, Sequences

CONSTANTS
    Paths,          \* where eth1 may be: [bus, chain] of a USB device, or
                    \* an empty chain for a device that is not on USB
    MaxPipes        \* bound: pipes the process can have open

Ports     == 1 .. 4
AnyPort   == 0 .. 5
Status    == {"Up", "Down", "Test"}
AnyStatus == Status \cup {"invalid"}

ASSUME PathAssumption ==
    Paths \subseteq [bus : Nat, chain : Seq(Nat \ {0})]

ASSUME PipeAssumption == MaxPipes \in Nat

VARIABLES
    present,        \* /sys/class/net/eth1 exists
    path,           \* its device path
    up,             \* its administrative flag in the kernel
    carrier,
    admin_status,   \* the HAL's global: FALSE is 0, up
    pipes,          \* pipes that popen has left open
    pc,             \* where CcspHalEthSwSetPortAdminStatus is
    req,            \* its arguments
    asked, here,    \* CcspHalEthSwGetPortAdminStatus: the port it was asked
                    \* for, 0 when it does not run, and whether eth1 was there
    ret, out,       \* the last return value and output
    settled,        \* history: the last attempt to set the flag was made on
                    \* this eth1, and left it as it should be
    moved           \* history: eth1 has gone or come since its path was read

devVars == <<present, path, up, carrier>>
halVars == <<admin_status, pipes>>
setVars == <<pc, req>>
getVars == <<asked, here>>
retVars == <<ret, out>>
vars == <<devVars, halVars, setVars, getVars, retVars, settled, moved>>

Request == [port : AnyPort, status : AnyStatus]

TypeOK ==
    /\ present \in BOOLEAN
    /\ path \in Paths
    /\ up \in BOOLEAN
    /\ carrier \in BOOLEAN
    /\ admin_status \in BOOLEAN
    /\ pipes \in 0 .. MaxPipes
    /\ pc \in {"idle", "read", "link", "cache"}
    /\ req \in Request
    /\ asked \in 0 .. 4 /\ here \in BOOLEAN
    /\ ret \in {"none", "OK", "ERR"}
    /\ out \in {"none", "Up", "Down"}
    /\ settled \in BOOLEAN /\ moved \in BOOLEAN

-----------------------------------------------------------------------------
(* Helpers *)

\* The port that `readlink -f /sys/class/net/eth1` names: "-2:" or "-1:" in it
\* is a device on a root port, "/1-1." one behind the hub on bus 1, whose port
\* number is shifted by one, the first becoming the last; otherwise none.
PortNumber(p) ==
    CASE p.chain = <<2>> -> 1
      [] p.chain = <<1>> -> 4
      [] Len(p.chain) > 1 /\ p.bus = 1 /\ p.chain[1] = 1 ->
            (IF p.chain[2] = 1 THEN 4 ELSE p.chain[2] - 1)
      [] OTHER -> 0

\* Without eth1 readlink prints the name it was given, which names no port.
PortOfEth1 == IF present THEN PortNumber(path) ELSE 0

\* IFF_RUNNING of eth1.
Running == present /\ up /\ carrier

\* popen opens a pipe, and nothing here closes it; at the limit it fails.
Popen == pipes < MaxPipes /\ pipes' = pipes + 1
PopenFails == pipes = MaxPipes /\ UNCHANGED pipes

Returns(r, o) == ret' = r /\ out' = o

\* bring_up_all_eth.sh has run, and may have failed to set eth1 up.
Init ==
    /\ present \in BOOLEAN
    /\ path \in Paths
    /\ up \in BOOLEAN /\ (up => present)
    /\ carrier \in BOOLEAN /\ (carrier => present)
    /\ admin_status = FALSE
    /\ pipes = 0
    /\ pc = "idle"
    /\ req = [port |-> 0, status |-> "invalid"]
    /\ asked = 0 /\ here = FALSE
    /\ ret = "none" /\ out = "none"
    /\ settled = up /\ moved = FALSE

-----------------------------------------------------------------------------
(* The kernel and systemd (external) *)

\* eth1 appears, perhaps on another port, administratively down.
Plug(p) ==
    /\ ~present
    /\ present' = TRUE
    /\ path' = p
    /\ up' = FALSE
    /\ carrier' \in BOOLEAN
    /\ settled' = FALSE
    /\ moved' = (asked # 0)
    /\ UNCHANGED <<halVars, setVars, getVars, retVars>>

Unplug ==
    /\ present
    /\ present' = FALSE
    /\ up' = FALSE
    /\ carrier' = FALSE
    /\ settled' = FALSE
    /\ moved' = (asked # 0)
    /\ UNCHANGED <<path, halVars, setVars, getVars, retVars>>

Carrier ==
    /\ present
    /\ carrier' = ~carrier
    /\ UNCHANGED <<present, path, up, halVars, setVars, getVars, retVars, settled, moved>>

\* The agent is restarted, after bring_up_all_eth.sh has set eth1 up or has
\* failed to.
AgentRestart ==
    /\ up' \in {up, present}
    /\ settled' = up'
    /\ admin_status' = FALSE
    /\ pipes' = 0
    /\ pc' = "idle"
    /\ req' = [port |-> 0, status |-> "invalid"]
    /\ asked' = 0 /\ here' = FALSE /\ moved' = FALSE
    /\ Returns("none", "none")
    /\ UNCHANGED <<present, path, carrier>>

-----------------------------------------------------------------------------
(* CcspHalEthSwSetPortAdminStatus *)

SetCheck(port, status) ==
    /\ pc = "idle"
    /\ req' = [port |-> port, status |-> status]
    /\ \/ /\ status \notin Status \/ ~present
          /\ Returns("ERR", "none")
          /\ UNCHANGED pc
       \/ /\ status \in Status /\ present
          /\ Returns("none", "none")
          /\ pc' = "read"
    /\ UNCHANGED <<devVars, halVars, getVars, settled, moved>>

\* Reads the path; a port that eth1 is not on is left alone with RETURN_OK.
SetRead ==
    /\ pc = "read"
    /\ \/ PopenFails /\ Returns("ERR", "none") /\ pc' = "idle"
       \/ /\ Popen
          /\ \/ req.port \notin Ports /\ Returns("ERR", "none") /\ pc' = "idle"
             \/ /\ req.port \in Ports /\ req.port # PortOfEth1
                /\ Returns("OK", "none")
                /\ pc' = "idle"
             \/ /\ req.port \in Ports /\ req.port = PortOfEth1
                /\ pc' = "link"
                /\ UNCHANGED retVars
    /\ UNCHANGED <<devVars, admin_status, req, getVars, settled, moved>>

\* system("ip link set eth1 up|down").  Nobody looks at its result: the
\* interface may have gone, or the command may fail.
SetLink ==
    /\ pc = "link"
    /\ \/ present /\ up' = (req.status = "Up") /\ settled' = TRUE
       \/ up' = up /\ settled' = FALSE
    /\ pc' = "cache"
    /\ UNCHANGED <<present, path, carrier, halVars, req, getVars, retVars, moved>>

\* Bug variant: only a port that is set down is remembered.
SetCacheDownOnly ==
    /\ pc = "cache"
    /\ admin_status' = (admin_status \/ req.status # "Up")
    /\ Returns("OK", "none")
    /\ pc' = "idle"
    /\ UNCHANGED <<devVars, pipes, req, getVars, settled, moved>>

SetCache ==
    /\ pc = "cache"
    /\ admin_status' = (req.status # "Up")
    /\ Returns("OK", "none")
    /\ pc' = "idle"
    /\ UNCHANGED <<devVars, pipes, req, getVars, settled, moved>>

SetPortAdminStatus ==
    \/ \E port \in AnyPort, status \in AnyStatus : SetCheck(port, status)
    \/ SetRead \/ SetLink \/ SetCache

-----------------------------------------------------------------------------
(* The functions that only read *)

readFrame == <<devVars, admin_status, setVars, settled>>

\* CcspHalEthSwGetPortAdminStatus reads the path ...
GetPath(port) ==
    /\ asked = 0
    /\ \/ /\ PopenFails
          /\ Returns("ERR", "none") /\ UNCHANGED <<getVars, moved>>
       \/ /\ Popen /\ port \notin Ports
          /\ Returns("ERR", "none") /\ UNCHANGED <<getVars, moved>>
       \/ /\ Popen /\ port \in Ports
          /\ asked' = port /\ here' = (PortOfEth1 = port)
          /\ moved' = FALSE /\ UNCHANGED retVars
    /\ UNCHANGED readFrame

\* ... and then admin_status.
GetCached ==
    /\ asked # 0
    /\ asked' = 0 /\ here' = FALSE /\ moved' = FALSE
    /\ Returns("OK", IF here /\ ~admin_status THEN "Up" ELSE "Down")
    /\ UNCHANGED <<readFrame, pipes>>

GetPortAdminStatus == GetCached \/ \E port \in AnyPort : GetPath(port)

onceFrame == <<readFrame, getVars, pipes, moved>>

\* The status of every port is whether eth1 exists and was not set down.
GetPortStatus(port) ==
    /\ Returns(IF port \in Ports THEN "OK" ELSE "ERR",
               IF present /\ ~admin_status THEN "Up" ELSE "Down")
    /\ UNCHANGED onceFrame

\* CcspHalEthSwGetPortCfg and CcspHalEthSwSetPortCfg: constants, no effect.
PortCfg(port) ==
    /\ Returns(IF port \in Ports THEN "OK" ELSE "ERR", "none")
    /\ UNCHANGED onceFrame

\* CcspHalExtSw_getAssociatedDevice leaves the count at zero on this platform.
AssociatedDevices == 0

\* CcspHalEthSwLocatePortByMacAddress searches the associated devices; none
\* is ever found, and get_port_number is not reached.
LocatePortByMacAddress ==
    /\ AssociatedDevices = 0
    /\ Returns("ERR", "none")
    /\ UNCHANGED onceFrame

\* What psmcli prints for the WAN interface: nothing, an empty line, a name
\* that does not fit into IFNAMSIZ, eth1, or an interface that is not there.
WanName == {"no output", "empty", "long", "eth1", "missing"}

EthWanInterfaceName(name) == IF name \in {"eth1", "missing"} THEN "OK" ELSE "ERR"

\* GWP_GetEthWanLinkStatus: IFF_RUNNING of the interface, FALSE on any error,
\* one in popen included (IFF_LOWER_UP does not fit into ifr_flags).  This
\* pipe is closed again.
GetEthWanLinkStatus(name) ==
    /\ Returns("none", IF /\ pipes < MaxPipes
                          /\ EthWanInterfaceName(name) = "OK"
                          /\ name = "eth1" /\ Running
                       THEN "Up" ELSE "Down")
    /\ UNCHANGED onceFrame

Query ==
    \/ GetPortAdminStatus
    \/ \E port \in AnyPort : GetPortStatus(port) \/ PortCfg(port)
    \/ LocatePortByMacAddress
    \/ \E name \in WanName : GetEthWanLinkStatus(name)

Next ==
    \/ (\E p \in Paths : Plug(p)) \/ Unplug \/ Carrier \/ AgentRestart
    \/ SetPortAdminStatus
    \/ Query

Spec == Init /\ [][Next]_vars

-----------------------------------------------------------------------------
(* Properties *)

\* What the HAL knows is what the kernel has: eth1 has not been replaced or
\* left behind by a failed command since its flag was set, and no caller is
\* between the command and the assignment of admin_status.
InStep == settled /\ pc # "cache"

\* As long as the two are in step, and eth1 did not move between the two
\* reads, the admin status that the HAL reports is the kernel's flag for the
\* port eth1 is on, and "Down" for the others: the HAL never asks the kernel,
\* yet its copy does not drift over failing calls, calls for other ports,
\* hot-plugging, restarts of the agent and sets that come between the reads.
AdminStatusIsTrue ==
    [][GetCached /\ InStep /\ ~moved
          => (out' = "Up" <=> up /\ PortNumber(path) = asked)]_vars

\* As long as the two are in step, CcspHalEthSwGetPortStatus reports a port
\* "Down" only if the interface is indeed not running.
DownIsTrue ==
    [][\A port \in Ports :
          GetPortStatus(port) /\ InStep /\ out' = "Down" => ~Running]_vars

\* The functions of the port API have no side effect ("@sideeffect None."):
\* whatever was called before, GWP_GetEthWanLinkStatus finds the link of a
\* running eth1.  Each call that reads the path leaves a pipe open, and once
\* the process has no descriptor left the link is reported as down.
NoSideEffect ==
    [][GetEthWanLinkStatus("eth1") /\ Running => out' = "Up"]_vars
=============================================================================
