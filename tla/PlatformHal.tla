---------------------------- MODULE PlatformHal -----------------------------
(***************************************************************************)
(* The platform HAL in a process that links it.  Each client uses one part:*)
(* the DHCP manager the option lists, P&M the getters, the firewall the WAN*)
(* interface.  The parts share no state.                                   *)
(***************************************************************************)
EXTENDS DhcpOptions, PlatformInfo, CurrentWan

VARIABLE client

halVars == <<client, vars, infoVars, wanVars>>

HalInit ==
    /\ client \in {"dhcp", "info", "wan"}
    /\ Init /\ InfoInit /\ WanInit
    /\ client # "dhcp" => file = <<>> /\ ~present
    /\ client # "info" => deviceTree
    /\ client # "wan"  => source = [s \in Sources |-> NoName]

HalNext ==
    /\ UNCHANGED client
    /\ \/ client = "dhcp" /\ Next /\ UNCHANGED <<infoVars, wanVars>>
       \/ client = "info" /\ InfoNext /\ UNCHANGED <<vars, wanVars>>
       \/ client = "wan" /\ WanNext /\ UNCHANGED <<vars, infoVars>>

HalSpec == HalInit /\ [][HalNext]_halVars
=============================================================================
