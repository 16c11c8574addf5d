----------------------------- MODULE WifiStart ------------------------------
(***************************************************************************)
(* How the Wi-Fi interfaces come into being: the pre-start scripts of      *)
(* OneWifi on a gateway with an MT7990, an MT7996 or other cards, on an    *)
(* EasyMesh controller and on an EasyMesh extender, and on the extender    *)
(* the agent, which waits until the interface whose address is AL_MAC_ADDR *)
(* in EasymeshCfg.json is associated.                                      *)
(*                                                                         *)
(* None of the scripts stops at a failing command.  systemd restarts both  *)
(* units whenever they end, but gives up on one that starts too often in   *)
(* ten seconds.  The files are on flash, the interfaces are not.           *)
(***************************************************************************)
EXTENDS Naturals, FiniteSets

CONSTANTS
    Images,         \* which images and cards there may be
    StartLimit,     \* starts that systemd allows a unit in ten seconds
    MaxLosses,      \* bound: power losses
    MaxFaults       \* bound: commands that fail, and scripts that are killed

AllImages == {"mt7990", "mt7996", "other", "ctrl", "ext"}

ASSUME WifiAssumption ==
    /\ Images \subseteq AllImages
    /\ StartLimit \in Nat \ {0} /\ MaxLosses \in Nat /\ MaxFaults \in Nat

VARIABLES
    image,
    phys,           \* wireless devices that the driver has registered
    addr,           \* the address of each interface
    wifi, i, base,  \* onewifi.service; loop index and base address of its script
    tried,          \* a start of onewifi.service has succeeded or failed
    burst,          \* its starts within the last ten seconds
    files,          \* files on flash
    alMac,          \* AL_MAC_ADDR in EasymeshCfg.json
    aps, backhaul,  \* the access points are up, wifi1.3 is associated
    lease,          \* brlan0 has an address or can get one
    bridge,         \* brlan0, and whether wifi1.3 is in it
    agent, agentMac,    \* the agent's unit; al_mac_addr while its script waits
    torn,           \* history: interfaces may have kept the driver's address
    alTorn,         \* history: a command failed that AL_MAC_ADDR depends on
    cpFailed,       \* history: files of the configuration that cp failed to copy
    sawBackhaul,    \* history: backhaul since the start of the agent
    losses, faults

wifiVars  == <<phys, addr, wifi, i, base, tried, burst, torn>>
nvVars    == <<files, alMac, alTorn, cpFailed>>
airVars   == <<aps, backhaul, lease>>
agentVars == <<bridge, agent, agentMac>>
boundVars == <<losses, faults>>
vars == <<image, wifiVars, nvVars, airVars, agentVars, sawBackhaul, boundVars>>

Absent == <<"absent", 0>>
Zero   == <<"zero", 0>>     \* 00:00:00:00:00:00, as delivered
Blank  == <<"blank", 0>>    \* no text between the quotes, or no file

Mesh == image \in {"ctrl", "ext"}

\* wifi0, wifi1 and perhaps wifi2; with other cards wlan0 and wlan1; in a mesh
\* wifi0, wifi0.1, wifi0.2, wifi1, wifi1.1, wifi1.2 and wifi1.3, the backhaul.
Last   == IF Mesh THEN 7 ELSE IF image = "mt7996" THEN 3 ELSE 2
Ifaces == 1 .. 7

PhyOf(n) ==
    IF (Mesh /\ n > 3) \/ (image = "other" /\ n = 2) THEN "phy1" ELSE "phy0"

\* The address that the driver gives a new interface, and the one it should
\* have: the given one, or what the scripts work out, wifi0's plus a number,
\* in a mesh locally administered.
Given(n) == <<PhyOf(n), 0>>
Right(n) ==
    IF n = 1 \/ (image = "other" /\ n = 2) THEN Given(n)
    ELSE <<IF Mesh THEN "local" ELSE "phy0", n - 1>>

Addresses == {"phy0", "phy1", "local"} \X (0 .. 6)
ScriptPcs == {"defaults", "cfg", "map", "test", "wait", "add", "base", "set", "al",
              "end"}

Init ==
    /\ image \in Images
    /\ phys = {} /\ addr = [n \in Ifaces |-> Absent]
    /\ wifi = "stopped" /\ i = 1 /\ base = FALSE /\ tried = FALSE /\ burst = 0
    /\ files = {} /\ alMac = Blank /\ cpFailed = {}
    /\ aps = FALSE /\ backhaul = FALSE /\ lease = FALSE
    /\ bridge = "none" /\ agent = "stopped" /\ agentMac = Blank
    /\ torn = FALSE /\ alTorn = FALSE /\ sawBackhaul = FALSE
    /\ losses = 0 /\ faults = 0

Fault == faults < MaxFaults /\ faults' = faults + 1

-----------------------------------------------------------------------------
(* onewifi.service: the steps that the scripts share *)

unitFrame == <<image, phys, burst, airVars, agentVars, losses>>

\* Restart=always, without RestartSec: at once.  The extender's script begins
\* with sleep 5, the others do not wait, so that only their starts may become
\* too many.
WifiBegin ==
    /\ wifi = "stopped" /\ burst < StartLimit
    /\ wifi' = IF Mesh THEN "defaults" ELSE IF image = "other" THEN "add" ELSE "wait"
    /\ burst' = IF image = "ext" THEN burst ELSE burst + 1
    /\ i' = 1 /\ base' = FALSE
    /\ UNCHANGED <<image, phys, addr, tried, torn, nvVars, airVars, agentVars, boundVars>>

\* systemd gives the unit up; nothing in the image resets it.
WifiGiveUp ==
    /\ wifi = "stopped" /\ burst = StartLimit
    /\ wifi' = "failed" /\ tried' = TRUE
    /\ UNCHANGED <<addr, i, base, torn, nvVars, faults, unitFrame>>

\* Ten seconds pass.
TimePasses ==
    /\ burst' = 0
    /\ UNCHANGED <<image, phys, addr, wifi, i, base, tried, torn, nvVars, airVars, agentVars,
                   boundVars>>

\* A command that affects AL_MAC_ADDR: wifi0 gives the base address.
ForAlMac(cmd, n) == n = 7 \/ (cmd = "add" /\ n = 1)

\* iw phy ... interface add: fails without the device, and for other reasons.
Add ==
    \/ /\ PhyOf(i) \in phys /\ addr[i] = Absent
       /\ addr' = [addr EXCEPT ![i] = Given(i)]
       /\ UNCHANGED <<alTorn, faults>>
    \/ /\ IF addr[i] # Absent \/ PhyOf(i) \notin phys THEN UNCHANGED faults ELSE Fault
       /\ alTorn' = (alTorn \/ (addr[i] = Absent /\ ForAlMac("add", i)))
       /\ UNCHANGED addr

\* ip link set address: fails without interface or base address, and otherwise.
Set ==
    \/ /\ addr[i] # Absent /\ base
       /\ addr' = [addr EXCEPT ![i] = Right(i)]
       /\ UNCHANGED <<torn, alTorn, faults>>
    \/ /\ IF addr[i] = Absent \/ ~base THEN UNCHANGED faults ELSE Fault
       /\ torn' = (torn \/ addr[i] # Absent)
       /\ alTorn' = (alTorn \/ ForAlMac("set", i))
       /\ UNCHANGED addr

\* cp copies a file, or fails.
Copy(file) ==
    \/ files' = files \cup {file} /\ UNCHANGED faults
    \/ file \notin files /\ Fault /\ UNCHANGED files

CopyDefaults ==
    /\ wifi = "defaults"
    /\ wifi' = IF Mesh THEN "cfg" ELSE "end"
    /\ Copy("wifi_defaults.txt")
    /\ UNCHANGED <<addr, i, base, tried, torn, alMac, alTorn, cpFailed, unitFrame>>

\* OneWifi runs, until it ends.
WifiRun ==
    /\ wifi = "end"
    /\ wifi' = "run" /\ tried' = TRUE
    /\ i' = 1 /\ base' = FALSE
    /\ UNCHANGED <<addr, torn, nvVars, faults, unitFrame>>

WifiExit ==
    /\ wifi = "run"
    /\ wifi' = "stopped"
    /\ aps' = FALSE /\ backhaul' = FALSE
    /\ UNCHANGED <<image, phys, addr, i, base, tried, burst, torn, nvVars, lease, agentVars,
                   boundVars>>

\* A script is killed: by hand, or because its start takes too long.
WifiKill ==
    /\ wifi \in ScriptPcs
    /\ Fault
    /\ wifi' = "stopped" /\ tried' = TRUE
    /\ torn' = (torn \/ wifi \in {"base", "set"})
    /\ i' = 1 /\ base' = FALSE
    /\ UNCHANGED <<addr, nvVars, unitFrame>>

-----------------------------------------------------------------------------
(* onewifi_pre_start.sh: handle_mt7990 and handle_other *)

\* Bug variant: it waits for a device that this card may not have.
GwWaitOther ==
    /\ wifi = "wait" /\ "phy1" \in phys
    /\ wifi' = "add"
    /\ UNCHANGED <<addr, i, base, tried, torn, nvVars, faults, unitFrame>>

GwWait ==
    /\ wifi = "wait" /\ "phy0" \in phys
    /\ wifi' = "add"
    /\ UNCHANGED <<addr, i, base, tried, torn, nvVars, faults, unitFrame>>

\* The loop has no end of its own: TimeoutStartSec=120 ends it.
GwTimeout ==
    /\ wifi = "wait" /\ "phy0" \notin phys
    /\ wifi' = "stopped" /\ tried' = TRUE
    /\ burst' = 0
    /\ UNCHANGED <<image, phys, addr, i, base, torn, nvVars, airVars, agentVars, boundVars>>

GwNext == IF i < Last THEN wifi' = "add" /\ i' = i + 1 ELSE wifi' = "map" /\ i' = i

\* wifi0 keeps its address, which is read next; an interface that exists is
\* left as it is.
GwAdd ==
    /\ ~Mesh /\ image # "other" /\ wifi = "add"
    /\ IF addr[i] = Absent THEN Add ELSE UNCHANGED <<addr, alTorn, faults>>
    /\ IF i = 1 THEN base' = (addr'[1] # Absent) ELSE UNCHANGED base
    /\ IF i = 1 \/ addr[i] # Absent THEN GwNext ELSE wifi' = "set" /\ i' = i
    /\ UNCHANGED <<tried, torn, files, alMac, cpFailed, unitFrame>>

GwSet ==
    /\ ~Mesh /\ wifi = "set"
    /\ Set
    /\ GwNext
    /\ UNCHANGED <<base, tried, files, alMac, cpFailed, unitFrame>>

GwMap ==
    /\ ~Mesh /\ wifi = "map"
    /\ wifi' = "defaults"
    /\ Copy("InterfaceMap.json")
    /\ UNCHANGED <<addr, i, base, tried, torn, alMac, alTorn, cpFailed, unitFrame>>

\* handle_other does not wait: a device that comes later has its interface
\* added when OneWifi is restarted.
OtherAdd ==
    /\ image = "other" /\ wifi = "add"
    /\ IF PhyOf(i) \in phys /\ addr[i] = Absent THEN Add ELSE UNCHANGED <<addr, alTorn, faults>>
    /\ IF i < 2 THEN i' = i + 1 /\ UNCHANGED wifi ELSE wifi' = "defaults" /\ UNCHANGED i
    /\ UNCHANGED <<base, tried, torn, files, alMac, cpFailed, unitFrame>>

Gateway == GwWait \/ GwTimeout \/ GwAdd \/ GwSet \/ GwMap \/ OtherAdd

-----------------------------------------------------------------------------
(* onewifi_pre_start_em_ctrl.sh and onewifi_pre_start_em_ext.sh *)

\* Bug variant: the file that marks the copy as done is copied first.
MeshCfgLast ==
    /\ wifi = "cfg"
    /\ IF "InterfaceMap.json" \in files
       THEN wifi' = "test" /\ UNCHANGED <<files, alMac>>
       ELSE /\ wifi' = "map"
            /\ files' = files \cup {"InterfaceMap.json"}
            /\ UNCHANGED alMac
    /\ UNCHANGED <<addr, i, base, tried, torn, alTorn, cpFailed, faults, unitFrame>>

\* cp takes EasymeshCfg.json first, with AL_MAC_ADDR zero; if it fails, with
\* the file untouched or cut short, it goes on to InterfaceMap.json.
MeshCfg ==
    /\ wifi = "cfg"
    /\ IF "InterfaceMap.json" \in files
       THEN wifi' = "test" /\ UNCHANGED <<nvVars, faults>>
       ELSE /\ wifi' = "map"
            /\ \/ /\ files' = files \cup {"EasymeshCfg.json"} /\ alMac' = Zero
                  /\ UNCHANGED <<alTorn, cpFailed, faults>>
               \/ /\ Fault
                  /\ alTorn' = TRUE /\ cpFailed' = cpFailed \cup {"EasymeshCfg.json"}
                  /\ \/ UNCHANGED <<files, alMac>>
                     \/ files' = files \cup {"EasymeshCfg.json"} /\ alMac' = Blank
    /\ UNCHANGED <<addr, i, base, tried, torn, unitFrame>>

MeshMap ==
    /\ Mesh /\ wifi = "map"
    /\ wifi' = "test"
    /\ \/ files' = files \cup {"InterfaceMap.json"} /\ UNCHANGED <<cpFailed, faults>>
       \/ /\ Fault
          /\ cpFailed' = cpFailed \cup {"InterfaceMap.json"}
          /\ files' \in {files, files \cup {"InterfaceMap.json"}}
    /\ UNCHANGED <<addr, i, base, tried, torn, alMac, alTorn, unitFrame>>

\* Bug variant: wifi0 tells whether the interfaces exist.
MeshTestFirst ==
    /\ wifi = "test"
    /\ IF addr[1] # Absent
       THEN wifi' = "end" /\ UNCHANGED <<i, tried, torn>>
       ELSE IF image = "ext" /\ "phy0" \notin phys
       THEN wifi' = "stopped" /\ tried' = TRUE /\ UNCHANGED <<i, torn>>
       ELSE wifi' = "add" /\ i' = 1 /\ torn' = FALSE /\ UNCHANGED tried
    /\ UNCHANGED <<addr, base, nvVars, faults, unitFrame>>

\* wifi1.3, which is added last, tells whether the interfaces exist.  Only
\* the extender's script looks for the device.
MeshTest ==
    /\ wifi = "test"
    /\ IF addr[7] # Absent
       THEN wifi' = "end" /\ UNCHANGED <<i, tried, torn>>
       ELSE IF image = "ext" /\ "phy0" \notin phys
       THEN wifi' = "stopped" /\ tried' = TRUE /\ UNCHANGED <<i, torn>>
       ELSE wifi' = "add" /\ i' = 1 /\ torn' = FALSE /\ UNCHANGED tried
    /\ UNCHANGED <<addr, base, nvVars, faults, unitFrame>>

MeshAdd ==
    /\ Mesh /\ wifi = "add"
    /\ Add
    /\ IF i < 7 THEN i' = i + 1 /\ UNCHANGED wifi ELSE wifi' = "base" /\ UNCHANGED i
    /\ UNCHANGED <<base, tried, torn, files, alMac, cpFailed, unitFrame>>

MeshBase ==
    /\ wifi = "base"
    /\ wifi' = "set"
    /\ base' = (addr[1] # Absent)
    /\ i' = 2
    /\ UNCHANGED <<addr, tried, torn, nvVars, faults, unitFrame>>

MeshSet ==
    /\ Mesh /\ wifi = "set"
    /\ Set
    /\ IF i < 7 THEN i' = i + 1 /\ UNCHANGED wifi
       ELSE wifi' = (IF image = "ext" THEN "al" ELSE "end") /\ UNCHANGED i
    /\ UNCHANGED <<base, tried, files, alMac, cpFailed, unitFrame>>

\* Bug variant: the address of wifi1 is taken.
MeshAlOther ==
    /\ wifi = "al"
    /\ wifi' = "end"
    /\ alMac' = IF alMac # Zero THEN alMac
                ELSE IF addr[4] = Absent THEN Blank ELSE addr[4]
    /\ UNCHANGED <<addr, i, base, tried, torn, files, alTorn, cpFailed, faults, unitFrame>>

\* Bug variant: it is written whenever the interfaces are set up.
MeshAlAlways ==
    /\ wifi = "al"
    /\ wifi' = "end"
    /\ alMac' = IF addr[7] = Absent THEN Blank ELSE addr[7]
    /\ UNCHANGED <<addr, i, base, tried, torn, files, alTorn, cpFailed, faults, unitFrame>>

\* AL_MAC_ADDR is written once; without wifi1.3 it is replaced by nothing.
MeshAl ==
    /\ wifi = "al"
    /\ wifi' = "end"
    /\ alMac' = IF alMac # Zero THEN alMac
                ELSE IF addr[7] = Absent THEN Blank ELSE addr[7]
    /\ UNCHANGED <<addr, i, base, tried, torn, files, alTorn, cpFailed, faults, unitFrame>>

MeshNode == MeshCfg \/ MeshMap \/ MeshTest \/ MeshAdd \/ MeshBase \/ MeshSet \/ MeshAl

WifiUnit == WifiBegin \/ WifiGiveUp \/ CopyDefaults \/ WifiRun \/ Gateway \/ MeshNode

-----------------------------------------------------------------------------
(* ieee1905_em_agent.service of the extender: em_agent_pre_start.sh *)

agentFrame == <<image, wifiVars, nvVars, airVars, losses>>

\* After=onewifi.service; the address is read once.
AgentBegin ==
    /\ image = "ext" /\ tried
    /\ agent = "stopped"
    /\ agent' = "wait" /\ agentMac' = alMac
    /\ UNCHANGED <<bridge, faults, agentFrame>>

\* iw dev shows a channel or SSID for exactly one interface of that address.
Shown == {n \in Ifaces : addr[n] = agentMac /\ IF n = 7 THEN backhaul ELSE aps}

\* Bug variant: any interface that is up will do.
AgentSeesAny ==
    /\ agent = "wait" /\ (aps \/ backhaul)
    /\ IF bridge = "none" THEN agent' = "join" /\ bridge' = "bare"
                          ELSE agent' = "dhcp" /\ UNCHANGED bridge
    /\ agentMac' = Blank
    /\ UNCHANGED <<faults, agentFrame>>

AgentSees ==
    /\ agent = "wait" /\ Cardinality(Shown) = 1
    /\ IF bridge = "none" THEN agent' = "join" /\ bridge' = "bare"
                          ELSE agent' = "dhcp" /\ UNCHANGED bridge
    /\ agentMac' = Blank
    /\ UNCHANGED <<faults, agentFrame>>

AgentJoin ==
    /\ agent = "join"
    /\ agent' = "dhcp"
    /\ bridge' = IF addr[7] # Absent THEN "joined" ELSE bridge
    /\ UNCHANGED <<agentMac, faults, agentFrame>>

AgentRun ==
    /\ agent = "dhcp" /\ lease
    /\ agent' = "run"
    /\ UNCHANGED <<bridge, agentMac, faults, agentFrame>>

\* Bug variant: a start that takes too long is left alone.
AgentTimeoutNever == FALSE /\ UNCHANGED vars

\* Neither loop has an end of its own: systemd's default limit ends it.
AgentTimeout ==
    /\ \/ agent = "wait" /\ Cardinality(Shown) # 1
       \/ agent = "dhcp" /\ ~lease
    /\ agent' = "stopped" /\ agentMac' = Blank
    /\ UNCHANGED <<bridge, faults, agentFrame>>

AgentExit ==
    /\ agent = "run"
    /\ agent' = "stopped"
    /\ UNCHANGED <<bridge, agentMac, faults, agentFrame>>

AgentKill ==
    /\ agent \in {"wait", "join", "dhcp"}
    /\ Fault
    /\ agent' = "stopped" /\ agentMac' = Blank
    /\ UNCHANGED <<bridge, agentFrame>>

AgentUnit == AgentBegin \/ AgentSees \/ AgentJoin \/ AgentRun \/ AgentTimeout

-----------------------------------------------------------------------------
(* The drivers, the air and the power *)

PhyAppears ==
    /\ \E p \in {"phy0", "phy1"} \ phys : phys' = phys \cup {p}
    /\ UNCHANGED <<image, addr, wifi, i, base, tried, burst, torn, nvVars, airVars, agentVars,
                   boundVars>>

\* OneWifi starts the access points and looks for a backhaul.
Air ==
    /\ wifi = "run"
    /\ \/ aps' = TRUE /\ UNCHANGED backhaul
       \/ addr[7] # Absent /\ backhaul' = ~backhaul /\ UNCHANGED aps
    /\ UNCHANGED <<image, wifiVars, nvVars, lease, agentVars, boundVars>>

\* The DHCP server answers, or no longer; Utopia may have created brlan0.
Network ==
    /\ image = "ext"
    /\ \/ lease' = ~lease /\ UNCHANGED bridge
       \/ bridge = "none" /\ bridge' = "bare" /\ UNCHANGED lease
    /\ UNCHANGED <<image, wifiVars, nvVars, aps, backhaul, agent, agentMac, boundVars>>

PowerLoss ==
    /\ losses < MaxLosses
    /\ losses' = losses + 1
    /\ phys' = {} /\ addr' = [n \in Ifaces |-> Absent]
    /\ wifi' = "stopped" /\ tried' = FALSE /\ burst' = 0 /\ torn' = FALSE
    /\ i' = 1 /\ base' = FALSE
    /\ aps' = FALSE /\ backhaul' = FALSE /\ lease' = FALSE
    /\ bridge' = "none" /\ agent' = "stopped" /\ agentMac' = Blank
    /\ UNCHANGED <<image, nvVars, faults>>

-----------------------------------------------------------------------------
(* The specification *)

Remember ==
    sawBackhaul' = (backhaul' \/ (sawBackhaul /\ "stopped" \notin {agent, agent'}))

Next ==
    /\ \/ WifiUnit \/ WifiExit \/ WifiKill
       \/ AgentUnit \/ AgentExit \/ AgentKill
       \/ PhyAppears \/ Air \/ Network \/ TimePasses \/ PowerLoss
    /\ Remember

Spec == Init /\ [][Next]_vars

\* Scripts run on, and systemd restarts a unit that says Restart=always as long
\* as its start limit lets it; the agent's unit has a sleep 5 before ExecStart and
\* stays below the limit.  Time need not pass between two ends of OneWifi.
FairSpec == Spec /\ WF_vars(WifiUnit /\ Remember) /\ WF_vars(AgentUnit /\ Remember)

-----------------------------------------------------------------------------
(* Properties *)

TypeOK ==
    /\ image \in Images
    /\ phys \in SUBSET {"phy0", "phy1"}
    /\ addr \in [Ifaces -> Addresses \cup {Absent}]
    /\ wifi \in ScriptPcs \cup {"stopped", "run", "failed"}
    /\ i \in 1 .. Last /\ base \in BOOLEAN /\ tried \in BOOLEAN
    /\ burst \in 0 .. StartLimit
    /\ files \in SUBSET {"wifi_defaults.txt", "EasymeshCfg.json", "InterfaceMap.json"}
    /\ alMac \in Addresses \cup {Zero, Blank}
    /\ cpFailed \in SUBSET {"EasymeshCfg.json", "InterfaceMap.json"}
    /\ aps \in BOOLEAN /\ backhaul \in BOOLEAN /\ lease \in BOOLEAN
    /\ bridge \in {"none", "bare", "joined"}
    /\ agent \in {"stopped", "wait", "join", "dhcp", "run"}
    /\ agentMac \in Addresses \cup {Zero, Blank}
    /\ torn \in BOOLEAN /\ alTorn \in BOOLEAN /\ sawBackhaul \in BOOLEAN
    /\ losses \in 0 .. MaxLosses /\ faults \in 0 .. MaxFaults

\* While OneWifi runs no two interfaces have the same address, unless ip link
\* set failed or the script was killed between the last iw add and the last
\* ip link set.  A missing device, failing or killed iw add and restarts do
\* no harm: the set-up is repeated as long as its last interface is missing.
AddressesDiffer ==
    wifi = "run" /\ ~torn =>
        \A m, n \in Ifaces :
            m # n /\ addr[m] # Absent => addr[m] # addr[n]

\* InterfaceMap.json, which stands for the whole configuration, is never on
\* flash without EasymeshCfg.json, wherever the copy is cut short, unless cp
\* failed on EasymeshCfg.json itself and went on.
MapMeansCfg ==
    Mesh /\ "InterfaceMap.json" \in files =>
        "EasymeshCfg.json" \in files \cup cpFailed

\* AL_MAC_ADDR is the backhaul's address, or not decided yet, unless one of
\* four commands ever failed: copying EasymeshCfg.json, adding wifi0, adding
\* wifi1.3 or setting the address of wifi1.3.  Nothing corrects it later.
AlMacIsBackhaul ==
    "EasymeshCfg.json" \in files /\ ~alTorn => alMac \in {Zero, Right(7)}

\* An address once written to AL_MAC_ADDR, by which the mesh knows the extender,
\* is never replaced, over restarts, failures and power losses, unless cp ever
\* failed on InterfaceMap.json: without that file every start copies
\* EasymeshCfg.json again, and AL_MAC_ADDR is back at zero.
AlMacStays ==
    [][alMac \notin {Zero, Blank} /\ "InterfaceMap.json" \notin cpFailed
          => alMac' = alMac]_vars

\* The agent of the extender runs only after the backhaul was associated
\* during this very start ("Ensure backhaul connectivity is established").
AgentOnBackhaul == agent = "run" => sawBackhaul \/ alTorn

\* Once the card is there OneWifi runs again and again, however often a start
\* gave up or timed out before, was killed or OneWifi ended; on a gateway or a
\* controller unless that happened so often within ten seconds that systemd
\* gave the unit up, and then for good.
WifiComesUp ==
    <>[]("phy0" \in phys) =>
        \/ []<>(wifi = "run")
        \/ image # "ext" /\ <>[](wifi = "failed")

\* If the backhaul lasts, AL_MAC_ADDR has been written and an address can be
\* had, the agent runs again and again, even if it first read AL_MAC_ADDR too
\* early, unless the set-up was torn.
AgentComesUp ==
    /\ image = "ext"
    /\ <>[](backhaul /\ lease /\ alMac # Zero /\ ~torn /\ ~alTorn)
    => []<>(agent = "run")
=============================================================================
