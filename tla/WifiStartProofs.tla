-------------------------- MODULE WifiStartProofs ---------------------------
(* Theorems about WifiStart, for any images, faults and power losses. *)
EXTENDS WifiStart, FiniteSetTheorems, TLAPS

\* Which script is at which command; wifi1.3 is the last interface added.
FlowInv ==
    /\ wifi \in {"cfg", "test", "base", "al"} => Mesh
    /\ wifi = "wait" => ~Mesh
    /\ wifi = "add" /\ Mesh => addr[7] = Absent

\* An interface that does not keep the driver's address.
Settled(n) == addr[n] \in {Absent, Right(n)}

\* Where in the scripts an interface may still have the driver's address.
AddrInv ==
    /\ \A n \in Ifaces : addr[n] \in {Absent, Given(n), Right(n)}
    /\ ~torn /\ Mesh /\ wifi \in {"al", "end", "run"} => \A n \in Ifaces : Settled(n)
    /\ ~torn /\ Mesh /\ addr[7] # Absent /\ wifi \notin {"base", "set"}
          => \A n \in Ifaces : Settled(n)
    /\ ~torn /\ Mesh /\ wifi = "set" => \A n \in Ifaces : n < i => Settled(n)
    /\ ~torn /\ ~Mesh => \A n \in Ifaces : (wifi = "set" /\ n = i) \/ Settled(n)

\* The copy of the configuration.
CfgInv ==
    /\ Mesh /\ wifi = "map" => "EasymeshCfg.json" \in files \cup cpFailed
    /\ ~Mesh => "EasymeshCfg.json" \notin files
    /\ MapMeansCfg

\* The set-up of an EasyMesh image, and an address in AL_MAC_ADDR, come after
\* the copy of InterfaceMap.json.
MapInv ==
    Mesh /\ (wifi \in {"test", "add", "base", "set", "al"} \/ alMac \notin {Zero, Blank})
        => "InterfaceMap.json" \in files \cup cpFailed

\* What has been achieved on the way to AL_MAC_ADDR if no command failed.
AlInv ==
    Mesh /\ ~alTorn =>
        /\ wifi = "add" /\ i > 1 => addr[1] # Absent
        /\ wifi \in {"base", "set"} => addr[1] # Absent /\ addr[7] # Absent
        /\ wifi = "set" => base
        /\ wifi = "al" => addr[7] = Right(7)
        /\ alMac \in {Zero, Blank, Right(7)}
        /\ alMac = Blank => "EasymeshCfg.json" \notin files

\* The agent waits for the address that it read.
AgentInv ==
    /\ agent # "stopped" => image = "ext"
    /\ image = "ext" /\ ~alTorn => agentMac \in {Zero, Blank, Right(7)}
    /\ backhaul => sawBackhaul
    /\ agent \in {"join", "dhcp", "run"} => sawBackhaul \/ alTorn

-----------------------------------------------------------------------------
(* Type correctness *)

\* The addresses that occur are addresses.
LEMMA AddressTypes ==
    \A n \in Ifaces : Given(n) \in Addresses /\ Right(n) \in Addresses
BY DEF Ifaces, Given, Right, PhyOf, Addresses

\* The three steps that the scripts share keep the types of what they change.
LEMMA AddType ==
    ASSUME TypeOK, Add
    PROVE  /\ addr' \in [Ifaces -> Addresses \cup {Absent}]
           /\ alTorn' \in BOOLEAN /\ faults' \in 0 .. MaxFaults
<1>1. i \in Ifaces BY DEF TypeOK, Last, Ifaces
<1>2. addr' \in [Ifaces -> Addresses \cup {Absent}]
  BY <1>1, AddressTypes DEF TypeOK, Add
<1>3. alTorn' \in BOOLEAN
  BY DEF TypeOK, Add
<1>4. faults' \in 0 .. MaxFaults
  BY WifiAssumption DEF TypeOK, Add, Fault
<1> QED BY <1>2, <1>3, <1>4

\* Set, whether it works or fails, keeps the types.
LEMMA SetType ==
    ASSUME TypeOK, Set
    PROVE  /\ addr' \in [Ifaces -> Addresses \cup {Absent}]
           /\ torn' \in BOOLEAN /\ alTorn' \in BOOLEAN /\ faults' \in 0 .. MaxFaults
<1>1. i \in Ifaces BY DEF TypeOK, Last, Ifaces
<1>2. addr' \in [Ifaces -> Addresses \cup {Absent}]
  BY <1>1, AddressTypes DEF TypeOK, Set
<1>3. torn' \in BOOLEAN /\ alTorn' \in BOOLEAN
  BY DEF TypeOK, Set
<1>4. faults' \in 0 .. MaxFaults
  BY WifiAssumption DEF TypeOK, Set, Fault
<1> QED BY <1>2, <1>3, <1>4

\* Copy, whether it works or fails, keeps the types.
LEMMA CopyType ==
    ASSUME TypeOK, NEW f \in {"wifi_defaults.txt", "InterfaceMap.json"}, Copy(f)
    PROVE  /\ files' \in SUBSET {"wifi_defaults.txt", "EasymeshCfg.json", "InterfaceMap.json"}
           /\ faults' \in 0 .. MaxFaults
<1>1. files' \in SUBSET {"wifi_defaults.txt", "EasymeshCfg.json", "InterfaceMap.json"}
  BY DEF TypeOK, Copy
<1>2. faults' \in 0 .. MaxFaults
  BY WifiAssumption DEF TypeOK, Copy, Fault
<1> QED BY <1>1, <1>2

\* The loop index stays within the interfaces of the image.
LEMMA GwNextType ==
    ASSUME TypeOK, GwNext
    PROVE  i' \in 1 .. Last /\ wifi' \in {"add", "map"}
BY DEF TypeOK, GwNext, Last

\* Every command keeps the types.
LEMMA TypeStep == TypeOK /\ [Next]_vars => TypeOK'
<1> SUFFICES ASSUME TypeOK, [Next]_vars PROVE TypeOK'
  OBVIOUS
<1> USE WifiAssumption
<1>0. CASE UNCHANGED vars
  BY <1>0 DEF TypeOK, vars, wifiVars, nvVars, airVars, agentVars, boundVars, Last, Mesh
<1>s. CASE Next
  <2>s. sawBackhaul' \in BOOLEAN
    BY <1>s DEF Next, Remember, TypeOK
  <2> USE <2>s DEF TypeOK, Last, Mesh, unitFrame, wifiVars, nvVars, airVars, agentVars,
                   boundVars, ScriptPcs
  <2>1. CASE WifiBegin
    <3>1. 1 \in 1 .. Last OBVIOUS
    <3>2. base' \in BOOLEAN BY <2>1 DEF WifiBegin
    <3> QED BY <2>1, <3>1, <3>2 DEF WifiBegin
  <2>2. CASE CopyDefaults BY <2>2, CopyType DEF CopyDefaults
  <2>3. CASE WifiRun
    <3>1. 1 \in 1 .. Last OBVIOUS
    <3>2. base' \in BOOLEAN /\ tried' \in BOOLEAN BY <2>3 DEF WifiRun
    <3> QED BY <2>3, <3>1, <3>2 DEF WifiRun
  <2>30. CASE WifiGiveUp
    <3>1. tried' \in BOOLEAN BY <2>30 DEF WifiGiveUp
    <3> QED BY <2>30, <3>1 DEF WifiGiveUp
  <2>31. CASE TimePasses BY <2>31 DEF TimePasses
  <2>4. CASE WifiExit
    <3>1. aps' \in BOOLEAN /\ backhaul' \in BOOLEAN BY <2>4 DEF WifiExit
    <3> QED BY <2>4, <3>1 DEF WifiExit
  <2>5. CASE WifiKill
    <3>1. 1 \in 1 .. Last OBVIOUS
    <3>2. base' \in BOOLEAN /\ tried' \in BOOLEAN /\ torn' \in BOOLEAN
      BY <2>5 DEF WifiKill
    <3> QED BY <2>5, <3>1, <3>2 DEF WifiKill, Fault
  <2>6. CASE GwWait BY <2>6 DEF GwWait
  <2>7. CASE GwTimeout BY <2>7 DEF GwTimeout
  <2>8. CASE GwAdd
    <3>1. /\ addr' \in [Ifaces -> Addresses \cup {Absent}]
          /\ alTorn' \in BOOLEAN /\ faults' \in 0 .. MaxFaults
      BY <2>8, AddType DEF GwAdd
    <3>2. i' \in 1 .. Last /\ wifi' \in {"add", "map", "set"}
      BY <2>8, GwNextType DEF GwAdd
    <3>3. base' \in BOOLEAN
      BY <2>8 DEF GwAdd
    <3> QED BY <2>8, <3>1, <3>2, <3>3 DEF GwAdd
  <2>9. CASE GwSet
    <3>1. i' \in 1 .. Last /\ wifi' \in {"add", "map"}
      BY <2>9, GwNextType DEF GwSet
    <3> QED BY <2>9, <3>1, SetType DEF GwSet
  <2>10. CASE GwMap BY <2>10, CopyType DEF GwMap
  <2>29. CASE OtherAdd
    <3>1. /\ addr' \in [Ifaces -> Addresses \cup {Absent}]
          /\ alTorn' \in BOOLEAN /\ faults' \in 0 .. MaxFaults
      BY <2>29, AddType DEF OtherAdd
    <3> QED BY <2>29, <3>1 DEF OtherAdd
  <2>11. CASE MeshCfg
    <3>1. files' \in SUBSET {"wifi_defaults.txt", "EasymeshCfg.json", "InterfaceMap.json"}
      BY <2>11 DEF MeshCfg
    <3>2. alMac' \in Addresses \cup {Zero, Blank}
      BY <2>11 DEF MeshCfg
    <3>3. cpFailed' \in SUBSET {"EasymeshCfg.json", "InterfaceMap.json"}
      BY <2>11 DEF MeshCfg
    <3>4. alTorn' \in BOOLEAN BY <2>11 DEF MeshCfg
    <3>5. faults' \in 0 .. MaxFaults BY <2>11 DEF MeshCfg, Fault
    <3> QED BY <2>11, <3>1, <3>2, <3>3, <3>4, <3>5 DEF MeshCfg
  <2>12. CASE MeshMap
    <3>1. files' \in SUBSET {"wifi_defaults.txt", "EasymeshCfg.json", "InterfaceMap.json"}
      BY <2>12 DEF MeshMap
    <3>2. cpFailed' \in SUBSET {"EasymeshCfg.json", "InterfaceMap.json"}
      BY <2>12 DEF MeshMap
    <3>3. faults' \in 0 .. MaxFaults BY <2>12 DEF MeshMap, Fault
    <3> QED BY <2>12, <3>1, <3>2, <3>3 DEF MeshMap
  <2>13. CASE MeshTest
    <3>1. 1 \in 1 .. Last OBVIOUS
    <3>2. tried' \in BOOLEAN /\ torn' \in BOOLEAN BY <2>13 DEF MeshTest
    <3> QED BY <2>13, <3>1, <3>2 DEF MeshTest
  <2>14. CASE MeshAdd BY <2>14, AddType DEF MeshAdd
  <2>15. CASE MeshBase
    <3>1. 2 \in 1 .. Last OBVIOUS
    <3> QED BY <2>15, <3>1 DEF MeshBase
  <2>16. CASE MeshSet BY <2>16, SetType DEF MeshSet
  <2>17. CASE MeshAl
    <3>1. 7 \in Ifaces BY DEF Ifaces
    <3> QED BY <2>17, <3>1 DEF MeshAl
  <2>18. CASE AgentBegin BY <2>18 DEF AgentBegin, agentFrame
  <2>19. CASE AgentSees BY <2>19 DEF AgentSees, agentFrame
  <2>20. CASE AgentJoin BY <2>20 DEF AgentJoin, agentFrame
  <2>21. CASE AgentRun BY <2>21 DEF AgentRun, agentFrame
  <2>22. CASE AgentTimeout BY <2>22 DEF AgentTimeout, agentFrame
  <2>23. CASE AgentExit BY <2>23 DEF AgentExit, agentFrame
  <2>24. CASE AgentKill BY <2>24 DEF AgentKill, agentFrame, Fault
  <2>25. CASE PhyAppears BY <2>25 DEF PhyAppears
  <2>26. CASE Air
    <3>1. aps' \in BOOLEAN /\ backhaul' \in BOOLEAN BY <2>26 DEF Air
    <3> QED BY <2>26, <3>1 DEF Air
  <2>27. CASE Network
    <3>1. lease' \in BOOLEAN BY <2>27 DEF Network
    <3> QED BY <2>27, <3>1 DEF Network
  <2>28. CASE PowerLoss
    <3>1. 1 \in 1 .. Last OBVIOUS
    <3>2. /\ base' \in BOOLEAN /\ tried' \in BOOLEAN /\ torn' \in BOOLEAN
          /\ aps' \in BOOLEAN /\ backhaul' \in BOOLEAN /\ lease' \in BOOLEAN
      BY <2>28 DEF PowerLoss
    <3> QED BY <2>28, <3>1, <3>2 DEF PowerLoss
  <2> QED
    BY <1>s, <2>1, <2>2, <2>3, <2>4, <2>5, <2>6, <2>7, <2>8, <2>9, <2>10, <2>11, <2>12,
       <2>13, <2>14, <2>15, <2>16, <2>17, <2>18, <2>19, <2>20, <2>21, <2>22, <2>23,
       <2>24, <2>25, <2>26, <2>27, <2>28, <2>29, <2>30, <2>31
    DEF Next, WifiUnit, Gateway, MeshNode, AgentUnit
<1> QED BY <1>0, <1>s

\* Every variable keeps its type; the scripts' index stays within the
\* interfaces of the image.
THEOREM TypeCorrect == Spec => []TypeOK
<1>1. Init => TypeOK
  <2> SUFFICES ASSUME Init PROVE TypeOK
    OBVIOUS
  <2>1. /\ base \in BOOLEAN /\ tried \in BOOLEAN /\ torn \in BOOLEAN
        /\ alTorn \in BOOLEAN /\ sawBackhaul \in BOOLEAN
        /\ aps \in BOOLEAN /\ backhaul \in BOOLEAN /\ lease \in BOOLEAN
    BY DEF Init
  <2>2. 1 \in 1 .. Last
    BY DEF Last
  <2> QED BY WifiAssumption, <2>1, <2>2 DEF Init, TypeOK, ScriptPcs
<1> QED BY <1>1, TypeStep, PTL DEF Spec

-----------------------------------------------------------------------------
(* The scripts *)

\* What the devices, the air, the network and the agent leave alone.
Quiet == UNCHANGED <<image, addr, wifi, i, base, torn, nvVars>>

\* Every step is a command of OneWifi's unit, its end, a power loss or none
\* of its business.
LEMMA QuietSteps ==
    ASSUME [Next]_vars
    PROVE  \/ Quiet
           \/ WifiUnit \/ WifiExit \/ WifiKill \/ PowerLoss
<1>1. CASE UNCHANGED vars BY <1>1 DEF vars, wifiVars, Quiet
<1>2. CASE AgentUnit
  BY <1>2 DEF AgentUnit, AgentBegin, AgentSees, AgentJoin, AgentRun, AgentTimeout,
              agentFrame, wifiVars, Quiet
<1>3. CASE AgentExit BY <1>3 DEF AgentExit, agentFrame, wifiVars, Quiet
<1>4. CASE AgentKill BY <1>4 DEF AgentKill, agentFrame, wifiVars, Quiet
<1>5. CASE PhyAppears BY <1>5 DEF PhyAppears, Quiet
<1>6. CASE Air BY <1>6 DEF Air, wifiVars, Quiet
<1>7. CASE Network BY <1>7 DEF Network, wifiVars, Quiet
<1>8. CASE TimePasses BY <1>8 DEF TimePasses, Quiet
<1> QED BY <1>1, <1>2, <1>3, <1>4, <1>5, <1>6, <1>7, <1>8 DEF Next

\* A command belongs to the script of the image.
LEMMA FlowStep == TypeOK /\ FlowInv /\ [Next]_vars => FlowInv'
<1> SUFFICES ASSUME TypeOK, FlowInv, [Next]_vars PROVE FlowInv'
  OBVIOUS
<1> USE DEF FlowInv, Mesh, unitFrame
<1>0. CASE Quiet BY <1>0 DEF Quiet
<1>1. CASE WifiBegin BY <1>1 DEF WifiBegin
<1>2. CASE CopyDefaults BY <1>2 DEF CopyDefaults
<1>20. CASE WifiGiveUp BY <1>20 DEF WifiGiveUp
<1>3. CASE WifiRun BY <1>3 DEF WifiRun
<1>4. CASE WifiExit BY <1>4 DEF WifiExit
<1>5. CASE WifiKill BY <1>5 DEF WifiKill
<1>6. CASE Gateway
  BY <1>6 DEF Gateway, GwWait, GwTimeout, GwAdd, GwSet, GwMap, GwNext, OtherAdd
<1>7. CASE MeshCfg BY <1>7 DEF MeshCfg
<1>8. CASE MeshMap BY <1>8 DEF MeshMap
<1>9. CASE MeshTest BY <1>9 DEF MeshTest
<1>10. CASE MeshAdd
  BY <1>10 DEF MeshAdd, Add, TypeOK, Last, Ifaces
<1>11. CASE MeshBase BY <1>11 DEF MeshBase
<1>12. CASE MeshSet BY <1>12 DEF MeshSet
<1>13. CASE MeshAl BY <1>13 DEF MeshAl
<1>14. CASE PowerLoss BY <1>14 DEF PowerLoss
<1> QED
  BY QuietSteps, <1>0, <1>20, <1>1, <1>2, <1>3, <1>4, <1>5, <1>6, <1>7, <1>8, <1>9, <1>10,
     <1>11, <1>12, <1>13, <1>14
  DEF WifiUnit, MeshNode

\* The copy, wherever it is cut short, takes EasymeshCfg.json first.
LEMMA CfgStep == FlowInv /\ CfgInv /\ [Next]_vars => CfgInv'
<1> SUFFICES ASSUME FlowInv, CfgInv, [Next]_vars PROVE CfgInv'
  OBVIOUS
<1> USE DEF FlowInv, CfgInv, MapMeansCfg, Mesh, unitFrame, nvVars
<1>0. CASE Quiet BY <1>0 DEF Quiet
<1>1. CASE WifiBegin BY <1>1 DEF WifiBegin
<1>2. CASE CopyDefaults BY <1>2 DEF CopyDefaults, Copy
<1>20. CASE WifiGiveUp BY <1>20 DEF WifiGiveUp
<1>3. CASE WifiRun BY <1>3 DEF WifiRun
<1>4. CASE WifiExit BY <1>4 DEF WifiExit
<1>5. CASE WifiKill BY <1>5 DEF WifiKill
<1>6. CASE GwWait BY <1>6 DEF GwWait
<1>7. CASE GwTimeout BY <1>7 DEF GwTimeout
<1>8. CASE GwAdd BY <1>8 DEF GwAdd, GwNext
<1>9. CASE GwSet BY <1>9 DEF GwSet, GwNext
<1>10. CASE GwMap BY <1>10 DEF GwMap, Copy
<1>19. CASE OtherAdd BY <1>19 DEF OtherAdd
<1>11. CASE MeshCfg BY <1>11 DEF MeshCfg
<1>12. CASE MeshMap BY <1>12 DEF MeshMap
<1>13. CASE MeshTest BY <1>13 DEF MeshTest
<1>14. CASE MeshAdd BY <1>14 DEF MeshAdd
<1>15. CASE MeshBase BY <1>15 DEF MeshBase
<1>16. CASE MeshSet BY <1>16 DEF MeshSet
<1>17. CASE MeshAl BY <1>17 DEF MeshAl
<1>18. CASE PowerLoss BY <1>18 DEF PowerLoss
<1> QED
  BY QuietSteps, <1>0, <1>20, <1>1, <1>2, <1>3, <1>4, <1>5, <1>6, <1>7, <1>8, <1>9, <1>10,
     <1>11, <1>12, <1>13, <1>14, <1>15, <1>16, <1>17, <1>18, <1>19
  DEF WifiUnit, Gateway, MeshNode

\* The configuration is never taken for complete without EasymeshCfg.json.
THEOREM MapImpliesCfg == Spec => []MapMeansCfg
<1>1. Init => FlowInv /\ CfgInv
  BY DEF Init, FlowInv, CfgInv, MapMeansCfg
<1>2. FlowInv /\ CfgInv => MapMeansCfg
  BY DEF CfgInv
<1> QED BY <1>1, <1>2, TypeCorrect, FlowStep, CfgStep, PTL DEF Spec

-----------------------------------------------------------------------------
(* The addresses *)

\* Adding an interface gives it the driver's address, setting its address the
\* right one; the others stay.
LEMMA AddEffect ==
    ASSUME TypeOK, Add
    PROVE  /\ \A n \in Ifaces : n # i => addr'[n] = addr[n]
           /\ addr'[i] \in {addr[i], Given(i)}
BY DEF TypeOK, Add, Last, Ifaces

\* What Set leaves if it works and if it fails.
LEMMA SetEffect ==
    ASSUME TypeOK, Set
    PROVE  /\ \A n \in Ifaces : n # i => addr'[n] = addr[n]
           /\ addr'[i] \in {addr[i], Right(i)}
           /\ ~torn' => ~torn /\ addr'[i] \in {Absent, Right(i)}
<1>1. i \in Ifaces BY DEF TypeOK, Last, Ifaces
<1>2. CASE addr' = [addr EXCEPT ![i] = Right(i)] /\ UNCHANGED torn
  BY <1>1, <1>2 DEF TypeOK
<1>3. CASE UNCHANGED addr /\ torn' = (torn \/ addr[i] # Absent)
  BY <1>3
<1> QED BY <1>2, <1>3 DEF Set

\* Where in the scripts an interface may still have the driver's address.
LEMMA AddrStep == TypeOK /\ FlowInv /\ AddrInv /\ [Next]_vars => AddrInv'
<1> SUFFICES ASSUME TypeOK, FlowInv, AddrInv, [Next]_vars PROVE AddrInv'
  OBVIOUS
<1>i. i \in Ifaces BY DEF TypeOK, Last, Ifaces
<1> USE DEF FlowInv, AddrInv, Settled, Right, Given, PhyOf, Mesh, unitFrame
<1>0. CASE Quiet BY <1>0 DEF Quiet
<1>1. CASE WifiBegin BY <1>1 DEF WifiBegin
<1>2. CASE CopyDefaults BY <1>2 DEF CopyDefaults
<1>20. CASE WifiGiveUp BY <1>20 DEF WifiGiveUp
<1>3. CASE WifiRun BY <1>3 DEF WifiRun
<1>4. CASE WifiExit BY <1>4 DEF WifiExit
<1>5. CASE WifiKill BY <1>5 DEF WifiKill
<1>6. CASE GwWait BY <1>6 DEF GwWait
<1>7. CASE GwTimeout BY <1>7 DEF GwTimeout
<1>8. CASE GwAdd BY <1>8, <1>i, AddEffect DEF GwAdd, GwNext
<1>9. CASE GwSet BY <1>9, <1>i, SetEffect DEF GwSet, GwNext
<1>10. CASE GwMap BY <1>10 DEF GwMap
<1>19. CASE OtherAdd BY <1>19, <1>i, AddEffect DEF OtherAdd, TypeOK, Last
<1>11. CASE MeshCfg BY <1>11 DEF MeshCfg
<1>12. CASE MeshMap BY <1>12 DEF MeshMap
<1>13. CASE MeshTest BY <1>13 DEF MeshTest
<1>14. CASE MeshAdd BY <1>14, <1>i, AddEffect DEF MeshAdd, Ifaces
<1>15. CASE MeshBase BY <1>15 DEF MeshBase, Ifaces
<1>16. CASE MeshSet BY <1>16, <1>i, SetEffect DEF MeshSet, Ifaces
<1>17. CASE MeshAl BY <1>17 DEF MeshAl
<1>18. CASE PowerLoss BY <1>18 DEF PowerLoss
<1> QED
  BY QuietSteps, <1>0, <1>20, <1>1, <1>2, <1>3, <1>4, <1>5, <1>6, <1>7, <1>8, <1>9, <1>10,
     <1>11, <1>12, <1>13, <1>14, <1>15, <1>16, <1>17, <1>18, <1>19
  DEF WifiUnit, Gateway, MeshNode

\* The addresses that the scripts work out differ from each other.
LEMMA RightDiffer ==
    \A m, n \in Ifaces : m # n => Right(m) # Right(n)
BY DEF Ifaces, Right, Given, PhyOf

\* Equal addresses only come from the named window, on every image.
THEOREM NoSharedAddress == Spec => []AddressesDiffer
<1>1. Init => FlowInv /\ AddrInv
  BY DEF Init, FlowInv, AddrInv, Settled, Ifaces
<1>2. FlowInv /\ AddrInv => AddressesDiffer
  <2> SUFFICES ASSUME FlowInv, AddrInv, wifi = "run", ~torn,
                      NEW m \in Ifaces, NEW n \in Ifaces, m # n, addr[m] # Absent
               PROVE  addr[m] # addr[n]
    BY DEF AddressesDiffer
  <2>1. Settled(m) /\ Settled(n)
    BY DEF AddrInv
  <2> QED BY <2>1, RightDiffer DEF Settled
<1> QED BY <1>1, <1>2, TypeCorrect, FlowStep, AddrStep, PTL DEF Spec

-----------------------------------------------------------------------------
(* AL_MAC_ADDR and the agent *)

\* Without a failure that counts, wifi0 and wifi1.3 get their addresses.
LEMMA AddForAl ==
    ASSUME TypeOK, Add, ~alTorn', i \in {1, 7}
    PROVE  ~alTorn /\ addr'[i] # Absent
<1>1. i \in Ifaces BY DEF Ifaces
<1>2. ForAlMac("add", i) BY DEF ForAlMac
<1>3. CASE addr' = [addr EXCEPT ![i] = Given(i)] /\ UNCHANGED alTorn
  BY <1>1, <1>3 DEF TypeOK, Given, PhyOf, Absent
<1>4. CASE /\ alTorn' = (alTorn \/ (addr[i] = Absent /\ ForAlMac("add", i)))
           /\ UNCHANGED addr
  BY <1>2, <1>4
<1> QED BY <1>3, <1>4 DEF Add

\* Without a torn step the backhaul, interface 7, gets its own address.
LEMMA SetForAl ==
    ASSUME TypeOK, Set, ~alTorn'
    PROVE  ~alTorn /\ (i = 7 => addr'[i] = Right(7))
<1>1. i \in Ifaces BY DEF TypeOK, Last, Ifaces
<1>2. CASE addr' = [addr EXCEPT ![i] = Right(i)] /\ UNCHANGED alTorn
  BY <1>1, <1>2 DEF TypeOK
<1>3. CASE alTorn' = (alTorn \/ ForAlMac("set", i))
  BY <1>3 DEF ForAlMac
<1> QED BY <1>2, <1>3 DEF Set

\* alTorn is never taken back.
LEMMA AlTornStays == ASSUME TypeOK, [Next]_vars, ~alTorn' PROVE ~alTorn
<1>1. ASSUME Add PROVE ~alTorn BY <1>1 DEF Add
<1>2. ASSUME Set PROVE ~alTorn BY <1>2 DEF Set
<1> QED
  BY <1>1, <1>2, QuietSteps
  DEF Quiet, nvVars, WifiUnit, WifiBegin, WifiGiveUp, CopyDefaults, WifiRun, WifiExit, WifiKill,
      Gateway, GwWait, GwTimeout, GwAdd, GwSet, GwMap, OtherAdd, MeshNode, MeshCfg, MeshMap,
      MeshTest, MeshAdd, MeshBase, MeshSet, MeshAl, PowerLoss

\* Each command on the way to AL_MAC_ADDR achieves its part or is marked as torn.
LEMMA AlStep ==
    TypeOK /\ FlowInv /\ CfgInv /\ AddrInv /\ AlInv /\ [Next]_vars => AlInv'
<1> SUFFICES ASSUME TypeOK, FlowInv, CfgInv, AddrInv, AlInv, [Next]_vars,
                    Mesh', ~alTorn'
             PROVE  AlInv'
  BY DEF AlInv
<1>i. i \in Ifaces BY DEF TypeOK, Last, Ifaces
<1>a. ~alTorn BY AlTornStays
<1> USE <1>a DEF FlowInv, AlInv, Right, Mesh, unitFrame, nvVars
<1>0. CASE Quiet BY <1>0 DEF Quiet
<1>1. CASE WifiBegin BY <1>1 DEF WifiBegin
<1>2. CASE CopyDefaults BY <1>2 DEF CopyDefaults, Copy
<1>20. CASE WifiGiveUp BY <1>20 DEF WifiGiveUp
<1>3. CASE WifiRun BY <1>3 DEF WifiRun
<1>4. CASE WifiExit BY <1>4 DEF WifiExit
<1>5. CASE WifiKill BY <1>5 DEF WifiKill
<1>6. CASE Gateway
  BY <1>6 DEF Gateway, GwWait, GwTimeout, GwAdd, GwSet, GwMap, OtherAdd, Copy
<1>11. CASE MeshCfg BY <1>11 DEF MeshCfg, Zero, Blank
<1>12. CASE MeshMap BY <1>12 DEF MeshMap, CfgInv
<1>13. CASE MeshTest BY <1>13 DEF MeshTest
<1>14. CASE MeshAdd BY <1>14, <1>i, AddEffect, AddForAl DEF MeshAdd, Ifaces
<1>15. CASE MeshBase
  <2>1. base' BY <1>15 DEF MeshBase
  <2>2. /\ wifi' = "set" /\ addr'[1] # Absent /\ addr'[7] # Absent
        /\ UNCHANGED <<image, files, alMac>>
    BY <1>15 DEF MeshBase
  <2> QED BY <2>1, <2>2
<1>16. CASE MeshSet
  <2>1. addr'[1] # Absent /\ addr'[7] # Absent
    BY <1>16, <1>i, SetEffect DEF MeshSet, Ifaces, Given, PhyOf, Absent
  <2>2. wifi' = "al" => addr'[7] = Right(7)
    BY <1>16, <1>i, SetForAl DEF MeshSet, Ifaces
  <2>3. base' BY <1>16 DEF MeshSet
  <2>4. wifi' \in {"set", "al", "end"} /\ UNCHANGED <<image, files, alMac>>
    BY <1>16 DEF MeshSet
  <2> QED BY <2>1, <2>2, <2>3, <2>4
<1>17. CASE MeshAl BY <1>17 DEF MeshAl, Absent, Zero, Blank
<1>18. CASE PowerLoss BY <1>18 DEF PowerLoss
<1> QED
  BY QuietSteps, <1>0, <1>20, <1>1, <1>2, <1>3, <1>4, <1>5, <1>6, <1>11, <1>12, <1>13,
     <1>14, <1>15, <1>16, <1>17, <1>18
  DEF WifiUnit, MeshNode

\* AL_MAC_ADDR is the backhaul's unless one of the four commands failed.
THEOREM AlMacRight == Spec => []AlMacIsBackhaul
<1>1. Init => FlowInv /\ CfgInv /\ AddrInv /\ AlInv
  BY DEF Init, FlowInv, CfgInv, MapMeansCfg, AddrInv, Settled, AlInv, Ifaces
<1>2. CfgInv /\ AlInv => AlMacIsBackhaul
  BY DEF CfgInv, AlInv, AlMacIsBackhaul
<1> QED
  BY <1>1, <1>2, TypeCorrect, FlowStep, CfgStep, AddrStep, AlStep, PTL DEF Spec

\* InterfaceMap.json is tried before the interfaces are tested.
LEMMA MapStep == FlowInv /\ MapInv /\ [Next]_vars => MapInv'
<1> SUFFICES ASSUME FlowInv, MapInv, [Next]_vars PROVE MapInv'
  OBVIOUS
<1> USE DEF FlowInv, MapInv, Mesh, unitFrame, nvVars
<1>0. CASE Quiet BY <1>0 DEF Quiet
<1>1. CASE WifiBegin BY <1>1 DEF WifiBegin
<1>2. CASE CopyDefaults BY <1>2 DEF CopyDefaults, Copy
<1>20. CASE WifiGiveUp BY <1>20 DEF WifiGiveUp
<1>3. CASE WifiRun BY <1>3 DEF WifiRun
<1>4. CASE WifiExit BY <1>4 DEF WifiExit
<1>5. CASE WifiKill BY <1>5 DEF WifiKill
<1>6. CASE Gateway
  BY <1>6 DEF Gateway, GwWait, GwTimeout, GwAdd, GwSet, GwMap, GwNext, OtherAdd, Copy
<1>7. CASE MeshCfg BY <1>7 DEF MeshCfg
<1>8. CASE MeshMap BY <1>8 DEF MeshMap
<1>9. CASE MeshTest BY <1>9 DEF MeshTest
<1>10. CASE MeshAdd BY <1>10 DEF MeshAdd
<1>11. CASE MeshBase BY <1>11 DEF MeshBase
<1>12. CASE MeshSet BY <1>12 DEF MeshSet
<1>13. CASE MeshAl BY <1>13 DEF MeshAl
<1>14. CASE PowerLoss BY <1>14 DEF PowerLoss
<1> QED
  BY QuietSteps, <1>0, <1>1, <1>2, <1>20, <1>3, <1>4, <1>5, <1>6, <1>7, <1>8, <1>9, <1>10,
     <1>11, <1>12, <1>13, <1>14
  DEF WifiUnit, MeshNode

\* Only two commands write AL_MAC_ADDR: the copy, which is made while
\* InterfaceMap.json is missing, and the one that replaces zero.
LEMMA AlMacWrites ==
    ASSUME FlowInv, MapInv, [Next]_vars,
           alMac \notin {Zero, Blank}, "InterfaceMap.json" \notin cpFailed
    PROVE  alMac' = alMac
<1>1. CASE MeshCfg
  BY <1>1 DEF FlowInv, MapInv, MeshCfg, nvVars
<1>2. CASE MeshAl
  BY <1>2 DEF MeshAl
<1> QED
  BY <1>1, <1>2, QuietSteps
  DEF Quiet, nvVars, WifiUnit, WifiBegin, WifiGiveUp, CopyDefaults, WifiRun, WifiExit,
      WifiKill, Gateway, GwWait, GwTimeout, GwAdd, GwSet, GwMap, OtherAdd, MeshNode, MeshMap,
      MeshTest, MeshAdd, MeshBase, MeshSet, PowerLoss

\* An address in AL_MAC_ADDR is never replaced unless cp failed on
\* InterfaceMap.json, whatever fails, is killed or loses power.  It is the
\* order of the copy that counts: InterfaceMap.json is on flash before there
\* is an address to lose.
THEOREM AlMacKept == Spec => AlMacStays
<1>1. Init => FlowInv /\ MapInv
  BY DEF Init, FlowInv, MapInv
<1>2. FlowInv /\ MapInv /\ [Next]_vars =>
        [alMac \notin {Zero, Blank} /\ "InterfaceMap.json" \notin cpFailed
            => alMac' = alMac]_vars
  BY AlMacWrites
<1> QED
  BY <1>1, <1>2, TypeCorrect, FlowStep, MapStep, PTL DEF Spec, AlMacStays

\* The agent finds a channel only if the backhaul is associated: AL_MAC_ADDR is
\* the backhaul's address, and no other interface has it.
LEMMA ShownIsBackhaul ==
    ASSUME TypeOK, AddrInv, AgentInv, image = "ext", ~alTorn, Cardinality(Shown) = 1
    PROVE  backhaul
<1>1. Shown # {}
  BY FS_EmptySet
<1>2. PICK n \in Ifaces : addr[n] = agentMac /\ IF n = 7 THEN backhaul ELSE aps
  BY <1>1 DEF Shown
<1>3. agentMac \in {Zero, Blank, Right(7)}
  BY DEF AgentInv
<1>4. addr[n] \in {Absent, Given(n), Right(n)}
  BY DEF AddrInv
<1>5. n = 7
  BY <1>2, <1>3, <1>4 DEF Ifaces, Right, Given, PhyOf, Mesh, Absent, Zero, Blank
<1> QED BY <1>2, <1>5

\* The agent's waiting loops are left only with the backhaul associated.
LEMMA AgentStep ==
    TypeOK /\ AddrInv /\ AlInv /\ AgentInv /\ [Next]_vars => AgentInv'
<1> SUFFICES ASSUME TypeOK, AddrInv, AlInv, AgentInv, [Next]_vars
             PROVE  AgentInv'
  OBVIOUS
<1>a. ~alTorn' => ~alTorn BY AlTornStays
<1>0. CASE UNCHANGED vars
  BY <1>0 DEF AgentInv, vars, nvVars, airVars, agentVars, Right, Mesh
<1>n. Next => /\ backhaul' => sawBackhaul'
              /\ sawBackhaul /\ agent # "stopped" /\ agent' # "stopped" => sawBackhaul'
  BY DEF Next, Remember
<1> USE <1>a DEF AgentInv, Right, Mesh, agentFrame, nvVars, airVars, wifiVars
<1>1. CASE Next /\ UNCHANGED <<image, backhaul, agentVars>>
  BY <1>1, <1>n DEF agentVars
<1>2. CASE Next /\ WifiExit BY <1>2, <1>n DEF WifiExit, agentVars
<1>3. CASE Next /\ AgentBegin
  BY <1>3, <1>n DEF AgentBegin, AlInv
<1>4. CASE Next /\ AgentSees
  BY <1>4, <1>n, ShownIsBackhaul DEF AgentSees
<1>5. CASE Next /\ AgentJoin BY <1>5, <1>n DEF AgentJoin
<1>6. CASE Next /\ AgentRun BY <1>6, <1>n DEF AgentRun
<1>7. CASE Next /\ (AgentTimeout \/ AgentExit \/ AgentKill)
  BY <1>7, <1>n DEF AgentTimeout, AgentExit, AgentKill
<1>8. CASE Next /\ Air BY <1>8, <1>n DEF Air, agentVars
<1>9. CASE Next /\ Network BY <1>9, <1>n DEF Network
<1>10. CASE Next /\ PowerLoss BY <1>10, <1>n DEF PowerLoss
<1>11. ASSUME WifiUnit \/ WifiKill \/ PhyAppears \/ TimePasses
       PROVE  UNCHANGED <<image, backhaul, agentVars>>
  BY <1>11
  DEF WifiUnit, WifiBegin, WifiGiveUp, CopyDefaults, WifiRun, WifiKill, Gateway, GwWait, GwTimeout,
      GwAdd, GwSet, GwMap, OtherAdd, MeshNode, MeshCfg, MeshMap, MeshTest, MeshAdd, MeshBase,
      MeshSet, MeshAl, PhyAppears, TimePasses, unitFrame
<1> QED
  BY <1>0, <1>1, <1>2, <1>3, <1>4, <1>5, <1>6, <1>7, <1>8, <1>9, <1>10, <1>11
  DEF Next, AgentUnit

\* The agent runs only after the backhaul was associated during this start.
THEOREM AgentNeedsBackhaul == Spec => []AgentOnBackhaul
<1>1. Init => FlowInv /\ CfgInv /\ AddrInv /\ AlInv /\ AgentInv
  BY DEF Init, FlowInv, CfgInv, MapMeansCfg, AddrInv, Settled, AlInv, AgentInv, Ifaces
<1>2. AgentInv => AgentOnBackhaul
  BY DEF AgentInv, AgentOnBackhaul
<1> QED
  BY <1>1, <1>2, TypeCorrect, FlowStep, CfgStep, AddrStep, AlStep, AgentStep, PTL
  DEF Spec

-----------------------------------------------------------------------------
(* What the names of the addresses stand for *)

\* The scripts touch no interface beyond those of the image.
BeyondInv == \A n \in Ifaces : n > Last => addr[n] = Absent

\* Interfaces beyond those of the image are never created.
LEMMA BeyondStep == TypeOK /\ BeyondInv /\ [Next]_vars => BeyondInv'
<1> SUFFICES ASSUME TypeOK, BeyondInv, [Next]_vars PROVE BeyondInv'
  OBVIOUS
<1>1. image' = image /\ (addr' = addr \/ Add \/ Set \/ PowerLoss)
  BY DEF Next, vars, WifiUnit, WifiBegin, WifiGiveUp, CopyDefaults, WifiRun, WifiExit, WifiKill,
         Gateway, GwWait, GwTimeout, GwAdd, GwSet, GwMap, OtherAdd, MeshNode, MeshCfg,
         MeshMap, MeshTest, MeshAdd, MeshBase, MeshSet, MeshAl, AgentUnit, AgentBegin,
         AgentSees, AgentJoin, AgentRun, AgentTimeout, AgentExit, AgentKill, PhyAppears,
         Air, Network, TimePasses, PowerLoss, unitFrame, agentFrame, wifiVars
<1>2. Last' = Last /\ Last \in Nat /\ i \in 1 .. Last /\ i \in Nat
  BY <1>1 DEF Last, Mesh, TypeOK
<1>3. ASSUME NEW n \in Ifaces, n > Last PROVE addr'[n] = Absent
  <2>1. n # i /\ addr[n] = Absent
    BY <1>2, <1>3 DEF BeyondInv, Ifaces
  <2>2. CASE PowerLoss
    BY <2>2 DEF PowerLoss
  <2> QED BY <1>1, <2>1, <2>2, AddEffect, SetEffect
<1> QED BY <1>2, <1>3 DEF BeyondInv

\* The names of addresses that an image uses: those of two devices, of one
\* device plus a number, or of two devices and local ones.
InUse ==
    IF Mesh THEN {<<"phy0", 0>>, <<"phy1", 0>>} \cup ({"local"} \X (1 .. 6))
    ELSE IF image = "other" THEN {<<"phy0", 0>>, <<"phy1", 0>>}
    ELSE {"phy0"} \X (0 .. 2)

NamesUsed == \A n \in Ifaces : addr[n] \in InUse \cup {Absent}

\* No interface ever has another address, so that MacCalcProofs can tell what
\* the names stand for.
THEOREM OnlyTheseNames == Spec => []NamesUsed
<1>1. Init => FlowInv /\ AddrInv /\ BeyondInv
  BY DEF Init, FlowInv, AddrInv, Settled, BeyondInv, Ifaces
<1>2. ASSUME TypeOK, AddrInv, BeyondInv PROVE NamesUsed
  <2> SUFFICES ASSUME NEW n \in Ifaces, addr[n] # Absent PROVE addr[n] \in InUse
    BY DEF NamesUsed
  <2>1. n \in 1 .. Last /\ addr[n] \in {Given(n), Right(n)} /\ Last \in Nat
    BY <1>2 DEF AddrInv, BeyondInv, Last, Ifaces
  <2>2. CASE Mesh
    BY <2>1, <2>2 DEF Last, Given, Right, PhyOf, InUse, Mesh
  <2>3. CASE image = "other"
    BY <2>1, <2>3 DEF Last, Given, Right, PhyOf, InUse, Mesh
  <2>4. CASE ~Mesh /\ image # "other"
    <3>1. n - 1 \in 0 .. 2
      BY <2>1, <2>4 DEF Last
    <3> QED BY <2>1, <2>4, <3>1 DEF Given, Right, PhyOf, InUse
  <2> QED BY <2>2, <2>3, <2>4
<1> QED
  BY <1>1, <1>2, TypeCorrect, FlowStep, AddrStep, BeyondStep, PTL DEF Spec
-----------------------------------------------------------------------------
(* Every start ends *)

\* How many commands a start still takes at most, until OneWifi runs or the
\* start has failed.
Rest ==
    IF Mesh
    THEN [defaults |-> 20, cfg |-> 19, map |-> 18, test |-> 17, add |-> 17 - i,
          base |-> 9, set |-> 10 - i, al |-> 2, end |-> 1,
          wait |-> 0, run |-> 0, stopped |-> 0, failed |-> 0][wifi]
    ELSE [wait |-> 11, add |-> 12 - 2 * i, set |-> 11 - 2 * i, map |-> 3,
          defaults |-> 2, end |-> 1, cfg |-> 0, test |-> 0, base |-> 0, al |-> 0,
          run |-> 0, stopped |-> 0, failed |-> 0][wifi]

\* Which script is where, and which interface it works on.
RestInv ==
    /\ FlowInv
    /\ Mesh /\ wifi = "set" => i >= 2

\* On an EasyMesh image the addresses are set from the second interface on.
LEMMA RestInvStep == TypeOK /\ RestInv /\ [Next]_vars => RestInv'
<1> SUFFICES ASSUME TypeOK, RestInv, [Next]_vars PROVE RestInv'
  OBVIOUS
<1>1. FlowInv' BY FlowStep DEF RestInv
<1>2. (Mesh /\ wifi = "set" => i >= 2)'
  BY QuietSteps DEF RestInv, Quiet, TypeOK, Mesh, Last, WifiUnit, WifiBegin, WifiGiveUp, CopyDefaults,
     WifiRun, WifiExit, WifiKill, Gateway, GwWait, GwTimeout, GwAdd, GwSet, GwMap, GwNext,
     OtherAdd, MeshNode, MeshCfg, MeshMap, MeshTest, MeshAdd, MeshBase, MeshSet, MeshAl,
     PowerLoss, unitFrame
<1> QED BY <1>1, <1>2 DEF RestInv

\* A start gets nearer to its end with every command, and what happens around
\* it never sets it back.
EndsNearer ==
    /\ WifiUnit /\ wifi # "stopped" => Rest' < Rest
    /\ wifi # "stopped" => Rest' <= Rest

\* The measure is bounded.
LEMMA RestType == TypeOK /\ RestInv => Rest \in 0 .. 20
<1> SUFFICES ASSUME TypeOK, RestInv PROVE Rest \in 0 .. 20
  OBVIOUS
<1>1. i \in 1 .. 7 /\ (~Mesh => i \in 1 .. 3)
  BY DEF TypeOK, Last
<1>2. wifi \in ScriptPcs \cup {"stopped", "run", "failed"}
  BY DEF TypeOK
<1>3. CASE Mesh
  BY <1>1, <1>2, <1>3 DEF Rest, ScriptPcs, RestInv
<1>4. CASE ~Mesh
  BY <1>1, <1>2, <1>4 DEF Rest, ScriptPcs
<1> QED BY <1>3, <1>4

\* Every command lowers the measure, and nothing raises it but a new start.
LEMMA RestStep == TypeOK /\ RestInv /\ [Next]_vars => EndsNearer
<1>0. (TypeOK /\ RestInv => Rest \in 0 .. 20)'
  BY RestType, PTL
<1> SUFFICES ASSUME TypeOK, RestInv, [Next]_vars, wifi # "stopped"
             PROVE  /\ WifiUnit => Rest' < Rest
                    /\ Rest' <= Rest
  BY DEF EndsNearer
<1>1. /\ i \in 1 .. 7 /\ (~Mesh => i \in 1 .. 3)
      /\ wifi \in ScriptPcs \cup {"stopped", "run", "failed"} /\ Rest \in 0 .. 20
  BY RestType DEF TypeOK, Last
<1>r. Rest' \in 0 .. 20
  <2>1. TypeOK' /\ RestInv' BY TypeStep, RestInvStep
  <2> QED BY <1>0, <2>1
<1>m. Mesh' = Mesh /\ Last' = Last
  <2>1. image' = image
    BY QuietSteps DEF Quiet, WifiUnit, WifiBegin, WifiGiveUp, CopyDefaults,
     WifiRun, WifiExit, WifiKill, Gateway, GwWait, GwTimeout, GwAdd, GwSet, GwMap, GwNext,
     OtherAdd, MeshNode, MeshCfg, MeshMap, MeshTest, MeshAdd, MeshBase, MeshSet, MeshAl,
     PowerLoss, unitFrame
  <2> QED BY <2>1 DEF Mesh, Last
<1>2. CASE ~WifiUnit
  <2>1. wifi' = "stopped" \/ (wifi' = wifi /\ i' = i)
    <3>1. Quiet \/ WifiExit \/ WifiKill \/ PowerLoss
      BY <1>2, QuietSteps
    <3>2. Quiet => wifi' = wifi /\ i' = i
      BY DEF Quiet
    <3>3. WifiExit \/ WifiKill \/ PowerLoss => wifi' = "stopped"
      BY DEF WifiExit, WifiKill, PowerLoss
    <3> QED BY <3>1, <3>2, <3>3
  <2>2. wifi' = "stopped" => Rest' = 0
    BY DEF Rest
  <2>3. wifi' = wifi /\ i' = i => Rest' = Rest
    BY <1>m DEF Rest
  <2> QED BY <1>1, <1>2, <2>1, <2>2, <2>3
<1>3. ASSUME WifiUnit, Mesh PROVE Rest' < Rest
  <2> USE <1>1, <1>3, <1>m DEF Rest
  <2>1. CASE CopyDefaults BY <2>1 DEF CopyDefaults
  <2>2. CASE WifiRun BY <2>2 DEF WifiRun
  <2>3. CASE MeshCfg BY <2>3 DEF MeshCfg
  <2>4. CASE MeshMap BY <2>4 DEF MeshMap
  <2>5. CASE MeshTest BY <2>5 DEF MeshTest
  <2>6. CASE MeshAdd BY <2>6 DEF MeshAdd
  <2>7. CASE MeshBase BY <2>7 DEF MeshBase
  <2>8. CASE MeshSet BY <2>8 DEF MeshSet, RestInv
  <2>9. CASE MeshAl BY <2>9 DEF MeshAl
  <2> QED
    BY <2>1, <2>2, <2>3, <2>4, <2>5, <2>6, <2>7, <2>8, <2>9
    DEF WifiUnit, WifiBegin, WifiGiveUp, MeshNode, Gateway, GwWait, GwTimeout, GwAdd, GwSet, GwMap,
        OtherAdd, RestInv, FlowInv, Mesh
<1>4. ASSUME WifiUnit, ~Mesh PROVE Rest' < Rest
  <2> USE <1>1, <1>4, <1>m DEF Rest
  <2>1. CASE CopyDefaults BY <2>1 DEF CopyDefaults
  <2>2. CASE WifiRun BY <2>2 DEF WifiRun
  <2>3. CASE GwWait BY <2>3, RestInvStep DEF GwWait
  <2>4. CASE GwTimeout BY <2>4 DEF GwTimeout
  <2>5. CASE GwAdd BY <2>5 DEF GwAdd, GwNext
  <2>6. CASE GwSet BY <2>6 DEF GwSet, GwNext
  <2>7. CASE GwMap BY <2>7 DEF GwMap
  <2>8. CASE OtherAdd BY <2>8 DEF OtherAdd
  <2> QED
    BY <2>1, <2>2, <2>3, <2>4, <2>5, <2>6, <2>7, <2>8
    DEF WifiUnit, WifiBegin, WifiGiveUp, MeshNode, Gateway, MeshCfg, MeshMap, MeshTest, MeshAdd,
        MeshBase, MeshSet, MeshAl, RestInv, FlowInv
<1> QED BY <1>1, <1>r, <1>2, <1>3, <1>4

\* No script runs for ever: a start of onewifi.service ends after at most
\* twenty commands, with OneWifi running or with a failed start, whichever
\* commands fail and whatever devices appear meanwhile.
THEOREM StartEnds == Spec => [](Rest \in 0 .. 20) /\ [][EndsNearer]_vars
<1>1. Init => RestInv
  BY DEF Init, RestInv, FlowInv
<1>2. Spec => []RestInv
  BY <1>1, TypeCorrect, RestInvStep, PTL DEF Spec
<1> QED BY <1>2, TypeCorrect, RestType, RestStep, PTL DEF Spec
=============================================================================
