-------------------------- MODULE EthSwPortProofs ---------------------------
(* Theorems about EthSwPort and their proofs. *)
EXTENDS EthSwPort, TLAPS

\* What SetLink has done is what SetCache is about to remember, and otherwise
\* admin_status is the complement of the kernel's flag; both as long as the
\* flag was set on this eth1.
CacheInv ==
    /\ up => present
    /\ settled =>
          /\ present
          /\ pc # "cache" => (admin_status <=> ~up)
          /\ pc = "cache" => (up <=> req.status = "Up")

\* What was read from the path still holds, unless eth1 has moved.
PathInv == asked # 0 /\ ~moved => (here <=> PortOfEth1 = asked)

IInv == TypeOK /\ CacheInv /\ PathInv

\* Before the first call the arguments are a request, and no pipe is open.
LEMMA Blank ==
    [port |-> 0, status |-> "invalid"] \in Request /\ 0 \in 0 .. MaxPipes
BY PipeAssumption DEF Request, AnyPort, AnyStatus

\* The HAL starts in step with the kernel.
LEMMA InitIInv == Init => IInv
<1>1. Init => TypeOK
  <2> SUFFICES ASSUME Init PROVE TypeOK
    OBVIOUS
  <2>1. settled \in BOOLEAN /\ moved \in BOOLEAN /\ here \in BOOLEAN
    BY DEF Init
  <2>2. admin_status \in BOOLEAN /\ carrier \in BOOLEAN
    BY DEF Init
  <2>3. asked \in 0 .. 4 /\ pipes \in 0 .. MaxPipes
    BY Blank DEF Init
  <2> QED BY <2>1, <2>2, <2>3, Blank DEF Init, TypeOK
<1>2. Init => CacheInv
  BY DEF Init, CacheInv
<1>3. Init => PathInv
  BY DEF Init, PathInv
<1> QED
  BY <1>1, <1>2, <1>3 DEF IInv

\* The functions that read and return in one step.
Other ==
    \/ \E port \in AnyPort : GetPortStatus(port) \/ PortCfg(port)
    \/ LocatePortByMacAddress
    \/ \E name \in WanName : GetEthWanLinkStatus(name)

\* They change nothing but what they return.
LEMMA OtherFrame == Other => UNCHANGED onceFrame
BY DEF Other, GetPortStatus, PortCfg, LocatePortByMacAddress, GetEthWanLinkStatus

\* Every step of the kernel, the agent and the HAL keeps the types.
LEMMA TypeStep == TypeOK /\ [Next]_vars => TypeOK'
<1> SUFFICES ASSUME TypeOK, [Next]_vars PROVE TypeOK'
  OBVIOUS
<1> USE PipeAssumption DEF TypeOK, setVars, getVars, halVars, retVars, devVars
<1>1. ASSUME NEW p \in Paths, Plug(p) PROVE TypeOK'
  <2>1. moved' \in BOOLEAN BY <1>1 DEF Plug
  <2> QED BY <1>1, <2>1 DEF Plug
<1>2. CASE Unplug
  <2>1. moved' \in BOOLEAN BY <1>2 DEF Unplug
  <2> QED BY <1>2, <2>1 DEF Unplug
<1>3. CASE Carrier
  BY <1>3 DEF Carrier
<1>4. CASE AgentRestart
  <2>1. up' \in BOOLEAN /\ settled' \in BOOLEAN
    BY <1>4 DEF AgentRestart
  <2>2. here' \in BOOLEAN /\ moved' \in BOOLEAN /\ admin_status' \in BOOLEAN
    BY <1>4 DEF AgentRestart
  <2> QED BY <1>4, <2>1, <2>2, Blank DEF AgentRestart, Returns
<1>5. ASSUME NEW port \in AnyPort, NEW status \in AnyStatus,
             SetCheck(port, status)
      PROVE  TypeOK'
  BY <1>5 DEF SetCheck, Returns, Request
<1>6. CASE SetRead
  BY <1>6 DEF SetRead, Popen, PopenFails, Returns
<1>7. CASE SetLink
  BY <1>7 DEF SetLink
<1>8. CASE SetCache
  BY <1>8 DEF SetCache, Returns
<1>11. ASSUME NEW port \in AnyPort, GetPath(port) PROVE TypeOK'
  <2>1. here' \in BOOLEAN /\ moved' \in BOOLEAN
    BY <1>11 DEF GetPath
  <2>2. asked' \in 0 .. 4
    BY <1>11 DEF GetPath, Ports
  <2>3. pipes' \in 0 .. MaxPipes
    BY <1>11 DEF GetPath, Popen, PopenFails
  <2> QED BY <1>11, <2>1, <2>2, <2>3 DEF GetPath, Returns, readFrame
<1>12. CASE GetCached
  <2>1. here' \in BOOLEAN /\ moved' \in BOOLEAN BY <1>12 DEF GetCached
  <2> QED BY <1>12, <2>1 DEF GetCached, Returns, readFrame
<1>9. ASSUME Other PROVE TypeOK'
  <2>1. ret' \in {"none", "OK", "ERR"} /\ out' \in {"none", "Up", "Down"}
    BY <1>9 DEF Other, GetPortStatus, PortCfg, LocatePortByMacAddress,
                GetEthWanLinkStatus, Returns
  <2> QED
    BY <1>9, <2>1, OtherFrame DEF onceFrame, readFrame
<1>10. CASE UNCHANGED vars
  BY <1>10 DEF vars
<1> QED
  BY <1>1, <1>2, <1>3, <1>4, <1>5, <1>6, <1>7, <1>8, <1>9, <1>10, <1>11, <1>12
  DEF Next, SetPortAdminStatus, Query, Other, GetPortAdminStatus

\* Every step keeps admin_status and the kernel's flag together, or gives up
\* settled, or is between SetLink and SetCache.
LEMMA CacheStep == IInv /\ [Next]_vars => CacheInv'
<1> SUFFICES ASSUME TypeOK, CacheInv, [Next]_vars PROVE CacheInv'
  BY DEF IInv
<1> USE DEF TypeOK, CacheInv, setVars, halVars, devVars
<1>1. ASSUME NEW p \in Paths, Plug(p) PROVE CacheInv'
  BY <1>1 DEF Plug
<1>2. CASE Unplug
  BY <1>2 DEF Unplug
<1>3. CASE Carrier
  BY <1>3 DEF Carrier
<1>4. CASE AgentRestart
  <2>1. up' => present'
    BY <1>4 DEF AgentRestart
  <2>2. settled' => up'
    BY <1>4 DEF AgentRestart
  <2>3. ~admin_status' /\ pc' # "cache"
    BY <1>4 DEF AgentRestart
  <2> QED BY <2>1, <2>2, <2>3
<1>5. ASSUME NEW port \in AnyPort, NEW status \in AnyStatus,
             SetCheck(port, status)
      PROVE  CacheInv'
  BY <1>5 DEF SetCheck
<1>6. CASE SetRead
  BY <1>6 DEF SetRead
<1>7. CASE SetLink
  BY <1>7 DEF SetLink
<1>8. CASE SetCache
  BY <1>8 DEF SetCache
<1>9. CASE Query
  <2>1. UNCHANGED <<present, up, admin_status, pc, req, settled>>
    BY <1>9, OtherFrame
    DEF Query, Other, GetPortAdminStatus, GetPath, GetCached, onceFrame, readFrame
  <2> QED
    BY <2>1
<1>10. CASE UNCHANGED vars
  BY <1>10 DEF vars
<1> QED
  BY <1>1, <1>2, <1>3, <1>4, <1>5, <1>6, <1>7, <1>8, <1>9, <1>10
  DEF Next, SetPortAdminStatus

\* Only hot-plugging makes what was read from the path untrue.
LEMMA PathStep == IInv /\ [Next]_vars => PathInv'
<1> SUFFICES ASSUME TypeOK, PathInv, [Next]_vars, asked' # 0, ~moved'
             PROVE  (here <=> PortOfEth1 = asked)'
  BY DEF IInv, PathInv
<1> USE DEF PathInv, PortOfEth1, getVars, devVars
<1>1. ASSUME NEW p \in Paths, Plug(p) PROVE FALSE
  BY <1>1 DEF Plug
<1>2. CASE Unplug
  BY <1>2 DEF Unplug
<1>3. CASE Carrier
  BY <1>3 DEF Carrier
<1>4. CASE AgentRestart
  BY <1>4 DEF AgentRestart
<1>5. CASE SetPortAdminStatus
  BY <1>5 DEF SetPortAdminStatus, SetCheck, SetRead, SetLink, SetCache
<1>6. ASSUME NEW port \in AnyPort, GetPath(port)
      PROVE  (here <=> PortOfEth1 = asked)'
  BY <1>6 DEF GetPath, readFrame
<1>7. CASE GetCached
  BY <1>7 DEF GetCached
<1>8. CASE Other
  BY <1>8, OtherFrame DEF onceFrame, readFrame
<1>9. CASE UNCHANGED vars
  BY <1>9 DEF vars
<1> QED
  BY <1>1, <1>2, <1>3, <1>4, <1>5, <1>6, <1>7, <1>8, <1>9
  DEF Next, Query, Other, GetPortAdminStatus

\* The strengthened invariant holds in every reachable state.
LEMMA Inductive == Spec => []IInv
<1>1. IInv /\ [Next]_vars => IInv'
  BY TypeStep, CacheStep, PathStep DEF IInv
<1> QED
  BY InitIInv, <1>1, PTL DEF Spec

\* The variables of the HAL and of the interface keep their types; the pipes
\* left open never exceed what the process may have.
THEOREM TypeCorrect == Spec => []TypeOK
<1>1. IInv => TypeOK
  BY DEF IInv
<1> QED
  BY Inductive, <1>1, PTL

\* For all positions of eth1 and every descriptor limit, the admin status the
\* HAL reports is the kernel's, as long as the two are in step.
THEOREM AdminStatusTrue == Spec => AdminStatusIsTrue
<1>1. ASSUME IInv, GetCached, InStep, ~moved
      PROVE  out' = "Up" <=> up /\ PortNumber(path) = asked
  <2>1. present /\ (admin_status <=> ~up)
    BY <1>1 DEF IInv, CacheInv, InStep
  <2>2. here <=> PortNumber(path) = asked
    BY <1>1, <2>1 DEF IInv, PathInv, PortOfEth1, GetCached
  <2>3. out' = IF here /\ ~admin_status THEN "Up" ELSE "Down"
    BY <1>1 DEF GetCached, Returns
  <2> QED
    BY <2>1, <2>2, <2>3
<1> DEFINE Step == GetCached /\ InStep /\ ~moved
                      => (out' = "Up" <=> up /\ PortNumber(path) = asked)
<1>2. IInv => [Step]_vars
  BY <1>1
<1>3. Spec => [][Step]_vars
  BY Inductive, <1>2, PTL
<1> QED
  BY <1>3 DEF AdminStatusIsTrue

\* For all positions of eth1 and every descriptor limit, a port is reported
\* down only if eth1 is not running, as long as the two are in step.
THEOREM DownTrue == Spec => DownIsTrue
<1>1. ASSUME IInv, NEW port \in Ports, GetPortStatus(port), InStep, out' = "Down"
      PROVE  ~Running
  <2>1. present /\ (admin_status <=> ~up)
    BY <1>1 DEF IInv, CacheInv, InStep
  <2>2. ~(present /\ ~admin_status)
    BY <1>1 DEF GetPortStatus, Returns
  <2> QED
    BY <2>1, <2>2 DEF Running
<1> DEFINE Step == \A port \in Ports :
              GetPortStatus(port) /\ InStep /\ out' = "Down" => ~Running
<1>2. IInv => [Step]_vars
  BY <1>1
<1>3. Spec => [][Step]_vars
  BY Inductive, <1>2, PTL
<1> QED
  BY <1>3 DEF DownIsTrue
=============================================================================
