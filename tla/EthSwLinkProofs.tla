-------------------------- MODULE EthSwLinkProofs ---------------------------
(***************************************************************************)
(* Proofs about EthSwLink, for any number of interfaces, calling threads,  *)
(* monitor threads and faults.                                             *)
(***************************************************************************)
EXTENDS EthSwLink, TLAPS

\* The loop over the interfaces stays within the array.
LEMMA IntfFacts ==
    /\ 0 \in Intf
    /\ \A x \in Intf : x < ETH_INTF_MAX - 1 => x + 1 \in Intf
BY IntfAssumption DEF Intf

\* What a device can be named as.
LEMMA VisibleType == ASSUME NEW d PROVE Visible(d) \in SUBSET {"Up", "Down"}
BY DEF Visible, LinkValueOf

\* The initial state.
LEMMA InitTypeOK == Init => TypeOK
<1> SUFFICES ASSUME Init PROVE TypeOK
    OBVIOUS
<1>1. kernel \in [Intf -> Device]
    BY DEF Init
<1>2. faults \in 0 .. MaxFaults
    BY FaultAssumption DEF Init
<1>3. seen \in [Intf -> SUBSET {"Up", "Down"}]
    BY VisibleType DEF Init
<1>4. QED
    BY <1>1, <1>2, <1>3, IntfFacts
    DEF Init, TypeOK, Callers, CallPcs, MonPcs, SkState, PreviousStatus

\* Setting a device keeps the types of what SetDevice assigns.
LEMMA SetDeviceType ==
    ASSUME TypeOK, NEW i \in Intf, NEW d \in Device, SetDevice(i, d)
    PROVE  /\ kernel' \in [Intf -> Device]
           /\ seen' \in [Intf -> SUBSET {"Up", "Down"}]
<1>1. Visible(d) \in SUBSET {"Up", "Down"}
    BY VisibleType
<1>2. QED
    BY <1>1 DEF TypeOK, SetDevice

\* The environment.
LEMMA KernelTypeOK == TypeOK /\ Kernel => TypeOK'
<1> SUFFICES ASSUME TypeOK, NEW i \in Intf,
                    Plug(i) \/ Unplug(i) \/ Carrier(i) \/ SetAdmin(i)
             PROVE  TypeOK'
    BY DEF Kernel
<1>1. PICK d \in Device : SetDevice(i, d)
    BY DEF Plug, Unplug, Carrier, SetAdmin, TypeOK, Device, NoDevice
<1>2. UNCHANGED <<wanManager, faults, initVars, monVars, told>>
    BY DEF Plug, Unplug, Carrier, SetAdmin
<1>3. kernel' \in [Intf -> Device] /\ seen' \in [Intf -> SUBSET {"Up", "Down"}]
    BY <1>1, SetDeviceType
<1>4. QED
    BY <1>2, <1>3 DEF TypeOK, initVars, monVars

\* A fresh start of the unit.
LEMMA ProcessGoneTypeOK ==
    ASSUME TypeOK, ProcessGone, Fault, UNCHANGED <<kernel, wanManager>>
    PROVE  TypeOK'
<1>1. faults' \in 0 .. MaxFaults
    BY FaultAssumption DEF TypeOK, Fault
<1>2. seen' \in [Intf -> SUBSET {"Up", "Down"}]
    BY VisibleType DEF ProcessGone
<1>3. QED
    BY <1>1, <1>2, IntfFacts
    DEF TypeOK, ProcessGone, Callers, CallPcs, MonPcs, SkState, PreviousStatus

\* Steps of the agent outside CcspHalEthSwInit keep the types.
LEMMA AgentTypeOK == TypeOK /\ (PreStart \/ RegisterLinkEventCallback
                                  \/ NotifyReady \/ WanManagerInitialized)
                        => TypeOK'
<1> SUFFICES ASSUME TypeOK
             PROVE  (PreStart \/ RegisterLinkEventCallback \/ NotifyReady
                       \/ WanManagerInitialized) => TypeOK'
    OBVIOUS
<1> USE DEF envVars, initVars, monVars, histVars, Goto
<1>1. CASE BringUpFind
    BY <1>1 DEF BringUpFind, TypeOK, CallPcs
<1>2. ASSUME NEW i \in Intf, BringUpOne(i) PROVE TypeOK'
    <2>1. CASE kernel[i].present /\ i \in Real
        <3>0. kernel[i] \in Device
            BY DEF TypeOK
        <3>1. [kernel[i] EXCEPT !.admin = TRUE] \in Device
            BY <3>0 DEF Device
        <3>2. SetDevice(i, [kernel[i] EXCEPT !.admin = TRUE])
            BY <1>2, <2>1 DEF BringUpOne
        <3>3. /\ kernel' \in [Intf -> Device]
              /\ seen' \in [Intf -> SUBSET {"Up", "Down"}]
            BY <3>1, <3>2, SetDeviceType
        <3>4. QED
            BY <1>2, <3>3 DEF BringUpOne, TypeOK
    <2>2. CASE ~(kernel[i].present /\ i \in Real)
        BY <1>2, <2>2 DEF BringUpOne, TypeOK
    <2>3. QED
        BY <2>1, <2>2
<1>3. CASE AgentStart
    BY <1>3 DEF AgentStart, TypeOK, CallPcs
<1>4. CASE RegisterLinkEventCallback
    BY <1>4 DEF RegisterLinkEventCallback, TypeOK, CallPcs
<1>5. CASE NotifyReady
    BY <1>5 DEF NotifyReady, TypeOK, CallPcs
<1>6. CASE WanManagerInitialized
    BY <1>6 DEF WanManagerInitialized, TypeOK
<1>7. QED
    BY <1>1, <1>2, <1>3, <1>4, <1>5, <1>6 DEF PreStart

\* CcspHalEthSwInit.
LEMMA HalInitTypeOK ==
    ASSUME TypeOK, NEW c \in Callers, HalInit(c) PROVE TypeOK'
<1> USE DEF envVars, initVars, monVars, histVars, Goto
<1>0. Return(c) \in CallPcs
    BY DEF Return, CallPcs
<1>1. CASE InitCheck(c)
    BY <1>0, <1>1 DEF InitCheck, TypeOK, CallPcs
<1>2. CASE InitAlloc(c)
    BY <1>2 DEF InitAlloc, TypeOK, CallPcs, SkState
<1>3. CASE InitConnect(c)
    BY <1>3 DEF InitConnect, TypeOK, CallPcs, SkState
<1>4. CASE InitConnectFail(c)
    <2>1. faults' \in 0 .. MaxFaults
        BY <1>4, FaultAssumption DEF InitConnectFail, Fault, TypeOK
    <2>2. QED
        BY <1>0, <1>4, <2>1 DEF InitConnectFail, TypeOK
<1>5. CASE InitCreate(c)
    BY <1>5 DEF InitCreate, TypeOK, CallPcs, MonPcs, Monitors
<1>6. CASE InitCreateFail(c)
    <2>1. faults' \in 0 .. MaxFaults
        BY <1>6, FaultAssumption DEF InitCreateFail, Fault, TypeOK
    <2>2. QED
        BY <1>0, <1>6, <2>1 DEF InitCreateFail, TypeOK
<1>7. CASE InitDone(c)
    BY <1>0, <1>7 DEF InitDone, TypeOK
<1>8. QED
    BY <1>1, <1>2, <1>3, <1>4, <1>5, <1>6, <1>7 DEF HalInit

\* The loop index stays within link_statuses.
LEMMA ContinueType ==
    ASSUME TypeOK, NEW t \in Threads, Continue(t)
    PROVE  /\ monX' \in [Threads -> Intf]
           /\ monPc' \in [Threads -> MonPcs]
<1>0. monX \in [Threads -> Intf] /\ monPc \in [Threads -> MonPcs]
    BY DEF TypeOK
<1>1. monX[t] \in Intf
    BY <1>0
<1>2. CASE monX[t] < ETH_INTF_MAX - 1
    <2>1. monX[t] + 1 \in Intf
        BY <1>1, <1>2, IntfFacts
    <2>2. /\ monX' = [monX EXCEPT ![t] = monX[t] + 1]
          /\ monPc' = [monPc EXCEPT ![t] = "poll"]
        BY <1>2 DEF Continue
    <2>3. QED
        BY <1>0, <2>1, <2>2 DEF MonPcs
<1>3. CASE ~(monX[t] < ETH_INTF_MAX - 1)
    <2>1. /\ monX' = [monX EXCEPT ![t] = 0]
          /\ monPc' = [monPc EXCEPT ![t] = "check"]
        BY <1>3 DEF Continue
    <2>2. QED
        BY <1>0, <2>1, IntfFacts DEF MonPcs
<1>4. QED
    BY <1>2, <1>3

\* ethsw_thread_main.
LEMMA MonitorTypeOK ==
    ASSUME TypeOK, NEW t \in Threads, Monitor(t) PROVE TypeOK'
<1> USE DEF envVars, initVars, monVars, histVars
<1>1. CASE MonWait(t)
    BY <1>1 DEF MonWait, TypeOK, MonPcs
<1>2. CASE MonCheck(t)
    BY <1>2, IntfFacts DEF MonCheck, TypeOK, MonPcs
<1>3. CASE MonPoll(t)
    <2>1. monX' \in [Threads -> Intf] /\ monPc' \in [Threads -> MonPcs]
        BY <1>3, ContinueType DEF MonPoll, TypeOK, MonPcs
    <2>2. Running(kernel[monX[t]]) \in BOOLEAN
        BY DEF Running
    <2>3. monUp' \in [Threads -> BOOLEAN]
        BY <1>3, <2>2 DEF MonPoll, TypeOK
    <2>4. QED
        BY <1>3, <2>1, <2>3 DEF MonPoll, TypeOK
<1>4. CASE MonPollFail(t)
    <2>1. monX' \in [Threads -> Intf] /\ monPc' \in [Threads -> MonPcs]
        BY <1>4, ContinueType DEF MonPollFail
    <2>2. faults' \in 0 .. MaxFaults
        BY <1>4, FaultAssumption DEF MonPollFail, Fault, TypeOK
    <2>3. QED
        BY <1>4, <2>1, <2>2 DEF MonPollFail, TypeOK
<1>5. CASE MonReport(t)
    <2>1. monX' \in [Threads -> Intf] /\ monPc' \in [Threads -> MonPcs]
        BY <1>5, ContinueType DEF MonReport
    <2>2. StatusOf(monUp[t]) \in PreviousStatus
        BY DEF StatusOf, PreviousStatus
    <2>3. link_statuses' \in [Threads -> [Intf -> PreviousStatus]]
        BY <1>5, <2>2 DEF MonReport, TypeOK
    <2>4. Visible(kernel[monX[t]]) \in SUBSET {"Up", "Down"}
        BY VisibleType
    <2>5. seen' \in [Intf -> SUBSET {"Up", "Down"}]
        BY <1>5, <2>4 DEF MonReport, TypeOK
    <2>6. QED
        BY <1>5, <2>1, <2>3, <2>5 DEF MonReport, TypeOK
<1>6. QED
    BY <1>1, <1>2, <1>3, <1>4, <1>5 DEF Monitor

\* Type correctness: in particular the monitor's loop index stays within the
\* interfaces the HAL watches and the faults within their bound.
THEOREM TypeCorrect == Spec => []TypeOK
<1>1. TypeOK /\ [Next]_vars => TypeOK'
    <2> SUFFICES ASSUME TypeOK, [Next]_vars PROVE TypeOK'
        OBVIOUS
    <2>1. CASE UNCHANGED vars
        BY <2>1 DEF vars, envVars, initVars, monVars, histVars, TypeOK
    <2>2. CASE Kernel
        BY <2>2, KernelTypeOK
    <2>3. CASE PreStart \/ RegisterLinkEventCallback \/ NotifyReady
                 \/ WanManagerInitialized
        BY <2>3, AgentTypeOK
    <2>4. CASE BringUpFail \/ AgentCrash
        BY <2>4, ProcessGoneTypeOK DEF BringUpFail, AgentCrash
    <2>5. CASE \E c \in Callers : HalInit(c)
        BY <2>5, HalInitTypeOK
    <2>6. CASE \E t \in Threads : Monitor(t)
        BY <2>6, MonitorTypeOK
    <2>7. QED
        BY <2>1, <2>2, <2>3, <2>4, <2>5, <2>6 DEF Next, Agent, Callers
<1>2. QED
    BY <1>1, InitTypeOK, PTL DEF Spec

-----------------------------------------------------------------------------
(* No report without a callback and a WAN manager *)

\* linkEventCallback and the WAN manager's marker are only ever cleared
\* together with the monitor threads, so that what a monitor checked once at
\* the top of its loop still holds when it calls back.
THEOREM WiredReports == Spec => []ReportsOnlyWhenWired
<1> USE DEF envVars, initVars, monVars, histVars
<1> DEFINE Inv ==
        /\ ReportsOnlyWhenWired
        /\ \A t \in Threads : monPc[t] = "check" => wanManager
<1>1. Init => Inv
    BY DEF Init, ReportsOnlyWhenWired
<1>2. TypeOK /\ Inv /\ [Next]_vars => Inv'
    <2> SUFFICES ASSUME TypeOK, Inv, [Next]_vars PROVE Inv'
        OBVIOUS
    <2> USE DEF ReportsOnlyWhenWired
    <2>1. CASE UNCHANGED <<monPc, linkEventCallback, wanManager>>
        BY <2>1
    <2>2. CASE WanManagerInitialized \/ RegisterLinkEventCallback
        BY <2>2 DEF WanManagerInitialized, RegisterLinkEventCallback
    <2>3. CASE BringUpFail \/ AgentCrash
        BY <2>3 DEF BringUpFail, AgentCrash, ProcessGone
    <2>4. ASSUME NEW c \in Callers, InitCreate(c) PROVE Inv'
        BY <2>4 DEF InitCreate, TypeOK
    <2>5. ASSUME NEW t \in Threads, Monitor(t) PROVE Inv'
        BY <2>5 DEF Monitor, MonWait, MonCheck, MonPoll, MonPollFail,
                    MonReport, Continue, TypeOK
    <2>6. CASE Kernel
        BY <2>1, <2>6 DEF Kernel, Plug, Unplug, Carrier, SetAdmin
    <2>7. CASE PreStart \/ NotifyReady
        BY <2>1, <2>7 DEF PreStart, BringUpFind, BringUpOne, AgentStart,
                          NotifyReady
    <2>8. ASSUME NEW c \in Callers, HalInit(c) PROVE Inv'
        BY <2>1, <2>4, <2>8 DEF HalInit, InitCheck, InitAlloc, InitConnect,
               InitConnectFail, InitCreateFail, InitDone
    <2>9. QED
        BY <2>1, <2>2, <2>3, <2>5, <2>6, <2>7, <2>8
        DEF Next, Agent, Callers, vars
<1>3. Inv => ReportsOnlyWhenWired
    OBVIOUS
<1>4. QED
    BY <1>1, <1>2, <1>3, TypeCorrect, PTL DEF Spec

-----------------------------------------------------------------------------
(* At most one monitor per calling thread *)

\* The strengthening: a caller whose monitor runs has set hal_init_done or is
\* about to, and a caller that is on its way to pthread_create has none.
CreatorInv ==
    /\ OneMonitorPerCaller
    /\ \A t \in Monitors :
          /\ hal_init_done \/ callPc[owner[t]] = "setdone"
          /\ callPc[owner[t]] \notin {"alloc", "connect", "create"}

\* Every action keeps the strengthening.
LEMMA CreatorInvariant == Spec => []CreatorInv
<1> USE DEF envVars, initVars, monVars, histVars, Goto
<1>1. Init => CreatorInv
    BY DEF Init, CreatorInv, OneMonitorPerCaller, Monitors
<1>2. TypeOK /\ CreatorInv /\ [Next]_vars => CreatorInv'
    <2> SUFFICES ASSUME TypeOK, CreatorInv, [Next]_vars PROVE CreatorInv'
        OBVIOUS
    <2> USE DEF CreatorInv, OneMonitorPerCaller, Monitors
    <2>1. CASE UNCHANGED <<monPc, owner, hal_init_done, callPc>>
        BY <2>1
    <2>2. CASE PreStart \/ RegisterLinkEventCallback \/ NotifyReady
        <3>1. UNCHANGED <<monPc, owner, hal_init_done>>
            BY <2>2 DEF PreStart, BringUpFind, BringUpOne, AgentStart,
                        RegisterLinkEventCallback, NotifyReady
        <3>2. CASE UNCHANGED callPc
            BY <3>1, <3>2, <2>1
        <3>3. CASE /\ callPc[Main] # "setdone"
                   /\ \E p \in {"preup", "rest", "notify", "ready"} :
                          callPc' = [callPc EXCEPT ![Main] = p]
            BY <3>1, <3>3 DEF TypeOK, Callers
        <3>4. QED
            BY <2>2, <3>2, <3>3 DEF PreStart, BringUpFind, BringUpOne,
                   AgentStart, RegisterLinkEventCallback, NotifyReady
    <2>3. CASE BringUpFail \/ AgentCrash
        BY <2>3 DEF BringUpFail, AgentCrash, ProcessGone
    <2>4. ASSUME NEW c \in Callers, HalInit(c) PROVE CreatorInv'
        <3>1. CASE InitCheck(c)
            BY <3>1 DEF InitCheck, Return, TypeOK
        <3>2. CASE InitAlloc(c)
            BY <3>2 DEF InitAlloc, TypeOK
        <3>3. CASE InitConnect(c)
            BY <3>3 DEF InitConnect, TypeOK
        <3>4. CASE InitConnectFail(c)
            BY <3>4 DEF InitConnectFail, Return, TypeOK
        <3>5. CASE InitCreate(c)
            BY <3>5 DEF InitCreate, TypeOK
        <3>6. CASE InitCreateFail(c)
            BY <3>6 DEF InitCreateFail, Return, TypeOK
        <3>7. CASE InitDone(c)
            BY <3>7 DEF InitDone, Return, TypeOK
        <3>8. QED
            BY <2>4, <3>1, <3>2, <3>3, <3>4, <3>5, <3>6, <3>7 DEF HalInit
    <2>5. ASSUME NEW t \in Threads, Monitor(t) PROVE CreatorInv'
        <3>1. UNCHANGED <<owner, hal_init_done, callPc>>
            BY <2>5 DEF Monitor, MonWait, MonCheck, MonPoll, MonPollFail,
                        MonReport
        <3>2. \A u \in Threads : monPc'[u] # "none" => monPc[u] # "none"
            BY <2>5 DEF Monitor, MonWait, MonCheck, MonPoll, MonPollFail,
                        MonReport, Continue, TypeOK
        <3>3. QED
            BY <3>1, <3>2
    <2>6. CASE Kernel \/ WanManagerInitialized
        BY <2>1, <2>6 DEF Kernel, Plug, Unplug, Carrier, SetAdmin,
                          WanManagerInitialized
    <2>7. QED
        BY <2>1, <2>2, <2>3, <2>4, <2>5, <2>6 DEF Next, Agent, Callers, vars
<1>3. QED
    BY <1>1, <1>2, TypeCorrect, PTL DEF Spec

\* However calls of CcspHalEthSwInit fail, repeat and overlap, no thread ever
\* creates a second monitor, although hal_init_done is neither locked nor set
\* before the thread runs.
THEOREM OneMonitorEach == Spec => []OneMonitorPerCaller
<1>1. CreatorInv => OneMonitorPerCaller
    BY DEF CreatorInv
<1>2. QED
    BY <1>1, CreatorInvariant, PTL

-----------------------------------------------------------------------------
(***************************************************************************)
(* The agent as it is wired: only its main thread initialises the HAL.     *)
(* Then the one monitor always has a connected socket, remembers what it   *)
(* reported, and EthSwLink implements LinkEvents.                          *)
(***************************************************************************)

\* The value a monitor is about to report.
Pending(t) == IF monUp[t] THEN "Up" ELSE "Down"

\* The monitor's socket: it is there before the thread is.
SocketInv ==
    /\ callPc[Main] \in {"create", "setdone"} => sk = "connected"
    /\ Monitors # {} => sk = "connected"

\* What the monitor remembers: nothing before it runs, then what was told.
MemoryInv ==
    /\ \A t \in Threads \ Monitors :
          link_statuses[t] = [i \in Intf |-> "FIRST_RUN"]
    /\ Monitors = {} => told = [i \in Intf |-> "none"]
    /\ \A t \in Monitors, i \in Intf : link_statuses[t][i] = StatusFor(told[i])

\* What the monitor has read but not yet reported is news, and was true since
\* the last report.
NewsInv ==
    /\ \A i \in Intf : Visible(kernel[i]) \subseteq seen[i]
    /\ \A t \in Threads : monPc[t] = "report" =>
          /\ Pending(t) \in seen[monX[t]]
          /\ link_statuses[t][monX[t]] # StatusOf(monUp[t])

-----------------------------------------------------------------------------
(* Facts about the helpers *)

\* With a single caller there is at most one monitor.
LEMMA SingleMonitor ==
    ASSUME Others = {}, TypeOK, CreatorInv
    PROVE  \A t, u \in Monitors : t = u
<1>1. \A t \in Monitors : owner[t] = Main
    BY DEF TypeOK, Callers, Monitors
<1>2. QED
    BY <1>1 DEF CreatorInv, OneMonitorPerCaller

\* A device that is there is seen as what IFF_RUNNING says.
LEMMA VisibleRunning ==
    ASSUME NEW d, d.present
    PROVE  (IF Running(d) THEN "Up" ELSE "Down") \in Visible(d)
BY DEF Visible, LinkValueOf

\* The value in link_statuses that goes with what was told.
LEMMA StatusFacts ==
    /\ StatusFor("none") = "FIRST_RUN"
    /\ StatusFor("Up") = StatusOf(TRUE)
    /\ StatusFor("Down") = StatusOf(FALSE)
    /\ StatusOf(TRUE) = "LINK_WAS_UP"
    /\ StatusOf(FALSE) = "LINK_WAS_DOWN"
BY DEF StatusFor, StatusOf

-----------------------------------------------------------------------------
(* The socket *)

\* As long as only the main thread initialises the HAL, a monitor's socket is
\* connected: sk is replaced and connected before the thread is created, and
\* not touched again while it lives.
LEMMA SocketInvariant == ASSUME Others = {} PROVE Spec => []SocketInv
<1> USE DEF envVars, initVars, monVars, histVars, Goto
<1>1. Init => SocketInv
    BY DEF Init, SocketInv, Monitors, Callers
<1>2. TypeOK /\ CreatorInv /\ SocketInv /\ [Next]_vars => SocketInv'
    <2> SUFFICES ASSUME TypeOK, CreatorInv, SocketInv, [Next]_vars
                 PROVE  SocketInv'
        OBVIOUS
    <2>0. Callers = {Main} /\ \A t \in Monitors : owner[t] = Main
        BY DEF TypeOK, Callers, Monitors
    <2> USE DEF SocketInv, Monitors
    <2>1. CASE UNCHANGED <<monPc, sk, callPc>>
        BY <2>1
    <2>2. CASE PreStart \/ RegisterLinkEventCallback \/ NotifyReady
        <3>1. UNCHANGED <<monPc, sk>>
            BY <2>2 DEF PreStart, BringUpFind, BringUpOne, AgentStart,
                        RegisterLinkEventCallback, NotifyReady
        <3>2. CASE UNCHANGED callPc
            BY <3>1, <3>2, <2>1
        <3>3. CASE \E p \in {"preup", "rest", "notify", "ready"} :
                      callPc' = [callPc EXCEPT ![Main] = p]
            BY <3>1, <3>3, <2>0 DEF TypeOK
        <3>4. QED
            BY <2>2, <3>2, <3>3 DEF PreStart, BringUpFind, BringUpOne,
                   AgentStart, RegisterLinkEventCallback, NotifyReady
    <2>3. CASE BringUpFail \/ AgentCrash
        BY <2>3 DEF BringUpFail, AgentCrash, ProcessGone, Callers
    <2>4. CASE HalInit(Main)
        <3>1. CASE InitCheck(Main)
            BY <3>1, <2>0 DEF InitCheck, Return, TypeOK
        <3>2. CASE InitAlloc(Main)
            BY <3>2, <2>0 DEF InitAlloc, TypeOK, CreatorInv
        <3>3. CASE InitConnect(Main)
            BY <3>3, <2>0 DEF InitConnect, TypeOK
        <3>4. CASE InitConnectFail(Main)
            BY <3>4, <2>0 DEF InitConnectFail, Return, TypeOK
        <3>5. CASE InitCreate(Main)
            BY <3>5, <2>0 DEF InitCreate, TypeOK
        <3>6. CASE InitCreateFail(Main)
            BY <3>6, <2>0 DEF InitCreateFail, Return, TypeOK
        <3>7. CASE InitDone(Main)
            BY <3>7, <2>0 DEF InitDone, Return, TypeOK
        <3>8. QED
            BY <2>4, <3>1, <3>2, <3>3, <3>4, <3>5, <3>6, <3>7 DEF HalInit
    <2>5. ASSUME NEW t \in Threads, Monitor(t) PROVE SocketInv'
        <3>1. UNCHANGED <<sk, callPc>>
            BY <2>5 DEF Monitor, MonWait, MonCheck, MonPoll, MonPollFail,
                        MonReport
        <3>2. t \in Monitors
            BY <2>5 DEF Monitor, MonWait, MonCheck, MonPoll, MonPollFail,
                        MonReport
        <3>3. QED
            BY <3>1, <3>2
    <2>6. CASE Kernel \/ WanManagerInitialized
        BY <2>1, <2>6 DEF Kernel, Plug, Unplug, Carrier, SetAdmin,
                          WanManagerInitialized
    <2>7. QED
        BY <2>1, <2>2, <2>3, <2>4, <2>5, <2>6 DEF Next, Agent, vars
<1>3. QED
    BY <1>1, <1>2, TypeCorrect, CreatorInvariant, PTL DEF Spec

\* MonitorHasSocket, for any number of interfaces, threads and faults.
THEOREM SocketConnected == Spec => []MonitorHasSocket
<1>1. CASE Others = {}
    <2>1. SocketInv => MonitorHasSocket
        BY DEF SocketInv, MonitorHasSocket
    <2>2. QED
        BY <1>1, <2>1, SocketInvariant, PTL
<1>2. CASE Others # {}
    <2>1. MonitorHasSocket
        BY <1>2 DEF MonitorHasSocket
    <2>2. QED
        BY <2>1, PTL
<1>3. QED
    BY <1>1, <1>2

-----------------------------------------------------------------------------
(* What the monitor remembers *)

\* With one monitor, its link_statuses follow what the agent was told.
LEMMA MemoryInvariant == ASSUME Others = {} PROVE Spec => []MemoryInv
<1> USE DEF envVars, initVars, monVars, histVars, Goto
<1>1. Init => MemoryInv
    BY DEF Init, MemoryInv, Monitors
<1>2. TypeOK /\ CreatorInv /\ MemoryInv /\ [Next]_vars => MemoryInv'
    <2> SUFFICES ASSUME TypeOK, CreatorInv, MemoryInv, [Next]_vars
                 PROVE  MemoryInv'
        OBVIOUS
    <2>0. Callers = {Main} /\ \A t \in Monitors : owner[t] = Main
        BY DEF TypeOK, Callers, Monitors
    <2>1. CASE UNCHANGED <<monPc, link_statuses, told>>
        BY <2>1 DEF MemoryInv, Monitors
    <2>2. CASE BringUpFail \/ AgentCrash
        BY <2>2 DEF BringUpFail, AgentCrash, ProcessGone, MemoryInv, Monitors
    <2>3. CASE InitCreate(Main)
        <3>1. Monitors = {}
            BY <2>0, <2>3 DEF InitCreate, CreatorInv
        <3>2. told = [i \in Intf |-> "none"]
            BY <3>1 DEF MemoryInv
        <3>3. \A t \in Threads : link_statuses[t] = [i \in Intf |-> "FIRST_RUN"]
            BY <3>1 DEF MemoryInv
        <3>4. UNCHANGED <<link_statuses, told>>
            BY <2>3 DEF InitCreate
        <3>5. Monitors' # {}
            BY <2>3 DEF InitCreate, Monitors, TypeOK
        <3>6. QED
            BY <3>2, <3>3, <3>4, <3>5, StatusFacts DEF MemoryInv, Monitors
    <2>4. ASSUME NEW t \in Threads, MonReport(t) PROVE MemoryInv'
        <3> DEFINE i == monX[t]
        <3>1. t \in Monitors /\ i \in Intf /\ monUp[t] \in BOOLEAN
            BY <2>4 DEF MonReport, Monitors, TypeOK
        <3>2. Monitors' = Monitors
            BY <2>4 DEF MonReport, Continue, Monitors, TypeOK
        <3>3. \A u \in Monitors : u = t
            BY <3>1, SingleMonitor
        <3>4. told' = [told EXCEPT ![i] = IF monUp[t] THEN "Up" ELSE "Down"]
            BY <2>4 DEF MonReport
        <3>5. link_statuses' =
                 [link_statuses EXCEPT ![t][i] = StatusOf(monUp[t])]
            BY <2>4 DEF MonReport
        <3>6. \A j \in Intf : link_statuses'[t][j] = StatusFor(told'[j])
            <4> SUFFICES ASSUME NEW j \in Intf
                         PROVE  link_statuses'[t][j] = StatusFor(told'[j])
                OBVIOUS
            <4>1. CASE j = i
                <5>1. link_statuses'[t][j] = StatusOf(monUp[t])
                    BY <3>1, <3>5, <4>1 DEF TypeOK
                <5>2. told'[j] = IF monUp[t] THEN "Up" ELSE "Down"
                    BY <3>1, <3>4, <4>1 DEF TypeOK
                <5>3. CASE monUp[t] = TRUE
                    BY <5>1, <5>2, <5>3, StatusFacts
                <5>4. CASE monUp[t] = FALSE
                    BY <5>1, <5>2, <5>4, StatusFacts
                <5>5. QED
                    BY <3>1, <5>3, <5>4
            <4>2. CASE j # i
                <5>1. link_statuses'[t][j] = link_statuses[t][j]
                    BY <3>1, <3>5, <4>2 DEF TypeOK
                <5>2. told'[j] = told[j]
                    BY <3>1, <3>4, <4>2 DEF TypeOK
                <5>3. QED
                    BY <3>1, <5>1, <5>2 DEF MemoryInv
            <4>3. QED
                BY <4>1, <4>2
        <3>7. \A u \in Threads \ Monitors : link_statuses'[u] = link_statuses[u]
            BY <3>1, <3>5 DEF TypeOK
        <3>8. QED
            BY <3>1, <3>2, <3>3, <3>6, <3>7 DEF MemoryInv
    <2>5. ASSUME NEW t \in Threads, MonWait(t) \/ MonCheck(t) \/ MonPoll(t)
                                      \/ MonPollFail(t)
          PROVE  MemoryInv'
        <3>1. UNCHANGED <<link_statuses, told>>
            BY <2>5 DEF MonWait, MonCheck, MonPoll, MonPollFail
        <3>2. Monitors' = Monitors
            BY <2>5 DEF MonWait, MonCheck, MonPoll, MonPollFail, Continue,
                        Monitors, TypeOK
        <3>3. QED
            BY <3>1, <3>2 DEF MemoryInv
    <2>6. CASE Kernel \/ WanManagerInitialized \/ PreStart \/ NotifyReady
                 \/ RegisterLinkEventCallback
        BY <2>1, <2>6 DEF Kernel, Plug, Unplug, Carrier, SetAdmin, PreStart,
               WanManagerInitialized, BringUpFind, BringUpOne, AgentStart,
               NotifyReady, RegisterLinkEventCallback
    <2>7. CASE HalInit(Main)
        BY <2>1, <2>3, <2>7 DEF HalInit, InitCheck, InitAlloc, InitConnect,
               InitConnectFail, InitCreateFail, InitDone
    <2>8. QED
        BY <2>1, <2>2, <2>4, <2>5, <2>6, <2>7 DEF Next, Agent, Monitor, vars
<1>3. QED
    BY <1>1, <1>2, TypeCorrect, CreatorInvariant, PTL DEF Spec

\* The monitor forgets nothing it reported and reports nothing it does not
\* remember, whatever the links, faults and restarts.
THEOREM StatusesAreTold == Spec => []StatusesMatchTold
<1>1. CASE Others = {}
    <2>1. MemoryInv => StatusesMatchTold
        BY DEF MemoryInv, StatusesMatchTold
    <2>2. QED
        BY <1>1, <2>1, MemoryInvariant, PTL
<1>2. CASE Others # {}
    <2>1. StatusesMatchTold
        BY <1>2 DEF StatusesMatchTold
    <2>2. QED
        BY <2>1, PTL
<1>3. QED
    BY <1>1, <1>2
-----------------------------------------------------------------------------
(* What the monitor has read but not reported *)

\* A change of a device is seen, and nothing that was seen is lost.
LEMMA DeviceIsSeen ==
    ASSUME TypeOK, NewsInv, NEW i \in Intf, NEW d, SetDevice(i, d)
    PROVE  \A j \in Intf : /\ Visible(kernel'[j]) \subseteq seen'[j]
                           /\ seen[j] \subseteq seen'[j]
<1> SUFFICES ASSUME NEW j \in Intf
             PROVE  /\ Visible(kernel'[j]) \subseteq seen'[j]
                    /\ seen[j] \subseteq seen'[j]
    OBVIOUS
<1>1. CASE j = i
    <2>1. kernel'[j] = d /\ seen'[j] = seen[j] \cup Visible(d)
        BY <1>1 DEF SetDevice, TypeOK
    <2>2. QED
        BY <2>1
<1>2. CASE j # i
    <2>1. kernel'[j] = kernel[j] /\ seen'[j] = seen[j]
        BY <1>2 DEF SetDevice, TypeOK
    <2>2. QED
        BY <2>1 DEF NewsInv
<1>3. QED
    BY <1>1, <1>2

\* With one monitor, what it is about to report is news and was true since
\* the last report, whatever the device does between the read and the report.
LEMMA NewsInvariant == ASSUME Others = {} PROVE Spec => []NewsInv
<1> USE DEF envVars, initVars, monVars, histVars, Goto
<1>1. Init => NewsInv
    <2> SUFFICES ASSUME Init PROVE NewsInv
        OBVIOUS
    <2>1. \A i \in Intf : seen[i] = Visible(kernel[i])
        BY DEF Init
    <2>2. \A t \in Threads : monPc[t] # "report"
        BY DEF Init
    <2>3. QED
        BY <2>1, <2>2 DEF NewsInv
<1>2. TypeOK /\ CreatorInv /\ NewsInv /\ [Next]_vars => NewsInv'
    <2> SUFFICES ASSUME TypeOK, CreatorInv, NewsInv, [Next]_vars
                 PROVE  NewsInv'
        OBVIOUS
    <2>1. CASE UNCHANGED <<kernel, seen, monPc, monX, monUp, link_statuses>>
        BY <2>1 DEF NewsInv, Pending
    <2>2. ASSUME NEW i \in Intf, NEW d, SetDevice(i, d), UNCHANGED monVars
          PROVE  NewsInv'
        <3>1. \A j \in Intf : /\ Visible(kernel'[j]) \subseteq seen'[j]
                              /\ seen[j] \subseteq seen'[j]
            BY <2>2, DeviceIsSeen
        <3>2. \A t \in Threads : monX[t] \in Intf
            BY DEF TypeOK
        <3>3. \A t \in Threads : monPc'[t] = "report" =>
                 /\ Pending(t)' \in seen'[monX'[t]]
                 /\ link_statuses'[t][monX'[t]] # StatusOf(monUp'[t])
            BY <2>2, <3>1, <3>2 DEF NewsInv, Pending
        <3>4. QED
            BY <3>1, <3>3 DEF NewsInv
    <2>3. CASE BringUpFail \/ AgentCrash
        <3>1. UNCHANGED kernel /\ ProcessGone
            BY <2>3 DEF BringUpFail, AgentCrash
        <3>2. \A i \in Intf : seen'[i] = Visible(kernel'[i])
            BY <3>1 DEF ProcessGone
        <3>3. \A t \in Threads : monPc'[t] # "report"
            BY <3>1 DEF ProcessGone
        <3>4. QED
            BY <3>2, <3>3 DEF NewsInv
    <2>4. CASE InitCreate(Main)
        <3>1. UNCHANGED <<kernel, seen, monX, monUp, link_statuses>>
            BY <2>4 DEF InitCreate
        <3>2. \A t \in Threads : monPc'[t] = "report" => monPc[t] = "report"
            BY <2>4 DEF InitCreate, TypeOK
        <3>3. QED
            BY <3>1, <3>2 DEF NewsInv, Pending
    <2>5. ASSUME NEW t \in Threads, Monitor(t) PROVE NewsInv'
        <3>1. t \in Monitors
            BY <2>5 DEF Monitor, MonWait, MonCheck, MonPoll, MonPollFail,
                        MonReport, Monitors
        <3>2. \A u \in Threads : u # t => monPc[u] = "none"
            BY <3>1, SingleMonitor DEF Monitors
        <3>3. \A u \in Threads : u # t => monPc'[u] # "report"
            BY <2>5, <3>2 DEF Monitor, MonWait, MonCheck, MonPoll,
                        MonPollFail, MonReport, Continue, TypeOK
        <3>4. CASE monPc'[t] # "report" /\ UNCHANGED <<kernel, seen>>
            BY <3>3, <3>4 DEF NewsInv
        <3>5. CASE MonWait(t) \/ MonCheck(t) \/ MonPollFail(t)
            BY <3>4, <3>5 DEF MonWait, MonCheck, MonPollFail, Continue, TypeOK
        <3>6. CASE MonPoll(t)
            <4> DEFINE i == monX[t]
                       running == Running(kernel[i])
            <4>1. CASE link_statuses[t][i] = StatusOf(running)
                BY <3>4, <3>6, <4>1 DEF MonPoll, Continue, TypeOK
            <4>2. CASE link_statuses[t][i] # StatusOf(running)
                <5>1. UNCHANGED <<kernel, seen, monX, link_statuses>>
                    BY <3>6, <4>2 DEF MonPoll
                <5>2. monUp'[t] = running
                    BY <3>6, <4>2 DEF MonPoll, TypeOK
                <5>3. i \in Intf /\ kernel[i].present
                    BY <3>6 DEF MonPoll, TypeOK
                <5>4. (IF running THEN "Up" ELSE "Down") \in seen[i]
                    BY <5>3, VisibleRunning DEF NewsInv
                <5>5. Pending(t)' \in seen'[monX'[t]]
                    BY <5>1, <5>2, <5>4 DEF Pending
                <5>6. link_statuses'[t][monX'[t]] # StatusOf(monUp'[t])
                    BY <4>2, <5>1, <5>2
                <5>7. QED
                    BY <3>3, <5>1, <5>5, <5>6 DEF NewsInv
            <4>3. QED
                BY <4>1, <4>2
        <3>7. CASE MonReport(t)
            <4>1. monPc'[t] # "report"
                BY <3>7 DEF MonReport, Continue, TypeOK
            <4>2. UNCHANGED kernel
                BY <3>7 DEF MonReport
            <4>3. \A j \in Intf : Visible(kernel[j]) \subseteq seen'[j]
                BY <3>7 DEF MonReport, NewsInv, TypeOK
            <4>4. QED
                BY <3>3, <4>1, <4>2, <4>3 DEF NewsInv
        <3>8. QED
            BY <2>5, <3>5, <3>6, <3>7 DEF Monitor
    <2>6. CASE Kernel
        BY <2>2, <2>6 DEF Kernel, Plug, Unplug, Carrier, SetAdmin
    <2>7. CASE PreStart
        <3>1. ASSUME NEW i \in Intf, BringUpOne(i) PROVE NewsInv'
            <4>1. CASE kernel[i].present /\ i \in Real
                BY <2>2, <3>1, <4>1 DEF BringUpOne
            <4>2. CASE ~(kernel[i].present /\ i \in Real)
                BY <2>1, <3>1, <4>2 DEF BringUpOne
            <4>3. QED
                BY <4>1, <4>2
        <3>2. QED
            BY <2>1, <2>7, <3>1 DEF PreStart, BringUpFind, AgentStart
    <2>8. CASE WanManagerInitialized \/ NotifyReady \/ RegisterLinkEventCallback
        BY <2>1, <2>8 DEF WanManagerInitialized, NotifyReady,
                          RegisterLinkEventCallback
    <2>9. CASE HalInit(Main)
        BY <2>1, <2>4, <2>9 DEF HalInit, InitCheck, InitAlloc, InitConnect,
               InitConnectFail, InitCreateFail, InitDone
    <2>10. QED
        BY <2>1, <2>3, <2>5, <2>6, <2>7, <2>8, <2>9 DEF Next, Agent, vars
<1>3. QED
    BY <1>1, <1>2, TypeCorrect, CreatorInvariant, PTL DEF Spec

-----------------------------------------------------------------------------
(* The refinement *)

\* The abstract view of a device agrees with the HAL's.
LEMMA AbstractVisible ==
    ASSUME NEW d
    PROVE  /\ LinkValueOf(d) \in Abstract!LinkValue
           /\ Abstract!Visible(LinkValueOf(d)) = Visible(d)
BY DEF LinkValueOf, Visible, Abstract!LinkValue, Abstract!Reportable,
       Abstract!Visible

\* A step of a device is an abstract change of its link.
LEMMA DeviceChanges ==
    ASSUME TypeOK, NEW i \in Intf, NEW d, SetDevice(i, d), UNCHANGED told
    PROVE  Abstract!Change(i, LinkValueOf(d))
<1> DEFINE link(k) == [j \in Intf |-> LinkValueOf(k[j])]
<1>1. kernel' = [kernel EXCEPT ![i] = d] /\ kernel \in [Intf -> Device]
    BY DEF SetDevice, TypeOK
<1>2. link(kernel') = [link(kernel) EXCEPT ![i] = LinkValueOf(d)]
    <2>1. \A j \in Intf : link(kernel')[j] =
             [link(kernel) EXCEPT ![i] = LinkValueOf(d)][j]
        BY <1>1
    <2>2. QED
        BY <2>1
<1>3. seen' = [seen EXCEPT ![i] = @ \cup Abstract!Visible(LinkValueOf(d))]
    BY AbstractVisible DEF SetDevice
<1>4. QED
    BY <1>2, <1>3 DEF Abstract!Change

\* The HAL of an agent whose main thread alone initialises it implements
\* LinkEvents: it never reports the same state of an interface twice in a row
\* and never one that was not true since its last report, for any number of
\* interfaces and faults, although it reads the state in one step, reports it
\* in another and keeps its own copy of what it reported.
THEOREM Refinement == ASSUME Others = {} PROVE Spec => ImplementsLinkEvents
<1> USE DEF envVars, initVars, monVars, histVars, Goto
<1> DEFINE link(k) == [j \in Intf |-> LinkValueOf(k[j])]
<1>1. Init => Abstract!Init
    <2> SUFFICES ASSUME Init PROVE Abstract!Init
        OBVIOUS
    <2>1. link(kernel) \in [Intf -> Abstract!LinkValue]
        BY AbstractVisible
    <2>2. told = [i \in Intf |-> "none"]
        BY DEF Init
    <2>3. seen = [i \in Intf |-> Abstract!Visible(link(kernel)[i])]
        BY AbstractVisible DEF Init
    <2>4. QED
        BY <2>1, <2>2, <2>3 DEF Abstract!Init
<1>2. TypeOK /\ CreatorInv /\ MemoryInv /\ NewsInv /\ [Next]_vars
         => [Abstract!Next]_(Abstract!vars)
    <2> SUFFICES ASSUME TypeOK, CreatorInv, MemoryInv, NewsInv, [Next]_vars
                 PROVE  Abstract!Next \/ UNCHANGED Abstract!vars
        OBVIOUS
    <2>1. CASE UNCHANGED <<kernel, told, seen>>
        BY <2>1 DEF Abstract!vars
    <2>2. ASSUME NEW i \in Intf, NEW d, SetDevice(i, d), UNCHANGED told
          PROVE  Abstract!Next
        BY <2>2, DeviceChanges, AbstractVisible DEF Abstract!Next
    <2>3. CASE BringUpFail \/ AgentCrash
        <3>1. UNCHANGED kernel /\ ProcessGone
            BY <2>3 DEF BringUpFail, AgentCrash
        <3>2. seen' = [i \in Intf |-> Abstract!Visible(link(kernel)[i])]
            BY <3>1, AbstractVisible DEF ProcessGone
        <3>3. Abstract!Restart
            BY <3>1, <3>2 DEF ProcessGone, Abstract!Restart
        <3>4. QED
            BY <3>3 DEF Abstract!Next
    <2>4. ASSUME NEW t \in Threads, MonReport(t) PROVE Abstract!Next
        <3> DEFINE i == monX[t]
        <3>1. t \in Monitors /\ i \in Intf /\ monUp[t] \in BOOLEAN
            BY <2>4 DEF MonReport, Monitors, TypeOK
        <3>2. Pending(t) \in seen[i] /\ link_statuses[t][i] # StatusOf(monUp[t])
            BY <2>4 DEF MonReport, NewsInv
        <3>3. link_statuses[t][i] = StatusFor(told[i])
            BY <3>1 DEF MemoryInv
        <3>4. Pending(t) # told[i]
            <4>1. CASE monUp[t] = TRUE
                BY <3>2, <3>3, <4>1, StatusFacts DEF Pending
            <4>2. CASE monUp[t] = FALSE
                BY <3>2, <3>3, <4>2, StatusFacts DEF Pending
            <4>3. QED
                BY <3>1, <4>1, <4>2
        <3>5. Pending(t) \in Abstract!Reportable
            BY DEF Pending, Abstract!Reportable
        <3>6. told' = [told EXCEPT ![i] = Pending(t)] /\ UNCHANGED kernel
            BY <2>4 DEF MonReport, Pending
        <3>7. seen' = [seen EXCEPT ![i] = Abstract!Visible(link(kernel)[i])]
            BY <2>4, <3>1, AbstractVisible DEF MonReport
        <3>8. Abstract!Report(i, Pending(t))
            BY <3>2, <3>4, <3>6, <3>7 DEF Abstract!Report
        <3>9. QED
            BY <3>1, <3>5, <3>8 DEF Abstract!Next
    <2>5. ASSUME NEW t \in Threads, MonWait(t) \/ MonCheck(t) \/ MonPoll(t)
                                      \/ MonPollFail(t)
          PROVE  UNCHANGED Abstract!vars
        BY <2>1, <2>5 DEF MonWait, MonCheck, MonPoll, MonPollFail,
                          Abstract!vars
    <2>6. CASE Kernel
        BY <2>2, <2>6 DEF Kernel, Plug, Unplug, Carrier, SetAdmin
    <2>7. CASE PreStart
        <3>1. ASSUME NEW i \in Intf, BringUpOne(i)
              PROVE  Abstract!Next \/ UNCHANGED Abstract!vars
            <4>1. CASE kernel[i].present /\ i \in Real
                BY <2>2, <3>1, <4>1 DEF BringUpOne
            <4>2. CASE ~(kernel[i].present /\ i \in Real)
                BY <2>1, <3>1, <4>2 DEF BringUpOne
            <4>3. QED
                BY <4>1, <4>2
        <3>2. QED
            BY <2>1, <2>7, <3>1 DEF PreStart, BringUpFind, AgentStart
    <2>8. CASE WanManagerInitialized \/ NotifyReady \/ RegisterLinkEventCallback
        BY <2>1, <2>8 DEF WanManagerInitialized, NotifyReady,
                          RegisterLinkEventCallback
    <2>9. CASE HalInit(Main)
        BY <2>1, <2>9 DEF HalInit, InitCheck, InitAlloc, InitConnect,
               InitConnectFail, InitCreate, InitCreateFail, InitDone
    <2>10. QED
        BY <2>1, <2>3, <2>4, <2>5, <2>6, <2>7, <2>8, <2>9
           DEF Next, Agent, Monitor, vars
<1>3. QED
    BY <1>1, <1>2, TypeCorrect, CreatorInvariant, MemoryInvariant,
       NewsInvariant, PTL DEF Spec, ImplementsLinkEvents, Abstract!Spec
=============================================================================
