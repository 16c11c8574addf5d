----------------------------- MODULE EthSwLink ------------------------------
(***************************************************************************)
(* Link events of the Ethernet switch HAL (ccsp_hal_ethsw.c) inside the    *)
(* process of the Ethernet agent: CcspHalEthSwInit, the monitor thread it  *)
(* creates, the registration of the link event callback, the readiness     *)
(* handshake with systemd and the WAN manager, and the start and restart   *)
(* of the agent's unit (bring_up_all_eth.sh runs before every start).      *)
(*                                                                         *)
(* Every step is one access to state that another thread, the kernel or    *)
(* another process can change.  sleep(1) is left to the scheduler.         *)
(***************************************************************************)
EXTENDS Naturals, FiniteSets

CONSTANTS
    ETH_INTF_MAX,   \* interfaces polled: eth0 .. eth(ETH_INTF_MAX - 1)
    Real,           \* those backed by a device (/sys/class/net/ethN/device)
    AdminManaged,   \* those whose admin flag is changed at run time
    Main,           \* the agent's main thread, the one that registers
    Others,         \* other threads of the agent that may call the HAL's init
    Threads,        \* identities for the monitor threads pthread_create makes
    MaxFaults       \* bound: crashes, failing calls and netlink errors

Intf    == 0 .. (ETH_INTF_MAX - 1)
Callers == {Main} \cup Others

ASSUME IntfAssumption ==
    /\ ETH_INTF_MAX \in Nat \ {0}
    /\ Real \subseteq Intf
    /\ AdminManaged \subseteq Intf

ASSUME ThreadAssumption == Main \notin Others

ASSUME FaultAssumption == MaxFaults \in Nat

VARIABLES
    kernel,             \* kernel[i]: device present, admin up, carrier
    wanManager,         \* /tmp/wanmanager_initialized exists
    bringUp,            \* interfaces bring_up_all_eth.sh still has to visit
    callPc,             \* where each caller of the HAL is
    hal_init_done,      \* static int of the HAL
    sk,                 \* the one netlink socket of the HAL
    linkEventCallback,  \* TRUE once a callback is registered (non-NULL)
    monPc,              \* where each monitor thread is
    monX,               \* the loop index of each monitor thread
    monUp,              \* IFF_RUNNING as the monitor last read it
    link_statuses,      \* the monitor's local previous_link_status_t array
    owner,              \* history: the caller that created the thread
    told,               \* history: the last state given to the callback
    seen,               \* history: link states since the last report
    faults              \* faults so far, capped by MaxFaults

envVars  == <<kernel, wanManager, faults>>
initVars == <<bringUp, callPc, hal_init_done, sk, linkEventCallback>>
monVars  == <<monPc, monX, monUp, link_statuses, owner>>
histVars == <<told, seen>>
vars     == <<envVars, initVars, monVars, histVars>>

-----------------------------------------------------------------------------
(* Types *)

Device  == [present : BOOLEAN, admin : BOOLEAN, carrier : BOOLEAN]
NoDevice == [present |-> FALSE, admin |-> FALSE, carrier |-> FALSE]

PreviousStatus == {"FIRST_RUN", "LINK_WAS_DOWN", "LINK_WAS_UP"}

\* rest: not in the HAL; prefind and preup: ExecStartPre is running;
\* alloc .. setdone: inside CcspHalEthSwInit; register, notify, ready: main.
CallPcs == {"prefind", "preup", "rest", "alloc", "connect", "create",
            "setdone", "register", "notify", "ready"}
MonPcs  == {"none", "wait", "check", "poll", "report"}
SkState == {"none", "unconnected", "connected"}

TypeOK ==
    /\ kernel \in [Intf -> Device]
    /\ wanManager \in BOOLEAN
    /\ bringUp \in SUBSET Intf
    /\ callPc \in [Callers -> CallPcs]
    /\ hal_init_done \in BOOLEAN
    /\ sk \in SkState
    /\ linkEventCallback \in BOOLEAN
    /\ monPc \in [Threads -> MonPcs]
    /\ monX \in [Threads -> Intf]
    /\ monUp \in [Threads -> BOOLEAN]
    /\ link_statuses \in [Threads -> [Intf -> PreviousStatus]]
    /\ owner \in [Threads -> Callers]
    /\ told \in [Intf -> {"none", "Up", "Down"}]
    /\ seen \in [Intf -> SUBSET {"Up", "Down"}]
    /\ faults \in 0 .. MaxFaults

-----------------------------------------------------------------------------
(* Helpers *)

\* IFF_RUNNING: the device is administratively up and has a carrier.
Running(d) == d.admin /\ d.carrier

\* The state of a device as a link event names it.
LinkValueOf(d) == IF ~d.present THEN "absent"
                  ELSE IF Running(d) THEN "Up" ELSE "Down"

\* The states of a device that a link event could name.
Visible(d) == {LinkValueOf(d)} \ {"absent"}

Monitors == {t \in Threads : monPc[t] # "none"}

\* The agent's process exists (ExecStartPre has finished).
Alive == callPc[Main] \notin {"prefind", "preup"}

\* Where a caller continues when CcspHalEthSwInit returns: the main thread
\* ignores the result and registers its callback.
Return(c) == IF c = Main THEN "register" ELSE "rest"

Goto(c, label) == callPc' = [callPc EXCEPT ![c] = label]

Fault == faults < MaxFaults /\ faults' = faults + 1

\* The link of device i becomes d.
SetDevice(i, d) ==
    /\ kernel' = [kernel EXCEPT ![i] = d]
    /\ seen' = [seen EXCEPT ![i] = @ \cup Visible(d)]

\* All that the process held is gone: a fresh start of the unit.
ProcessGone ==
    /\ callPc' = [c \in Callers |-> IF c = Main THEN "prefind" ELSE "rest"]
    /\ bringUp' = {}
    /\ hal_init_done' = FALSE
    /\ sk' = "none"
    /\ linkEventCallback' = FALSE
    /\ monPc' = [t \in Threads |-> "none"]
    /\ monX' = [t \in Threads |-> 0]
    /\ monUp' = [t \in Threads |-> FALSE]
    /\ link_statuses' = [t \in Threads |-> [i \in Intf |-> "FIRST_RUN"]]
    /\ owner' = [t \in Threads |-> Main]
    /\ told' = [i \in Intf |-> "none"]
    /\ seen' = [i \in Intf |-> Visible(kernel[i])]

Init ==
    /\ kernel \in [Intf -> {d \in Device : ~d.admin /\ (d.carrier => d.present)}]
    /\ wanManager = FALSE
    /\ bringUp = {}
    /\ callPc = [c \in Callers |-> IF c = Main THEN "prefind" ELSE "rest"]
    /\ hal_init_done = FALSE
    /\ sk = "none"
    /\ linkEventCallback = FALSE
    /\ monPc = [t \in Threads |-> "none"]
    /\ monX = [t \in Threads |-> 0]
    /\ monUp = [t \in Threads |-> FALSE]
    /\ link_statuses = [t \in Threads |-> [i \in Intf |-> "FIRST_RUN"]]
    /\ owner = [t \in Threads |-> Main]
    /\ told = [i \in Intf |-> "none"]
    /\ seen = [i \in Intf |-> Visible(kernel[i])]
    /\ faults = 0

-----------------------------------------------------------------------------
(* The kernel and the other processes (external) *)

\* A device appears, administratively down.
Plug(i) ==
    /\ ~kernel[i].present
    /\ \E c \in BOOLEAN :
          SetDevice(i, [present |-> TRUE, admin |-> FALSE, carrier |-> c])
    /\ UNCHANGED <<wanManager, faults, initVars, monVars, told>>

Unplug(i) ==
    /\ kernel[i].present
    /\ SetDevice(i, NoDevice)
    /\ UNCHANGED <<wanManager, faults, initVars, monVars, told>>

\* The cable is plugged or pulled.
Carrier(i) ==
    /\ kernel[i].present
    /\ SetDevice(i, [kernel[i] EXCEPT !.carrier = ~@])
    /\ UNCHANGED <<wanManager, faults, initVars, monVars, told>>

\* `ip link set ethN up|down` at run time (CcspHalEthSwSetPortAdminStatus).
SetAdmin(i) ==
    /\ i \in AdminManaged
    /\ kernel[i].present
    /\ SetDevice(i, [kernel[i] EXCEPT !.admin = ~@])
    /\ UNCHANGED <<wanManager, faults, initVars, monVars, told>>

\* systemd starts the WAN manager only after the agent's READY; once
\* initialised the WAN manager leaves its marker file in /tmp for good.
WanManagerInitialized ==
    /\ ~wanManager
    /\ callPc[Main] = "ready"
    /\ wanManager' = TRUE
    /\ UNCHANGED <<kernel, faults, initVars, monVars, histVars>>

Kernel == \E i \in Intf : Plug(i) \/ Unplug(i) \/ Carrier(i) \/ SetAdmin(i)

-----------------------------------------------------------------------------
(* bring_up_all_eth.sh, run by systemd before the agent starts *)

\* The for loop's list is taken once, before the first iteration.
BringUpFind ==
    /\ callPc[Main] = "prefind"
    /\ bringUp' = {i \in Intf : kernel[i].present}
    /\ Goto(Main, "preup")
    /\ UNCHANGED <<envVars, hal_init_done, sk, linkEventCallback, monVars,
                   histVars>>

\* Bug variant: the script lists the interfaces but leaves them down.
BringUpOneNoUp(i) ==
    /\ callPc[Main] = "preup"
    /\ i \in bringUp
    /\ bringUp' = bringUp \ {i}
    /\ UNCHANGED <<envVars, callPc, hal_init_done, sk, linkEventCallback,
                   monVars, histVars>>

\* One iteration: anything without a device directory is skipped.
BringUpOne(i) ==
    /\ callPc[Main] = "preup"
    /\ i \in bringUp
    /\ bringUp' = bringUp \ {i}
    /\ IF kernel[i].present /\ i \in Real
       THEN SetDevice(i, [kernel[i] EXCEPT !.admin = TRUE])
       ELSE UNCHANGED <<kernel, seen>>
    /\ UNCHANGED <<wanManager, faults, callPc, hal_init_done, sk,
                   linkEventCallback, monVars, told>>

\* `ip link set` fails, set -e ends the script, the unit's start fails and
\* systemd starts it again.
BringUpFail ==
    /\ callPc[Main] = "preup"
    /\ bringUp \cap Real # {}
    /\ Fault
    /\ ProcessGone
    /\ UNCHANGED <<kernel, wanManager>>

\* The script is done; ExecStart runs the agent's main thread.
AgentStart ==
    /\ callPc[Main] = "preup"
    /\ bringUp = {}
    /\ Goto(Main, "rest")
    /\ UNCHANGED <<envVars, bringUp, hal_init_done, sk, linkEventCallback,
                   monVars, histVars>>

\* The agent's process dies; its unit has Restart=always.
AgentCrash ==
    /\ Alive
    /\ Fault
    /\ ProcessGone
    /\ UNCHANGED <<kernel, wanManager>>

-----------------------------------------------------------------------------
(* CcspHalEthSwInit, one step per access to shared state *)

\* Bug variant: hal_init_done is not looked at.
InitCheckAlways(c) ==
    /\ Alive
    /\ callPc[c] = "rest"
    /\ Goto(c, "alloc")
    /\ UNCHANGED <<envVars, bringUp, hal_init_done, sk, linkEventCallback,
                   monVars, histVars>>

InitCheck(c) ==
    /\ Alive
    /\ callPc[c] = "rest"
    /\ Goto(c, IF hal_init_done THEN Return(c) ELSE "alloc")
    /\ UNCHANGED <<envVars, bringUp, hal_init_done, sk, linkEventCallback,
                   monVars, histVars>>

\* sk = nl_socket_alloc(), whatever sk held before.
InitAlloc(c) ==
    /\ callPc[c] = "alloc"
    /\ sk' = "unconnected"
    /\ Goto(c, "connect")
    /\ UNCHANGED <<envVars, bringUp, hal_init_done, linkEventCallback,
                   monVars, histVars>>

InitConnect(c) ==
    /\ callPc[c] = "connect"
    /\ sk = "unconnected"
    /\ sk' = "connected"
    /\ Goto(c, "create")
    /\ UNCHANGED <<envVars, bringUp, hal_init_done, linkEventCallback,
                   monVars, histVars>>

\* Bug variant: the result of nl_connect is not looked at.
InitConnectFailIgnored(c) ==
    /\ callPc[c] = "connect"
    /\ Fault
    /\ Goto(c, "create")
    /\ UNCHANGED <<kernel, wanManager, bringUp, hal_init_done, sk,
                   linkEventCallback, monVars, histVars>>

\* nl_connect fails, also when another caller has connected this socket.
InitConnectFail(c) ==
    /\ callPc[c] = "connect"
    /\ IF sk = "connected" THEN UNCHANGED faults ELSE Fault
    /\ Goto(c, Return(c))
    /\ UNCHANGED <<kernel, wanManager, bringUp, hal_init_done, sk,
                   linkEventCallback, monVars, histVars>>

InitCreate(c) ==
    /\ callPc[c] = "create"
    /\ \E t \in Threads \ Monitors :
          /\ monPc' = [monPc EXCEPT ![t] = "wait"]
          /\ owner' = [owner EXCEPT ![t] = c]
    /\ Goto(c, "setdone")
    /\ UNCHANGED <<envVars, bringUp, hal_init_done, sk, linkEventCallback,
                   monX, monUp, link_statuses, histVars>>

InitCreateFail(c) ==
    /\ callPc[c] = "create"
    /\ Fault
    /\ Goto(c, Return(c))
    /\ UNCHANGED <<kernel, wanManager, bringUp, hal_init_done, sk,
                   linkEventCallback, monVars, histVars>>

InitDone(c) ==
    /\ callPc[c] = "setdone"
    /\ hal_init_done' = TRUE
    /\ Goto(c, Return(c))
    /\ UNCHANGED <<envVars, bringUp, sk, linkEventCallback, monVars, histVars>>

HalInit(c) ==
    \/ InitCheck(c) \/ InitAlloc(c) \/ InitConnect(c) \/ InitConnectFail(c)
    \/ InitCreate(c) \/ InitCreateFail(c) \/ InitDone(c)

\* CcspHalEthSw_RegisterLinkEventCallback(CosaDmlEthPortLinkStatusCallback).
RegisterLinkEventCallback ==
    /\ callPc[Main] = "register"
    /\ linkEventCallback' = TRUE
    /\ Goto(Main, "notify")
    /\ UNCHANGED <<envVars, bringUp, hal_init_done, sk, monVars, histVars>>

\* Bug variant: READY is sent only once link events can flow.
NotifyReadyWhenWired ==
    /\ callPc[Main] = "notify"
    /\ wanManager
    /\ Goto(Main, "ready")
    /\ UNCHANGED <<envVars, bringUp, hal_init_done, sk, linkEventCallback,
                   monVars, histVars>>

\* sd_notify(0, "READY=1") at the end of CosaBackEndManagerInitialize.
NotifyReady ==
    /\ callPc[Main] = "notify"
    /\ Goto(Main, "ready")
    /\ UNCHANGED <<envVars, bringUp, hal_init_done, sk, linkEventCallback,
                   monVars, histVars>>

-----------------------------------------------------------------------------
(* ethsw_thread_main *)

\* wait_for_wan_manager returns once the marker file exists.
MonWait(t) ==
    /\ monPc[t] = "wait"
    /\ wanManager
    /\ monPc' = [monPc EXCEPT ![t] = "check"]
    /\ UNCHANGED <<envVars, initVars, monX, monUp, link_statuses, owner,
                   histVars>>

\* Bug variant: the monitor does not wait for a callback.
MonCheckNoCallback(t) ==
    /\ monPc[t] = "check"
    /\ monPc' = [monPc EXCEPT ![t] = "poll"]
    /\ monX' = [monX EXCEPT ![t] = 0]
    /\ UNCHANGED <<envVars, initVars, monUp, link_statuses, owner, histVars>>

\* The outer loop goes round until a callback is registered.
MonCheck(t) ==
    /\ monPc[t] = "check"
    /\ linkEventCallback
    /\ monPc' = [monPc EXCEPT ![t] = "poll"]
    /\ monX' = [monX EXCEPT ![t] = 0]
    /\ UNCHANGED <<envVars, initVars, monUp, link_statuses, owner, histVars>>

\* The for loop goes on to the next interface, or the outer loop starts over.
Continue(t) ==
    IF monX[t] < ETH_INTF_MAX - 1
    THEN /\ monX' = [monX EXCEPT ![t] = @ + 1]
         /\ monPc' = [monPc EXCEPT ![t] = "poll"]
    ELSE /\ monX' = [monX EXCEPT ![t] = 0]
         /\ monPc' = [monPc EXCEPT ![t] = "check"]

\* The status that says that running has been reported.
StatusOf(running) == IF running THEN "LINK_WAS_UP" ELSE "LINK_WAS_DOWN"

\* Bug variant: link_statuses is compared only on the first run.
MonPollRepeats(t) ==
    LET i == monX[t]
    IN /\ monPc[t] = "poll"
       /\ sk = "connected"
       /\ kernel[i].present
       /\ monPc' = [monPc EXCEPT ![t] = "report"]
       /\ monUp' = [monUp EXCEPT ![t] = Running(kernel[i])]
       /\ UNCHANGED <<monX, envVars, initVars, link_statuses, owner, histVars>>

\* rtnl_link_get_kernel succeeds: decide whether this is news.
MonPoll(t) ==
    LET i == monX[t]
        running == Running(kernel[i])
    IN /\ monPc[t] = "poll"
       /\ sk = "connected"
       /\ kernel[i].present
       /\ IF link_statuses[t][i] # StatusOf(running)
          THEN /\ monPc' = [monPc EXCEPT ![t] = "report"]
               /\ monUp' = [monUp EXCEPT ![t] = running]
               /\ UNCHANGED monX
          ELSE Continue(t) /\ UNCHANGED monUp
       /\ UNCHANGED <<envVars, initVars, link_statuses, owner, histVars>>

\* Bug variant: an error other than a missing device ends the thread.
MonPollFailEnds(t) ==
    /\ monPc[t] = "poll"
    /\ IF ~kernel[monX[t]].present \/ sk # "connected"
       THEN Continue(t) /\ UNCHANGED faults
       ELSE /\ Fault
            /\ monPc' = [monPc EXCEPT ![t] = "none"]
            /\ UNCHANGED monX
    /\ UNCHANGED <<kernel, wanManager, initVars, monUp, link_statuses, owner,
                   histVars>>

\* rtnl_link_get_kernel fails: no such device, no usable socket, or an error.
MonPollFail(t) ==
    /\ monPc[t] = "poll"
    /\ IF ~kernel[monX[t]].present \/ sk # "connected"
       THEN UNCHANGED faults
       ELSE Fault
    /\ Continue(t)
    /\ UNCHANGED <<kernel, wanManager, initVars, monUp, link_statuses, owner,
                   histVars>>

\* Bug variant: what was reported is not remembered.
MonReportForgets(t) ==
    LET i == monX[t]
    IN /\ monPc[t] = "report"
       /\ told' = [told EXCEPT ![i] = IF monUp[t] THEN "Up" ELSE "Down"]
       /\ seen' = [seen EXCEPT ![i] = Visible(kernel[i])]
       /\ Continue(t)
       /\ UNCHANGED <<envVars, initVars, monUp, link_statuses, owner>>

\* linkEventCallback(ethN, "Up" or "Down"), then remember what was reported.
MonReport(t) ==
    LET i == monX[t]
    IN /\ monPc[t] = "report"
       /\ told' = [told EXCEPT ![i] = IF monUp[t] THEN "Up" ELSE "Down"]
       /\ seen' = [seen EXCEPT ![i] = Visible(kernel[i])]
       /\ link_statuses' =
             [link_statuses EXCEPT ![t][i] = StatusOf(monUp[t])]
       /\ Continue(t)
       /\ UNCHANGED <<envVars, initVars, monUp, owner>>

Monitor(t) ==
    MonWait(t) \/ MonCheck(t) \/ MonPoll(t) \/ MonPollFail(t) \/ MonReport(t)

-----------------------------------------------------------------------------
(* The specification *)

PreStart == BringUpFind \/ (\E i \in Intf : BringUpOne(i)) \/ AgentStart

Agent == PreStart \/ HalInit(Main) \/ RegisterLinkEventCallback \/ NotifyReady

Next ==
    \/ Kernel
    \/ WanManagerInitialized
    \/ Agent
    \/ BringUpFail
    \/ AgentCrash
    \/ \E c \in Others : HalInit(c)
    \/ \E t \in Threads : Monitor(t)

Spec == Init /\ [][Next]_vars

\* The agent's threads are scheduled, and systemd starts the WAN manager.
\* Nothing is assumed of the kernel's links, of faults or of other callers.
Fairness ==
    /\ WF_vars(Agent)
    /\ WF_vars(WanManagerInitialized)
    /\ \A t \in Threads : WF_vars(Monitor(t))

FairSpec == Spec /\ Fairness

-----------------------------------------------------------------------------
(* Properties *)

\* A monitor thread that polls or reports finds a registered callback and an
\* initialised WAN manager: linkEventCallback is never called as NULL (the
\* check at the top of the loop is not repeated before the call), and no
\* event is sent before the WAN manager has started.
ReportsOnlyWhenWired ==
    \A t \in Threads :
        monPc[t] \in {"poll", "report"} => linkEventCallback /\ wanManager

\* However often a thread calls CcspHalEthSwInit, and however its calls fail
\* or overlap with other threads' calls, it creates at most one monitor.
OneMonitorPerCaller ==
    \A t, u \in Monitors : owner[t] = owner[u] => t = u

\* If only the main thread initialises the HAL, a monitor never polls on a
\* socket that is not connected, although every attempt to initialise
\* replaces the socket before it connects the new one.
MonitorHasSocket == Others = {} /\ Monitors # {} => sk = "connected"

\* The previous status that goes with what the agent was last told.
StatusFor(v) == IF v = "none" THEN "FIRST_RUN" ELSE StatusOf(v = "Up")

\* The monitor's private link_statuses is what the agent was told: reports
\* lost, doubled or made on behalf of another thread would break it.
StatusesMatchTold ==
    Others = {} =>
        \A t \in Monitors, i \in Intf : link_statuses[t][i] = StatusFor(told[i])

\* The HAL implements LinkEvents: no repeated report and none that was not
\* true at some moment since the last one, although the state is read and
\* reported in separate steps.
Abstract == INSTANCE LinkEvents
                WITH link <- [i \in Intf |-> LinkValueOf(kernel[i])]

ImplementsLinkEvents == Abstract!Spec

\* A link state that lasts while the HAL stays initialised is what the agent
\* ends up being told, whatever happened before: flaps between two polls,
\* netlink errors, hot-plugging, earlier crashes of the agent.
LastingLinkIsReported ==
    \A i \in Intf : \A s \in {"Up", "Down"} :
        <>[](hal_init_done /\ LinkValueOf(kernel[i]) = s) => <>[](told[i] = s)

\* A real device that is there from boot on and gets a lasting carrier is
\* reported "Up": bring_up_all_eth.sh has set it administratively up, and
\* nothing sets an interface down that is not under run-time control.
CarrierIsReportedUp ==
    \A i \in Real \ AdminManaged :
        /\ [](kernel[i].present)
        /\ <>[](hal_init_done /\ kernel[i].carrier)
        => <>[](told[i] = "Up")

\* The agent becomes ready and the WAN manager initialises: the agent does
\* not wait for the WAN manager that waits for the agent.
BootCompletes == <>[](wanManager /\ callPc[Main] = "ready")
=============================================================================
