------------------------------- MODULE UspPa --------------------------------
(***************************************************************************)
(* usp-pa.service and usp-pa-resolve-wan-ifname.sh: obuspa is started with *)
(* the interface that the WAN manager publishes, once the WAN has started. *)
(* The WAN and its devices come and go between any two steps of a start.   *)
(***************************************************************************)
EXTENDS WanManager

VARIABLES
    booted,         \* Utopia has ended, as resolve-wan-ifname.sh always does
    started,        \* /var/run/wan_started was touched
    present,        \* network devices that exist
    usp,            \* the unit
    uspName,        \* IF_NAME of the script
    uspEnv,         \* USP_PA_WAN_IF_NAME in wan.env
    published       \* history: names published during this start

uspVars == <<booted, started, present, usp, uspName, uspEnv, published, wanVars>>

UspInit ==
    /\ booted = FALSE /\ started = FALSE
    /\ present = {}
    /\ usp = "stopped" /\ uspName = Empty /\ uspEnv = NoFile
    /\ published = {}
    /\ wanInit

-----------------------------------------------------------------------------
(* What the unit waits for *)

unitFrame == <<usp, uspName, uspEnv>>

Booted ==
    /\ ~booted
    /\ booted' = TRUE
    /\ UNCHANGED <<started, present, unitFrame, wanVars>>

Device ==
    /\ \E d \in Ifnames : present' \in {present \cup {d}, present \ {d}}
    /\ UNCHANGED <<booted, started, unitFrame, wanVars>>

\* The WAN manager's settings do not matter here, but the file it touches last
\* is what wan-initialized.path watches.
WanTouches ==
    /\ GoOn
    /\ started' = TRUE
    /\ UNCHANGED <<booted, present, unitFrame, faults>>

\* A remote interface, or one in cold standby, starts the WAN unpublished.
RemoteTouches ==
    /\ wanName = NoName
    /\ started' = TRUE
    /\ UNCHANGED <<booted, present, unitFrame, wanVars>>

WanChanges ==
    /\ SetCurrent \/ Withdraw
    /\ UNCHANGED <<booted, started, present, unitFrame>>

-----------------------------------------------------------------------------
(* The unit *)

uspFrame == <<booted, started, present, current, wanName, losses>>

\* The unit stops; with it goes its RuntimeDirectory, wan.env included.
UspStopped == usp' = "stopped" /\ uspName' = Empty /\ uspEnv' = NoFile

\* ExecStartPre creates wan.env, empty.  The unit is wanted by
\* wan-initialized.target, which comes after Utopia and waits for wan_started.
UspStart ==
    /\ usp = "stopped" /\ booted /\ started
    /\ usp' = "read"
    /\ uspEnv' = Empty
    /\ UNCHANGED <<uspName, faults, uspFrame>>

\* Bug variant: an empty answer of sysevent is not an error.
UspReadAny ==
    /\ usp = "read"
    /\ uspName' = current
    /\ usp' = "check" /\ UNCHANGED uspEnv
    /\ UNCHANGED <<faults, uspFrame>>

\* An answer that is no interface name ends the start, as does none.
UspRead ==
    /\ usp = "read"
    /\ \/ /\ current \in Ifnames
          /\ usp' = "check" /\ uspName' = current
          /\ UNCHANGED <<uspEnv, faults>>
       \/ current \notin Ifnames /\ UspStopped /\ UNCHANGED faults
       \/ Fault /\ UspStopped
    /\ UNCHANGED uspFrame

\* Bug variant: the script waits for the device instead of failing.
UspCheckWaits ==
    /\ usp = "check"
    /\ uspName \in present \cup {Empty}
    /\ usp' = "exec" /\ uspEnv' = uspName /\ UNCHANGED uspName
    /\ UNCHANGED <<faults, uspFrame>>

\* Without a name this is a test for /sys/class/net/ itself, which exists.
UspCheck ==
    /\ usp = "check"
    /\ IF uspName \in present \cup {Empty}
       THEN usp' = "exec" /\ uspEnv' = uspName /\ UNCHANGED uspName ELSE UspStopped
    /\ UNCHANGED <<faults, uspFrame>>

\* obuspa runs with the name in wan.env, until it ends or is stopped.
UspExec ==
    /\ usp = "exec"
    /\ usp' = "run"
    /\ UNCHANGED <<uspName, uspEnv, faults, uspFrame>>

UspExit ==
    /\ usp = "run"
    /\ UspStopped
    /\ UNCHANGED <<faults, uspFrame>>

UspUnit == UspStart \/ UspRead \/ UspCheck \/ UspExec

UspReboot ==
    /\ Reboot
    /\ booted' = FALSE /\ started' = FALSE
    /\ present' = {}
    /\ UspStopped

-----------------------------------------------------------------------------
(* The specification *)

UspRemember ==
    published' = IF usp' = "stopped" THEN {}
                 ELSE IF usp' \in {"read", "check"}
                 THEN published \cup ({current'} \cap Ifnames) ELSE published

UspNext ==
    /\ \/ Booted \/ Device \/ WanTouches \/ RemoteTouches \/ WanChanges
       \/ UspUnit \/ UspExit \/ UspReboot
    /\ UspRemember

UspSpec == UspInit /\ [][UspNext]_uspVars

-----------------------------------------------------------------------------
(* Properties *)

UspTypeOK ==
    /\ wanType
    /\ booted \in BOOLEAN /\ started \in BOOLEAN /\ present \in SUBSET Ifnames
    /\ usp \in {"stopped", "read", "check", "exec", "run"}
    /\ uspName \in Ifnames \cup {Empty}
    /\ uspEnv \in Ifnames \cup {Empty, NoFile}
    /\ published \in SUBSET Ifnames

\* obuspa is only ever started with a well-formed name that the WAN manager
\* published during this very start of the unit, never with none or an earlier
\* one.
UspOnWan == usp = "run" => uspEnv \in published \cap Ifnames

\* If the WAN manager settles on an interface that exists, usp-pa runs again
\* and again, however often a start failed before or obuspa ended.
UspComesUp ==
    \A n \in Ifnames :
        <>[](current = n /\ n \in present) => []<>(usp = "run")
=============================================================================
