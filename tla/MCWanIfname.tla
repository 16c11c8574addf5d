---------------------------- MODULE MCWanIfname -----------------------------
(***************************************************************************)
(* Small instances of WanIfname and of UspPa for TLC, in one run: a        *)
(* behaviour follows the settings or usp-pa.  Only the WAN manager acts on *)
(* both, and neither acts on it or on the other.                           *)
(***************************************************************************)
EXTENDS WanIfname, UspPa

VARIABLE part

mcVars == <<part, vars, uspVars>>

settingVars == <<cfgVars, storeVars, scriptVars, offered, wanSet, failed>>
unitVars    == <<booted, started, present, unitFrame, published>>

\* A board's own configuration that says what default.xml says adds nothing.
MCInit ==
    /\ part \in {"settings", "usp"}
    /\ Init /\ UspInit
    /\ rom.machineXml # rom.defaultXml \/ rom.defCfg # NoFile
    /\ part = "usp" => rom.defCfg = DEFAULT_WAN_IFNAME

MCNext ==
    /\ UNCHANGED part
    /\ \/ part = "settings" /\ Next /\ UNCHANGED unitVars
       \/ part = "usp" /\ UspNext /\ UNCHANGED settingVars

\* Utopia ends, the WAN manager's thread runs on, and systemd starts a unit again
\* that says Restart=always: RestartSec=30 keeps usp-pa below the limit of five
\* starts in ten seconds.
MCSpec ==
    /\ MCInit /\ [][MCNext]_mcVars
    /\ WF_uspVars(part = "usp" /\ Booted /\ UspRemember)
    /\ WF_uspVars(part = "usp" /\ WanTouches /\ UspRemember)
    /\ WF_uspVars(part = "usp" /\ UspUnit /\ UspRemember)
=============================================================================
