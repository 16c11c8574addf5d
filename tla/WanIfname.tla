----------------------------- MODULE WanIfname ------------------------------
(***************************************************************************)
(* Which network interface is the WAN, and who is told.                    *)
(*                                                                         *)
(* PSM holds the name of the WAN interface; copy_config.sh gives it the    *)
(* configuration of the board it runs on.  At boot utopia_init.sh applies  *)
(* system_defaults and then resolve-wan-ifname.sh, which points Utopia's   *)
(* own settings at the interface that PSM or, if it was quicker, the WAN   *)
(* manager names.  The WAN manager publishes the interface it brings up,   *)
(* and writes it to one of those settings too.  The units are not ordered  *)
(* among each other, so their steps interleave; commands may fail, and     *)
(* power may be lost between any two steps.                                *)
(***************************************************************************)
EXTENDS WanManager

DEFAULT_WAN_IFNAME == "eth1"
Partial == "partial"    \* a file that is being written

ASSUME IfnameAssumption ==
    DEFAULT_WAN_IFNAME \in Ifnames /\ Partial \notin Ifnames

VARIABLES
    rom,            \* what board and image fix
    nvCfg,          \* the record in /nvram/bbhm_cur_cfg.xml
    defCfg,         \* the record in /usr/ccsp/config/bbhm_def_cfg.xml
    psm,            \* copy_config.sh and PSM
    wanIfname,      \* sysevent wan_ifname
    syscfg, saved,  \* the names in syscfg, and their copy on flash
    pc, ifname, key, changed,   \* resolve-wan-ifname.sh
    offered,        \* history: names on offer while the script ran; once it has
                    \* ended, of these the one it took
    wanSet,         \* history: the WAN manager's wan_physical_ifname, as long
                    \* as nobody else has written it since
    failed          \* history: settings and commits that failed since boot

cfgVars    == <<rom, nvCfg, defCfg, psm>>
scriptVars == <<pc, ifname, key, changed>>
storeVars  == <<wanIfname, syscfg, saved>>
vars == <<cfgVars, wanVars, storeVars, scriptVars, offered, wanSet, failed>>

Keys == <<"wan_physical_ifname", "ecm_wan_ifname",
          "cosa_usgv2_rip00::If1Name", "tr_Neighdisc_If_interface">>
KeySet == {Keys[i] : i \in 1 .. 4}

\* A universal image has a configuration for each board it knows and one for
\* all others; an image for one machine has its configuration in place.  A
\* board is named by its device tree or by DMI, or not at all.
UniversalRoms ==
    [named : {TRUE}, machineXml : Ifnames \cup {NoFile},
     defaultXml : {DEFAULT_WAN_IFNAME}, defCfg : {NoFile}]
    \cup [named : {FALSE}, machineXml : {NoFile},
          defaultXml : {DEFAULT_WAN_IFNAME}, defCfg : {NoFile}]
MachineRoms ==
    [named : {TRUE}, machineXml : {NoFile}, defaultXml : {NoFile}, defCfg : Ifnames]
Roms == UniversalRoms \cup MachineRoms

PcValues  == {"defaults", "sysevent", "nvCfg", "defCfg", "machineCfg", "set",
              "keys", "commit", "done"}

-----------------------------------------------------------------------------
(* The names *)

\* The configuration that belongs to the board.
MachineCfg ==
    IF rom.machineXml # NoFile THEN rom.machineXml ELSE rom.defaultXml

BoardName == IF rom.defCfg # NoFile THEN rom.defCfg ELSE MachineCfg

\* The record as PSM sees it: the current configuration before the default.
PsmName == IF nvCfg \in {NoFile, Empty} THEN BoardName ELSE nvCfg

Sanitized(text) == IF text \in Ifnames THEN text ELSE DEFAULT_WAN_IFNAME

\* The names that PSM and the WAN manager offer.
Offered == {Sanitized(name) : name \in {PsmName} \cup ({current} \ {Empty})}

\* waninfo.sh: the WAN interface, and the one whose address is the WAN's.
getWanInterfaceName ==
    IF current # Empty THEN current ELSE syscfg["wan_physical_ifname"]
getWanMacInterfaceName ==
    IF syscfg["wan_physical_ifname"] # Empty
    THEN syscfg["wan_physical_ifname"] ELSE wanIfname

\* The record that sed finds in a file.  In one that is being copied it may
\* be there or not yet.
RecordIn(cfg) ==
    IF cfg = NoFile THEN {Empty}
    ELSE IF cfg = Partial THEN {Empty, BoardName} ELSE {cfg}

-----------------------------------------------------------------------------
(* Initial state: the first boot. *)

Init ==
    /\ rom \in Roms
    /\ nvCfg = NoFile
    /\ defCfg = rom.defCfg
    /\ psm = "down"
    /\ wanIfname = Empty
    /\ syscfg = [k \in KeySet |-> Empty]
    /\ saved = syscfg
    /\ pc = "defaults" /\ ifname = Empty /\ key = 1 /\ changed = FALSE
    /\ offered = {} /\ wanSet = Empty /\ failed = {}
    /\ wanInit

-----------------------------------------------------------------------------
(* utopia_init.sh: apply_system_defaults, resolve-wan-ifname.sh *)

scriptFrame == <<cfgVars, current, wanName, losses>>

\* A command whose result the caller ignores: it does its work, or fails.
Done        == UNCHANGED <<failed, faults>>
Fails(what) == Fault /\ failed' = failed \cup {what}

\* $$ in system_defaults overrides what is set, $ does not; the fourth name
\* has no default.  Whether the change reaches the flash is not decided here.
Defaults ==
    [k \in KeySet |->
        IF \/ k \in {"wan_physical_ifname", "ecm_wan_ifname"}
           \/ k = "cosa_usgv2_rip00::If1Name" /\ syscfg[k] = Empty
        THEN DEFAULT_WAN_IFNAME ELSE syscfg[k]]

ApplyDefaults ==
    /\ pc = "defaults"
    /\ pc' = "sysevent"
    /\ syscfg' = Defaults
    /\ saved' \in {saved, Defaults}
    /\ wanIfname' = IF wanIfname = Empty THEN DEFAULT_WAN_IFNAME ELSE wanIfname
    /\ wanSet' = Empty
    /\ Done
    /\ UNCHANGED <<ifname, key, changed, scriptFrame>>

\* What the WAN manager publishes comes first; sysevent may fail to say.
ReadSysevent ==
    /\ pc = "sysevent"
    /\ pc' = "nvCfg"
    /\ \/ ifname' = current /\ UNCHANGED faults
       \/ ifname' = Empty /\ Fault
    /\ UNCHANGED <<key, changed, wanSet, failed, storeVars, scriptFrame>>

\* One turn of the loop over the three files, which ends at the first name.
ReadCfg(at, cfg, next) ==
    /\ pc = at
    /\ ifname' \in IF ifname # Empty THEN {ifname} ELSE RecordIn(cfg)
    /\ pc' = IF ifname' # Empty THEN "set" ELSE next
    /\ Done
    /\ UNCHANGED <<key, changed, wanSet, storeVars, scriptFrame>>

ReadNvCfg   == ReadCfg("nvCfg", nvCfg, "defCfg")
ReadDefCfg  == ReadCfg("defCfg", defCfg, "machineCfg")

\* Bug variant: the board's own configuration is not looked for.
ReadMachineCfgDefault == ReadCfg("machineCfg", rom.defaultXml, "set")

ReadMachineCfg == ReadCfg("machineCfg", MachineCfg, "set")

SetSysevent ==
    /\ pc = "set"
    /\ pc' = "keys"
    /\ ifname' = Sanitized(ifname)
    /\ \/ wanIfname' = Sanitized(ifname) /\ Done
       \/ Fails("sysevent") /\ UNCHANGED wanIfname
    /\ key' = 1 /\ changed' = FALSE
    /\ UNCHANGED <<syscfg, saved, wanSet, scriptFrame>>

\* A setting gets a name; wan_physical_ifname is no longer the WAN manager's.
Write(k, name) ==
    /\ syscfg' = [syscfg EXCEPT ![k] = name]
    /\ wanSet' = IF k = "wan_physical_ifname" THEN Empty ELSE wanSet
    /\ Done

\* After the last of the settings the changes, if any, are written to flash.
NextKey(change) ==
    /\ \/ key < 4 /\ pc' = "keys" /\ key' = key + 1 /\ changed' = change
       \/ /\ key = 4 /\ pc' = IF change THEN "commit" ELSE "done"
          /\ key' = 1 /\ changed' = FALSE
    /\ UNCHANGED <<ifname, wanIfname, saved, scriptFrame>>

\* Bug variant: only a change of the last setting counts.
SetKeyForgets ==
    /\ pc = "keys"
    /\ Write(Keys[key], ifname)
    /\ NextKey(syscfg[Keys[key]] # ifname)

\* Bug variant: a setting that has a value is left alone.
SetKeyUnset ==
    /\ pc = "keys"
    /\ Write(Keys[key], IF syscfg[Keys[key]] = Empty THEN ifname ELSE syscfg[Keys[key]])
    /\ NextKey(changed \/ syscfg[Keys[key]] # ifname)

\* One turn of the loop over the settings in syscfg.
SetKey ==
    /\ pc = "keys"
    /\ \/ Write(Keys[key], ifname)
       \/ syscfg[Keys[key]] # ifname /\ Fails(Keys[key]) /\ UNCHANGED <<syscfg, wanSet>>
    /\ NextKey(changed \/ syscfg[Keys[key]] # ifname)

Commit ==
    /\ pc = "commit"
    /\ pc' = "done"
    /\ \/ saved' = syscfg /\ Done
       \/ Fails("commit") /\ UNCHANGED saved
    /\ UNCHANGED <<ifname, key, changed, wanIfname, syscfg, wanSet, scriptFrame>>

Utopia ==
    \/ ApplyDefaults \/ ReadSysevent \/ ReadNvCfg \/ ReadDefCfg \/ ReadMachineCfg
    \/ SetSysevent \/ SetKey \/ Commit

-----------------------------------------------------------------------------
(* copy_config.sh and PSM *)

psmFrame == <<rom, current, wanName, storeVars, scriptVars, wanSet, failed, losses>>

\* "Default config file in place": PSM starts.
PsmStart ==
    /\ psm = "down"
    /\ defCfg # NoFile
    /\ psm' = "run"
    /\ UNCHANGED <<nvCfg, defCfg, faults, psmFrame>>

\* Without a name for the board set -e ends the script, and PSM does not start.
CopyStart ==
    /\ psm = "down"
    /\ defCfg = NoFile /\ rom.named
    /\ psm' = "copy"
    /\ defCfg' = Partial
    /\ UNCHANGED <<nvCfg, faults, psmFrame>>

CopyEnd ==
    /\ psm = "copy"
    /\ psm' = "run"
    /\ defCfg' = MachineCfg
    /\ UNCHANGED <<nvCfg, faults, psmFrame>>

\* What was copied stays, and the next attempt takes it for the whole.
CopyFail ==
    /\ psm = "copy"
    /\ Fault
    /\ psm' = "down"
    /\ UNCHANGED <<nvCfg, defCfg, psmFrame>>

PsmCrash ==
    /\ psm = "run"
    /\ psm' = "down"
    /\ UNCHANGED <<nvCfg, defCfg, faults, psmFrame>>

\* PSM saves its records: as they are, or with another WAN interface set.
PsmSave ==
    /\ psm = "run"
    /\ nvCfg' \in {PsmName, Empty, Invalid} \cup Ifnames
    /\ UNCHANGED <<defCfg, psm, faults, psmFrame>>

Psm == PsmStart \/ CopyStart \/ CopyEnd \/ CopyFail \/ PsmCrash \/ PsmSave

-----------------------------------------------------------------------------
(* The WAN manager and the power *)

wanFrame == <<cfgVars, wanIfname, scriptVars>>

\* The WAN manager takes its interfaces from PSM.
Publish ==
    /\ psm = "run"
    /\ SetCurrent
    /\ UNCHANGED <<wanSet, syscfg, saved, failed, wanFrame>>

\* syscfg_set_commit of a name that is not empty: the WAN manager writes
\* wan_physical_ifname too, and all of syscfg to flash.  Either may fail.
WanSetCommit ==
    \/ Fault /\ UNCHANGED <<wanSet, syscfg, saved, failed>>
    \/ /\ wanSet' = wanName
       /\ syscfg' = [syscfg EXCEPT !["wan_physical_ifname"] = wanName]
       /\ \/ saved' = syscfg' /\ Done
          \/ UNCHANGED saved /\ Fails("commit")

\* Before wan_started is touched the name is stored.
WanStarted ==
    /\ GoOn
    /\ \/ wanName = Empty /\ Done /\ UNCHANGED <<wanSet, syscfg, saved>>
       \/ wanName # Empty /\ WanSetCommit
    /\ UNCHANGED wanFrame

WanLost == Withdraw /\ UNCHANGED <<wanSet, syscfg, saved, failed, wanFrame>>

WanSteps == Publish \/ WanStarted \/ WanLost

PowerLoss ==
    /\ Reboot
    /\ defCfg' = rom.defCfg
    /\ psm' = "down"
    /\ wanIfname' = Empty
    /\ syscfg' = saved
    /\ pc' = "defaults" /\ ifname' = Empty /\ key' = 1 /\ changed' = FALSE
    /\ wanSet' = Empty /\ failed' = {}
    /\ UNCHANGED <<rom, nvCfg, saved>>

-----------------------------------------------------------------------------
(* The specification *)

Remember ==
    offered' = IF pc' = "defaults" THEN {}
               ELSE IF pc' # "done" THEN offered \cup Offered'
               ELSE IF pc # "done" THEN {ifname} \cap (offered \cup Offered')
               ELSE offered

Next ==
    /\ Utopia \/ Psm \/ WanSteps \/ PowerLoss
    /\ Remember

Spec == Init /\ [][Next]_vars

-----------------------------------------------------------------------------
(* Properties *)

TypeOK ==
    /\ rom \in Roms
    /\ nvCfg \in Texts \cup {NoFile}
    /\ defCfg \in Ifnames \cup {NoFile, Partial}
    /\ psm \in {"down", "copy", "run"}
    /\ wanIfname \in Ifnames \cup {Empty}
    /\ syscfg \in [KeySet -> Texts]
    /\ saved \in [KeySet -> Texts]
    /\ pc \in PcValues
    /\ ifname \in Texts /\ key \in 1 .. 4 /\ changed \in BOOLEAN
    /\ offered \in SUBSET Ifnames
    /\ wanSet \in Texts /\ failed \in SUBSET (KeySet \cup {"sysevent", "commit"})
    /\ wanType

\* The names a setting may have once the script has ended: the one the script
\* resolved and, in the one setting the WAN manager writes too, the interface
\* that it brought up last.
NamesFor(k) == {ifname} \cup IF k = "wan_physical_ifname" THEN {wanSet} \ {Empty} ELSE {}

\* Once resolve-wan-ifname.sh has ended, every setting whose command did not
\* fail has the name it resolved, and wan_physical_ifname that or the WAN
\* manager's; so what waninfo.sh falls back to is one of the two, or the
\* built-in default where a set failed.  A name that an earlier boot, cut short
\* or not, left in syscfg is never among them.
NamesAgree ==
    pc = "done" =>
        /\ "sysevent" \notin failed => wanIfname = ifname
        /\ \A k \in KeySet \ failed : syscfg[k] \in NamesFor(k)
        /\ {getWanMacInterfaceName, getWanInterfaceName} \subseteq
              NamesFor("wan_physical_ifname") \cup ({current} \ {Empty})
              \cup IF "wan_physical_ifname" \in failed THEN {DEFAULT_WAN_IFNAME} ELSE {}

\* That interface is one that PSM or the WAN manager named while the script
\* ran ("the interface this board actually uses, taken from PSM"), even if
\* PSM's default configuration was missing or half copied at the time.
PointsAtPsm == pc = "done" /\ "sysevent" \notin failed => wanIfname \in offered

\* A name other than the built-in default is on flash when the script ends,
\* unless syscfg commit, whose result nobody looks at, failed.
NamePersisted ==
    pc = "done" /\ "commit" \notin failed =>
        \A k \in KeySet : saved[k] = syscfg[k] \/ syscfg[k] = DEFAULT_WAN_IFNAME
=============================================================================
