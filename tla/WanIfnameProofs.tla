-------------------------- MODULE WanIfnameProofs ---------------------------
(* Theorems about WanIfname and UspPa, for any names, faults and losses. *)
EXTENDS WanIfname, UspPa, TLAPS

\* How far the loop over the settings has come.
KeysInv ==
    /\ pc = "keys" =>
          /\ ifname \in Ifnames
          /\ "sysevent" \notin failed => wanIfname = ifname
          /\ \A n \in 1 .. 4 : n < key /\ Keys[n] \notin failed =>
                syscfg[Keys[n]] \in NamesFor(Keys[n])
    /\ pc \in {"commit", "done"} =>
          /\ ifname \in Ifnames
          /\ "sysevent" \notin failed => wanIfname = ifname
          /\ \A k \in KeySet \ failed : syscfg[k] \in NamesFor(k)

\* wan_physical_ifname never has what an earlier boot left there.
PhysicalInv ==
    pc # "defaults" =>
        syscfg["wan_physical_ifname"] \in
            {DEFAULT_WAN_IFNAME} \cup ({wanSet} \ {Empty})
            \cup IF pc \in {"keys", "commit", "done"} THEN {ifname} ELSE {}

\* What differs from flash is the built-in default, until a change is noted.
SavedInv ==
    "commit" \notin failed =>
        /\ pc = "defaults" => syscfg = saved
        /\ pc # "commit" /\ ~(pc = "keys" /\ changed) =>
              \A k \in KeySet : saved[k] = syscfg[k] \/ syscfg[k] = DEFAULT_WAN_IFNAME

\* PSM's default configuration is the board's own, if it is there.
BoardInv ==
    /\ defCfg \in {NoFile, Partial, BoardName}
    /\ rom.defCfg # NoFile => defCfg = rom.defCfg
    /\ psm = "copy" => rom.defCfg = NoFile

\* Where the name in hand comes from: once PSM's current configuration has
\* turned out empty, the board's own name has been on offer.
OfferInv ==
    /\ pc = "nvCfg" /\ ifname # Empty => Sanitized(ifname) \in offered
    /\ pc \in {"defCfg", "machineCfg"} => ifname = Empty /\ BoardName \in offered
    /\ pc = "machineCfg" => rom.defCfg = NoFile
    /\ pc = "set" => ifname # Empty /\ Sanitized(ifname) \in offered
    /\ pc \in {"keys", "commit", "done"} => ifname \in offered

\* usp-pa: a name that was checked was published since the start.
UspInv ==
    /\ usp = "check" => uspName \in published
    /\ usp \in {"exec", "run"} => uspEnv \in published

-----------------------------------------------------------------------------
(* Type correctness *)

\* Every image has a configuration: its own, or one of the universal ones.
LEMMA RomFacts ==
    ASSUME rom \in Roms
    PROVE  /\ rom.defCfg \in Ifnames \cup {NoFile}
           /\ rom.defCfg = NoFile => MachineCfg \in Ifnames
           /\ MachineCfg \in Ifnames \cup {NoFile}
           /\ BoardName \in Ifnames
<1>1. CASE rom \in MachineRoms
  BY <1>1, IfnameAssumption DEF MachineRoms, MachineCfg, BoardName
<1>2. CASE rom \in UniversalRoms
  BY <1>2, IfnameAssumption DEF UniversalRoms, MachineCfg, BoardName
<1> QED BY <1>1, <1>2 DEF Roms

\* The settings are the four keys of the loop.
LEMMA KeyFacts ==
    /\ \A n \in 1 .. 4 : Keys[n] \in KeySet
    /\ \A k \in KeySet : \E n \in 1 .. 4 : k = Keys[n]
BY DEF KeySet

\* What a script reads or makes of a text is a text.
LEMMA TextFacts ==
    ASSUME TypeOK
    PROVE  /\ \A text : Sanitized(text) \in Ifnames
           /\ PsmName \in Texts
           /\ Offered \subseteq Ifnames
           /\ Defaults \in [KeySet -> Texts]
<1>1. \A text : Sanitized(text) \in Ifnames
  BY IfnameAssumption DEF Sanitized
<1>2. PsmName \in Texts
  BY RomFacts DEF TypeOK, PsmName, Texts
<1>3. Offered \subseteq Ifnames
  BY <1>1 DEF Offered
<1>4. Defaults \in [KeySet -> Texts]
  BY IfnameAssumption DEF Defaults, TypeOK, Texts
<1> QED BY <1>1, <1>2, <1>3, <1>4

\* sed finds a text.
LEMMA RecordType ==
    ASSUME TypeOK, NEW cfg \in Texts \cup {NoFile, Partial}
    PROVE  RecordIn(cfg) \subseteq Texts
BY RomFacts DEF TypeOK, RecordIn, Texts

\* The names on offer are names that somebody gave.
LEMMA HistoryType ==
    ASSUME TypeOK, Next
    PROVE  offered' \in SUBSET Ifnames
<1>1. Offered' \subseteq Ifnames
  BY IfnameAssumption DEF Offered, Sanitized
<1> QED BY <1>1 DEF Next, Remember, TypeOK

\* One turn of the loop over the files.
LEMMA ReadCfgType ==
    ASSUME TypeOK, NEW at, NEW next \in PcValues,
           NEW cfg \in Texts \cup {NoFile, Partial}, ReadCfg(at, cfg, next)
    PROVE  ifname' \in Texts /\ pc' \in PcValues
<1>1. ifname' \in Texts
  BY RecordType DEF ReadCfg, TypeOK
<1>2. pc' \in PcValues
  BY DEF ReadCfg, PcValues
<1> QED BY <1>1, <1>2

\* A failing command is one of those that the history knows.
LEMMA FailType ==
    ASSUME TypeOK, NEW what \in KeySet \cup {"sysevent", "commit"}, Done \/ Fails(what)
    PROVE  /\ failed' \in SUBSET (KeySet \cup {"sysevent", "commit"})
           /\ faults' \in 0 .. MaxFaults
           /\ failed \subseteq failed'
BY BoundAssumption DEF TypeOK, wanType, Done, Fails, Fault

\* Every step keeps the types.
LEMMA TypeStep == TypeOK /\ KeysInv /\ [Next]_vars => TypeOK'
<1> SUFFICES ASSUME TypeOK, KeysInv, Next PROVE TypeOK'
  BY DEF TypeOK, wanType, vars, cfgVars, wanVars, storeVars, scriptVars
<1> USE IfnameAssumption, BoundAssumption, HistoryType
    DEF scriptFrame, psmFrame, wanFrame, cfgVars, storeVars, scriptVars
<1>1. CASE ApplyDefaults
  BY <1>1, TextFacts DEF ApplyDefaults, Done, TypeOK, wanType, PcValues, Texts
<1>2. CASE ReadSysevent
  BY <1>2 DEF ReadSysevent, Fault, TypeOK, wanType, PcValues, Texts
<1>3. CASE ReadNvCfg
  <2>1. ifname' \in Texts /\ pc' \in PcValues
    BY <1>3, ReadCfgType DEF ReadNvCfg, TypeOK, PcValues
  <2> QED BY <1>3, <2>1 DEF ReadNvCfg, ReadCfg, Done, TypeOK, wanType
<1>4. CASE ReadDefCfg
  <2>1. defCfg \in Texts \cup {NoFile, Partial} BY DEF TypeOK, Texts
  <2>2. ifname' \in Texts /\ pc' \in PcValues
    BY <1>4, <2>1, ReadCfgType DEF ReadDefCfg, PcValues
  <2> QED BY <1>4, <2>2 DEF ReadDefCfg, ReadCfg, Done, TypeOK, wanType
<1>5. CASE ReadMachineCfg
  <2>1. MachineCfg \in Texts \cup {NoFile, Partial} BY RomFacts DEF TypeOK, Texts
  <2>2. ifname' \in Texts /\ pc' \in PcValues
    BY <1>5, <2>1, ReadCfgType DEF ReadMachineCfg, PcValues
  <2> QED BY <1>5, <2>2 DEF ReadMachineCfg, ReadCfg, Done, TypeOK, wanType
<1>6. CASE SetSysevent
  <2>1. changed' \in BOOLEAN BY <1>6 DEF SetSysevent
  <2>2. /\ failed' \in SUBSET (KeySet \cup {"sysevent", "commit"})
        /\ faults' \in 0 .. MaxFaults
    BY <1>6, FailType DEF SetSysevent
  <2> QED BY <1>6, <2>1, <2>2, TextFacts DEF SetSysevent, TypeOK, wanType, PcValues, Texts
<1>7. CASE SetKey
  <2>0. Keys[key] \in KeySet /\ ifname \in Texts
    BY <1>7, KeyFacts DEF TypeOK
  <2>1. changed' \in BOOLEAN BY <1>7 DEF SetKey, NextKey, TypeOK
  <2>2. pc' \in PcValues /\ key' \in 1 .. 4 BY <1>7 DEF SetKey, NextKey, PcValues, TypeOK
  <2>3. syscfg' \in [KeySet -> Texts] /\ wanSet' \in Texts
    BY <1>7, <2>0 DEF SetKey, Write, TypeOK, Texts
  <2>4. /\ failed' \in SUBSET (KeySet \cup {"sysevent", "commit"})
        /\ faults' \in 0 .. MaxFaults
    BY <1>7, <2>0, FailType DEF SetKey, Write
  <2> QED BY <1>7, <2>1, <2>2, <2>3, <2>4 DEF SetKey, NextKey, TypeOK, wanType
<1>8. CASE Commit
  <2>1. /\ failed' \in SUBSET (KeySet \cup {"sysevent", "commit"})
        /\ faults' \in 0 .. MaxFaults
    BY <1>8, FailType DEF Commit
  <2> QED BY <1>8, <2>1 DEF Commit, TypeOK, wanType, PcValues
<1>9. CASE PsmStart BY <1>9 DEF PsmStart, TypeOK, wanType
<1>10. CASE CopyStart BY <1>10 DEF CopyStart, TypeOK, wanType
<1>11. CASE CopyEnd BY <1>11, RomFacts DEF CopyEnd, TypeOK, wanType
<1>12. CASE CopyFail BY <1>12 DEF CopyFail, Fault, TypeOK, wanType
<1>13. CASE PsmCrash BY <1>13 DEF PsmCrash, TypeOK, wanType
<1>14. CASE PsmSave BY <1>14, TextFacts DEF PsmSave, TypeOK, wanType, Texts
<1>15. CASE Publish BY <1>15 DEF Publish, SetCurrent, Fault, TypeOK, wanType
<1>16. CASE WanStarted
  <2>1. wanName \in Texts /\ "wan_physical_ifname" \in KeySet
    BY <1>16 DEF WanStarted, GoOn, TypeOK, wanType, KeySet, Keys
  <2>2. /\ failed' \in SUBSET (KeySet \cup {"sysevent", "commit"})
        /\ faults' \in 0 .. MaxFaults
    BY <1>16, FailType DEF WanStarted, WanSetCommit, Fault, TypeOK, wanType
  <2>3. wanSet' \in Texts /\ syscfg' \in [KeySet -> Texts] /\ saved' \in [KeySet -> Texts]
    BY <1>16, <2>1 DEF WanStarted, WanSetCommit, TypeOK
  <2> QED BY <1>16, <2>2, <2>3 DEF WanStarted, GoOn, TypeOK, wanType
<1>17. CASE WanLost BY <1>17 DEF WanLost, Withdraw, TypeOK, wanType, Texts
<1>18. CASE PowerLoss
  <2>1. changed' \in BOOLEAN BY <1>18 DEF PowerLoss
  <2>2. wanType' BY <1>18 DEF PowerLoss, Reboot, TypeOK, wanType, Texts
  <2> QED BY <1>18, <2>1, <2>2, RomFacts DEF PowerLoss, TypeOK, PcValues, Texts
<1> QED
  BY <1>1, <1>2, <1>3, <1>4, <1>5, <1>6, <1>7, <1>8, <1>9, <1>10, <1>11, <1>12, <1>13,
     <1>14, <1>15, <1>16, <1>17, <1>18
  DEF Next, Utopia, Psm, WanSteps

-----------------------------------------------------------------------------
(* The settings *)

\* PSM and most of the WAN manager leave Utopia's state alone.
LEMMA OtherSteps ==
    ASSUME [Next]_vars
    PROVE  \/ UNCHANGED <<storeVars, scriptVars, wanSet, failed>>
           \/ Utopia \/ WanStarted \/ PowerLoss
BY DEF vars, Next, Psm, PsmStart, CopyStart, CopyEnd, CopyFail, PsmCrash, PsmSave,
       WanSteps, Publish, WanLost, psmFrame, wanFrame, storeVars

\* The WAN manager writes one setting, and remembers that it did.
LEMMA WanWrites ==
    ASSUME TypeOK, WanStarted
    PROVE  /\ UNCHANGED <<scriptVars, wanIfname>> /\ failed \subseteq failed'
           /\ failed' \subseteq failed \cup {"commit"}
           /\ \A k \in KeySet \ {"wan_physical_ifname"} : syscfg'[k] = syscfg[k]
           /\ \/ UNCHANGED <<syscfg, saved, wanSet, failed>>
              \/ /\ wanSet' # Empty /\ syscfg'["wan_physical_ifname"] = wanSet'
                 /\ saved' = syscfg' \/ "commit" \in failed'
<1>1. "wan_physical_ifname" \in KeySet
  BY DEF KeySet, Keys
<1> QED
  BY <1>1 DEF WanStarted, WanSetCommit, wanFrame, Done, Fails, TypeOK

\* Each turn of the loop settles one more setting, and the WAN manager may
\* settle one of them its own way.
LEMMA KeysStep == TypeOK /\ KeysInv /\ [Next]_vars => KeysInv'
<1> SUFFICES ASSUME TypeOK, KeysInv, [Next]_vars PROVE KeysInv'
  OBVIOUS
<1>1. CASE UNCHANGED <<storeVars, scriptVars, wanSet, failed>>
  BY <1>1 DEF KeysInv, storeVars, scriptVars, NamesFor
<1>2. CASE \/ ApplyDefaults \/ ReadSysevent \/ ReadNvCfg \/ ReadDefCfg
           \/ ReadMachineCfg \/ PowerLoss
  BY <1>2
  DEF ApplyDefaults, ReadSysevent, ReadNvCfg, ReadDefCfg, ReadMachineCfg, ReadCfg,
      PowerLoss, KeysInv
<1>3. CASE SetSysevent
  <2>1. ifname' \in Ifnames /\ pc' = "keys" /\ key' = 1
    BY <1>3, TextFacts DEF SetSysevent
  <2>2. "sysevent" \notin failed' => wanIfname' = ifname'
    BY <1>3 DEF SetSysevent, Fails
  <2> QED BY <2>1, <2>2 DEF KeysInv
<1>4. CASE SetKey
  <2> DEFINE k0 == Keys[key]
  <2>1. /\ pc = "keys" /\ ifname \in Ifnames /\ wanIfname' = wanIfname /\ ifname' = ifname
        /\ k0 \in KeySet /\ key \in 1 .. 4
    BY <1>4, KeyFacts DEF SetKey, NextKey, KeysInv, TypeOK
  <2>2. failed \subseteq failed' /\ (k0 \notin failed' => syscfg'[k0] = ifname)
    BY <1>4, <2>1 DEF SetKey, Write, Done, Fails, TypeOK
  <2>3. \A k \in KeySet : k # k0 => syscfg'[k] = syscfg[k]
    BY <1>4, <2>1 DEF SetKey, Write, TypeOK
  <2>4. \A k \in KeySet : k # k0 => NamesFor(k)' = NamesFor(k)
    BY <1>4, <2>1 DEF SetKey, Write, NamesFor
  <2>5. \A n \in 1 .. 4 : n <= key /\ Keys[n] \notin failed' =>
            syscfg'[Keys[n]] \in NamesFor(Keys[n])'
    <3> SUFFICES ASSUME NEW n \in 1 .. 4, n <= key, Keys[n] \notin failed'
                 PROVE  syscfg'[Keys[n]] \in NamesFor(Keys[n])'
      OBVIOUS
    <3>1. CASE Keys[n] = k0
      BY <2>1, <2>2, <3>1 DEF NamesFor
    <3>2. CASE Keys[n] # k0
      <4>1. n < key /\ Keys[n] \notin failed /\ Keys[n] \in KeySet
        BY <2>1, <2>2, <3>2, KeyFacts
      <4>2. syscfg[Keys[n]] \in NamesFor(Keys[n])
        BY <2>1, <4>1 DEF KeysInv
      <4> QED BY <2>3, <2>4, <3>2, <4>1, <4>2
    <3> QED BY <3>1, <3>2
  <2>6. "sysevent" \notin failed' => wanIfname' = ifname'
    BY <2>1, <2>2 DEF KeysInv
  <2>7. CASE key < 4
    <3>1. pc' = "keys" /\ key' = key + 1
      BY <1>4, <2>7 DEF SetKey, NextKey
    <3> QED BY <2>1, <2>5, <2>6, <3>1 DEF KeysInv
  <2>8. CASE key = 4
    <3>1. \A k \in KeySet \ failed' : syscfg'[k] \in NamesFor(k)'
      BY <2>5, <2>8, KeyFacts
    <3>2. pc' \in {"commit", "done"}
      BY <1>4, <2>8 DEF SetKey, NextKey
    <3> QED BY <2>1, <2>6, <3>1, <3>2 DEF KeysInv
  <2> QED BY <2>1, <2>7, <2>8
<1>5. CASE Commit
  BY <1>5 DEF Commit, Done, Fails, KeysInv, NamesFor
<1>6. CASE WanStarted
  <2>1. \A k \in KeySet : syscfg[k] \in NamesFor(k) => syscfg'[k] \in NamesFor(k)'
    BY <1>6, WanWrites DEF NamesFor, scriptVars
  <2> QED BY <1>6, <2>1, WanWrites, KeyFacts DEF KeysInv, scriptVars
<1> QED
  BY OtherSteps, <1>1, <1>2, <1>3, <1>4, <1>5, <1>6 DEF Utopia

\* Whoever writes wan_physical_ifname, nobody puts an old name back.
LEMMA PhysicalStep == TypeOK /\ KeysInv /\ PhysicalInv /\ [Next]_vars => PhysicalInv'
<1> SUFFICES ASSUME TypeOK, KeysInv, PhysicalInv, [Next]_vars PROVE PhysicalInv'
  OBVIOUS
<1>0. "wan_physical_ifname" \in KeySet
  BY DEF KeySet, Keys
<1>1. CASE UNCHANGED <<storeVars, scriptVars, wanSet, failed>>
  BY <1>1 DEF PhysicalInv, storeVars, scriptVars
<1>2. CASE ApplyDefaults
  BY <1>0, <1>2 DEF ApplyDefaults, Defaults, PhysicalInv
<1>3. CASE ReadSysevent \/ ReadNvCfg \/ ReadDefCfg \/ ReadMachineCfg \/ SetSysevent
  BY <1>3
  DEF ReadSysevent, ReadNvCfg, ReadDefCfg, ReadMachineCfg, ReadCfg, SetSysevent, storeVars,
      PhysicalInv
<1>4. CASE SetKey
  <2>1. pc = "keys" /\ pc' \in {"keys", "commit", "done"} /\ ifname' = ifname
        /\ Keys[key] \in KeySet
    BY <1>4, KeyFacts DEF SetKey, NextKey, TypeOK
  <2>2. \/ syscfg'["wan_physical_ifname"] = ifname
        \/ UNCHANGED wanSet /\ syscfg'["wan_physical_ifname"] = syscfg["wan_physical_ifname"]
    BY <1>0, <1>4, <2>1 DEF SetKey, Write, TypeOK
  <2> QED BY <2>1, <2>2 DEF PhysicalInv
<1>5. CASE Commit
  BY <1>5 DEF Commit, PhysicalInv
<1>6. CASE WanStarted
  BY <1>6, WanWrites DEF PhysicalInv, scriptVars
<1>7. CASE PowerLoss
  BY <1>7 DEF PowerLoss, PhysicalInv
<1> QED
  BY OtherSteps, <1>1, <1>2, <1>3, <1>4, <1>5, <1>6, <1>7 DEF Utopia

\* The first boot.
LEMMA InitType == Init => TypeOK /\ KeysInv /\ PhysicalInv
<1> SUFFICES ASSUME Init PROVE TypeOK /\ KeysInv /\ PhysicalInv
  OBVIOUS
<1>1. changed \in BOOLEAN BY DEF Init
<1>2. defCfg \in Ifnames \cup {NoFile, Partial} BY RomFacts DEF Init
<1>3. wanType BY BoundAssumption DEF Init, wanInit, wanType, Texts
<1> QED
  BY <1>1, <1>2, <1>3 DEF Init, TypeOK, KeysInv, PhysicalInv, Texts, PcValues

\* Every variable keeps its type: whatever fails or is published, the script only
\* ever works with a text, and settles on a well-formed name.
THEOREM TypeCorrect == Spec => []TypeOK
<1> QED BY InitType, TypeStep, KeysStep, PTL DEF Spec

\* The settings have the script's name or, one of them, the WAN manager's once the
\* script has ended, whatever an earlier boot left and whichever command failed.
THEOREM NamesAgreed == Spec => []NamesAgree
<1>1. TypeOK /\ KeysInv /\ PhysicalInv => NamesAgree
  <2> SUFFICES ASSUME TypeOK, KeysInv, PhysicalInv, pc = "done"
               PROVE  /\ "sysevent" \notin failed => wanIfname = ifname
                      /\ \A k \in KeySet \ failed : syscfg[k] \in NamesFor(k)
                      /\ {getWanMacInterfaceName, getWanInterfaceName} \subseteq
                            NamesFor("wan_physical_ifname") \cup ({current} \ {Empty})
                            \cup IF "wan_physical_ifname" \in failed
                                 THEN {DEFAULT_WAN_IFNAME} ELSE {}
    BY DEF NamesAgree
  <2>1. "wan_physical_ifname" \in KeySet /\ ifname # Empty /\ DEFAULT_WAN_IFNAME # Empty
    BY NamesAssumption, IfnameAssumption DEF KeySet, Keys, KeysInv
  <2>2. syscfg["wan_physical_ifname"] \in
            {DEFAULT_WAN_IFNAME, ifname} \cup ({wanSet} \ {Empty})
    BY DEF PhysicalInv
  <2>3. getWanMacInterfaceName = syscfg["wan_physical_ifname"]
    BY <2>1, <2>2 DEF getWanMacInterfaceName
  <2>4. \A k \in KeySet \ failed : syscfg[k] \in NamesFor(k)
    BY DEF KeysInv
  <2>5. syscfg["wan_physical_ifname"] \in
            NamesFor("wan_physical_ifname") \cup
            IF "wan_physical_ifname" \in failed THEN {DEFAULT_WAN_IFNAME} ELSE {}
    BY <2>1, <2>2, <2>4 DEF NamesFor
  <2> QED BY <2>3, <2>4, <2>5 DEF KeysInv, getWanInterfaceName
<1> QED BY <1>1, InitType, TypeStep, KeysStep, PhysicalStep, PTL DEF Spec

\* Only a commit and the defaults reach the flash.
LEMMA SavedStep == TypeOK /\ SavedInv /\ [Next]_vars => SavedInv'
<1> SUFFICES ASSUME TypeOK, SavedInv, [Next]_vars, "commit" \notin failed' PROVE SavedInv'
  BY DEF SavedInv
<1>1. CASE UNCHANGED <<storeVars, scriptVars, wanSet, failed>>
  BY <1>1 DEF SavedInv, storeVars, scriptVars
<1>2. CASE ApplyDefaults
  <2>1. \A k \in KeySet : Defaults[k] = saved[k] \/ Defaults[k] = DEFAULT_WAN_IFNAME
    BY <1>2 DEF ApplyDefaults, Done, SavedInv, Defaults
  <2> QED BY <1>2, <2>1 DEF ApplyDefaults, SavedInv
<1>3. CASE ReadSysevent \/ ReadNvCfg \/ ReadDefCfg \/ ReadMachineCfg
  BY <1>3
  DEF ReadSysevent, ReadNvCfg, ReadDefCfg, ReadMachineCfg, ReadCfg, Done, storeVars, SavedInv
<1>4. CASE SetSysevent
  BY <1>4 DEF SetSysevent, Done, Fails, SavedInv
<1>5. CASE SetKey
  <2> DEFINE change == changed \/ syscfg[Keys[key]] # ifname
  <2>0. /\ pc = "keys" /\ saved' = saved /\ pc' # "defaults" /\ "commit" \notin failed
        /\ pc' = "keys" => changed' = change
        /\ change => pc' \in {"keys", "commit"}
    BY <1>5 DEF SetKey, Write, NextKey, Done, Fails, TypeOK
  <2>1. CASE change
    BY <2>0, <2>1 DEF SavedInv
  <2>2. CASE ~change
    <3>1. ~changed /\ syscfg[Keys[key]] = ifname
      BY <2>2
    <3>2. syscfg' = syscfg
      BY <1>5, <3>1 DEF SetKey, Write, TypeOK
    <3> QED BY <2>0, <3>1, <3>2 DEF SavedInv
  <2> QED BY <2>1, <2>2
<1>6. CASE Commit
  BY <1>6 DEF Commit, Fails, SavedInv
<1>7. CASE PowerLoss
  BY <1>7 DEF PowerLoss, SavedInv
<1>8. CASE WanStarted
  BY <1>8, WanWrites DEF SavedInv, scriptVars
<1> QED
  BY OtherSteps, <1>1, <1>2, <1>3, <1>4, <1>5, <1>6, <1>7, <1>8 DEF Utopia

\* A name other than the default survives the next power loss, unless a commit
\* failed.
THEOREM NameSurvives == Spec => []NamePersisted
<1>1. Init => SavedInv
  BY DEF Init, SavedInv
<1>2. SavedInv => NamePersisted
  BY DEF SavedInv, NamePersisted
<1> QED BY <1>1, <1>2, TypeCorrect, SavedStep, PTL DEF Spec

-----------------------------------------------------------------------------
(* Where the name comes from *)

\* What a step adds to the names on offer; when the script ends only its own
\* name is kept.
LEMMA OfferedGrow ==
    ASSUME Next, pc # "done", pc' # "defaults"
    PROVE  /\ pc' # "done" => offered \subseteq offered' /\ Offered' \subseteq offered'
           /\ ifname \in offered => ifname \in offered'
BY DEF Next, Remember

\* What board and image fix stays.
LEMMA BoardStays ==
    ASSUME [Next]_vars
    PROVE  rom' = rom /\ MachineCfg' = MachineCfg /\ BoardName' = BoardName
<1>1. rom' = rom
  BY DEF vars, cfgVars, Next, Utopia, ApplyDefaults, ReadSysevent, ReadNvCfg, ReadDefCfg,
         ReadMachineCfg, ReadCfg, SetSysevent, SetKey, NextKey, Commit, Psm, PsmStart,
         CopyStart, CopyEnd, CopyFail, PsmCrash, PsmSave, WanSteps, Publish, WanStarted,
         WanLost, PowerLoss, scriptFrame, psmFrame, wanFrame
<1> QED BY <1>1 DEF BoardName, MachineCfg

\* The configuration in place is the board's.
LEMMA BoardStep == BoardInv /\ [Next]_vars => BoardInv'
<1> SUFFICES ASSUME BoardInv, [Next]_vars PROVE BoardInv'
  OBVIOUS
<1> USE BoardStays DEF BoardInv
<1>1. CASE Psm
  BY <1>1 DEF BoardName, Psm, PsmStart, CopyStart, CopyEnd, CopyFail, PsmCrash, PsmSave
<1>2. CASE PowerLoss
  BY <1>2 DEF PowerLoss, BoardName
<1>3. CASE UNCHANGED <<defCfg, psm>>
  BY <1>3
<1>4. ASSUME ~Psm, ~PowerLoss PROVE UNCHANGED <<defCfg, psm>>
  BY <1>4
  DEF vars, cfgVars, Next, Utopia, ApplyDefaults, ReadSysevent, ReadNvCfg, ReadDefCfg,
      ReadMachineCfg, ReadCfg, SetSysevent, SetKey, NextKey, Commit, WanSteps, Publish,
      WanStarted, WanLost, scriptFrame, wanFrame
<1> QED BY <1>1, <1>2, <1>3, <1>4

\* A turn of the loop that finds a name goes on with it, and one that does not
\* goes on to the next file.
LEMMA ReadEffect ==
    ASSUME NEW at, NEW cfg, NEW next, ReadCfg(at, cfg, next)
    PROVE  \/ /\ ifname' # Empty /\ pc' = "set"
              /\ ifname # Empty => ifname' = ifname
              /\ ifname = Empty =>
                    cfg # NoFile /\ ifname' = IF cfg = Partial THEN BoardName ELSE cfg
           \/ /\ ifname = Empty /\ ifname' = Empty /\ pc' = next
              /\ cfg \in {NoFile, Partial, Empty}
BY DEF ReadCfg, RecordIn

\* The script only takes a name that is on offer while it runs.
LEMMA OfferStep == TypeOK /\ BoardInv /\ OfferInv /\ [Next]_vars => OfferInv'
<1> SUFFICES ASSUME TypeOK, BoardInv, OfferInv, [Next]_vars PROVE OfferInv'
  OBVIOUS
<1>b. BoardName \in Ifnames /\ BoardName # Empty /\ Sanitized(BoardName) = BoardName
  BY RomFacts, NamesAssumption DEF TypeOK, Sanitized
<1>0. CASE UNCHANGED vars
  BY <1>0, BoardStays
  DEF vars, cfgVars, storeVars, scriptVars, OfferInv, Sanitized
<1> USE BoardStays
<1>1. CASE Next /\ UNCHANGED scriptVars
  <2>1. offered \subseteq offered' \/ pc' = "defaults"
    BY <1>1 DEF Next, Remember, scriptVars
  <2> QED BY <1>1, <2>1 DEF OfferInv, scriptVars, Sanitized
<1>2. CASE Next /\ (ApplyDefaults \/ PowerLoss)
  BY <1>2 DEF ApplyDefaults, PowerLoss, OfferInv
<1>3. CASE Next /\ ReadSysevent
  <2>1. pc' = "nvCfg" /\ pc = "sysevent" /\ ifname' \in {Empty, current}
        /\ current' = current
    BY <1>3 DEF ReadSysevent, scriptFrame
  <2>2. current # Empty => Sanitized(current) \in Offered'
    BY <2>1 DEF Offered, Sanitized
  <2>3. Offered' \subseteq offered'
    BY <1>3, <2>1, OfferedGrow
  <2> QED BY <2>1, <2>2, <2>3 DEF OfferInv, Sanitized
<1>4. CASE Next /\ ReadNvCfg
  <2>1. pc = "nvCfg" /\ nvCfg' = nvCfg /\ pc' \in {"set", "defCfg"}
    BY <1>4 DEF ReadNvCfg, ReadCfg, scriptFrame, cfgVars
  <2>2. offered \subseteq offered' /\ Sanitized(PsmName') \in offered'
    BY <1>4, <2>1, OfferedGrow DEF Offered, Sanitized
  <2>3. PsmName' = IF nvCfg \in {NoFile, Empty} THEN BoardName ELSE nvCfg
    BY <2>1 DEF PsmName
  <2>4. nvCfg # Partial
    BY IfnameAssumption DEF TypeOK, Texts, Empty, Invalid, NoFile, Partial
  <2>5. \/ /\ ifname' # Empty /\ pc' = "set"
           /\ ifname # Empty => ifname' = ifname
           /\ ifname = Empty => nvCfg # NoFile /\ ifname' = nvCfg
        \/ ifname' = Empty /\ pc' = "defCfg" /\ nvCfg \in {NoFile, Empty}
    BY <1>4, <2>4, ReadEffect DEF ReadNvCfg
  <2>6. CASE pc' = "set"
    <3>1. ifname' # Empty /\ Sanitized(ifname') \in offered'
      BY <2>1, <2>2, <2>3, <2>5, <2>6 DEF OfferInv
    <3> QED BY <2>6, <3>1 DEF OfferInv, Sanitized
  <2>7. CASE pc' = "defCfg"
    <3>1. ifname' = Empty /\ BoardName \in offered'
      BY <1>b, <2>2, <2>3, <2>5, <2>7
    <3> QED BY <2>7, <3>1 DEF OfferInv
  <2> QED BY <2>1, <2>6, <2>7
<1>5. CASE Next /\ ReadDefCfg
  <2>1. pc = "defCfg" /\ pc' \in {"set", "machineCfg"} /\ ifname = Empty
        /\ BoardName \in offered
    BY <1>5 DEF ReadDefCfg, ReadCfg, OfferInv
  <2>2. BoardName \in offered'
    BY <1>5, <2>1, OfferedGrow
  <2>3. \/ pc' = "set" /\ ifname' = BoardName
        \/ pc' = "machineCfg" /\ ifname' = Empty /\ rom.defCfg = NoFile
    <3>1. defCfg \in {NoFile, Partial, Empty} => rom.defCfg = NoFile
      BY RomFacts, NamesAssumption, IfnameAssumption
      DEF BoardInv, TypeOK, Empty, NoFile, Partial, Invalid
    <3> QED BY <1>5, <2>1, <3>1, ReadEffect DEF ReadDefCfg, BoardInv
  <2> QED BY <1>b, <2>2, <2>3 DEF OfferInv, Sanitized
<1>6. CASE Next /\ ReadMachineCfg
  <2>1. pc = "machineCfg" /\ pc' = "set" /\ ifname = Empty /\ BoardName \in offered
        /\ rom.defCfg = NoFile
    BY <1>6 DEF ReadMachineCfg, ReadCfg, OfferInv
  <2>2. BoardName \in offered'
    BY <1>6, <2>1, OfferedGrow
  <2>3. ifname' = BoardName
    <3>1. MachineCfg = BoardName /\ MachineCfg \notin {NoFile, Partial, Empty}
      BY <1>b, <2>1, NamesAssumption, IfnameAssumption DEF BoardName
    <3> QED BY <1>6, <2>1, <3>1, ReadEffect DEF ReadMachineCfg
  <2> QED BY <1>b, <2>1, <2>2, <2>3 DEF OfferInv, Sanitized
<1>7. CASE Next /\ SetSysevent
  <2>1. pc = "set" /\ pc' = "keys" /\ ifname' = Sanitized(ifname)
    BY <1>7 DEF SetSysevent
  <2>2. offered \subseteq offered'
    BY <1>7, <2>1, OfferedGrow
  <2> QED BY <2>1, <2>2 DEF OfferInv
<1>8. CASE Next /\ (SetKey \/ Commit)
  <2>1. /\ pc \in {"keys", "commit"} /\ pc' \in {"keys", "commit", "done"}
        /\ ifname' = ifname
    BY <1>8 DEF SetKey, NextKey, Commit
  <2>2. ifname \in offered => ifname \in offered'
    BY <1>8, <2>1, OfferedGrow
  <2> QED BY <2>1, <2>2 DEF OfferInv
<1>9. CASE Next /\ WanStarted
  BY <1>1, <1>9, WanWrites
<1> QED
  BY OtherSteps, <1>0, <1>1, <1>2, <1>3, <1>4, <1>5, <1>6, <1>7, <1>8, <1>9 DEF Utopia

\* The script never settles on a name that nobody offered while it ran, at
\* whatever speed PSM, its copy and the WAN manager start.
THEOREM NameWasOffered == Spec => []PointsAtPsm
<1>1. Init => BoardInv /\ OfferInv
  BY DEF Init, BoardInv, OfferInv, BoardName
<1>2. OfferInv /\ KeysInv => PointsAtPsm
  BY DEF OfferInv, KeysInv, PointsAtPsm
<1> QED BY <1>1, <1>2, InitType, TypeStep, KeysStep, BoardStep, OfferStep, PTL DEF Spec

-----------------------------------------------------------------------------
(* usp-pa *)

\* Every step of the unit and of what it waits for keeps the types.
LEMMA UspTypeStep == UspTypeOK /\ [UspNext]_uspVars => UspTypeOK'
<1> SUFFICES ASSUME UspTypeOK, UspNext PROVE UspTypeOK'
  BY DEF UspTypeOK, wanType, uspVars, wanVars
<1> USE BoundAssumption DEF UspTypeOK, wanType, Fault
<1>1. published' \in SUBSET Ifnames
  BY DEF UspNext, UspRemember
<1>2. wanType'
  BY DEF UspNext, Booted, Device, WanTouches, RemoteTouches, WanChanges, SetCurrent, GoOn,
         Withdraw, UspUnit, UspStart, UspRead, UspCheck, UspExec, UspExit, UspReboot, Reboot,
         UspStopped, uspFrame, wanVars, Texts
<1>3. booted' \in BOOLEAN /\ started' \in BOOLEAN
  BY DEF UspNext, Booted, Device, WanTouches, RemoteTouches, WanChanges, UspUnit, UspStart,
         UspRead, UspCheck, UspExec, UspExit, UspReboot, uspFrame
<1>4. /\ present' \in SUBSET Ifnames
      /\ usp' \in {"stopped", "read", "check", "exec", "run"}
      /\ uspName' \in Ifnames \cup {Empty}
      /\ uspEnv' \in Ifnames \cup {Empty, NoFile}
  BY DEF UspNext, Booted, Device, WanTouches, RemoteTouches, WanChanges, UspUnit, UspStart,
         UspRead, UspCheck, UspExec, UspExit, UspReboot, UspStopped, unitFrame, uspFrame
<1> QED BY <1>1, <1>2, <1>3, <1>4

\* The name in wan.env was published during this start.
LEMMA UspStep == UspInv /\ [UspNext]_uspVars => UspInv'
<1> SUFFICES ASSUME UspInv, [UspNext]_uspVars PROVE UspInv'
  OBVIOUS
<1>0. CASE UNCHANGED uspVars
  BY <1>0 DEF uspVars, UspInv
<1>p. ASSUME UspNext, usp' # "stopped"
      PROVE  /\ published \subseteq published'
             /\ usp' = "check" /\ current' \in Ifnames => current' \in published'
  BY <1>p DEF UspNext, UspRemember
<1>1. CASE UspNext /\ UNCHANGED unitFrame
  BY <1>1, <1>p DEF unitFrame, UspInv
<1>2. CASE UspNext /\ (UspReboot \/ UspStart \/ UspExit)
  BY <1>2 DEF UspReboot, UspStart, UspExit, UspStopped, UspInv
<1>3. CASE UspNext /\ UspRead
  BY <1>3, <1>p DEF UspRead, UspStopped, uspFrame, UspInv
<1>4. CASE UspNext /\ UspCheck
  BY <1>4, <1>p DEF UspCheck, UspStopped, UspInv
<1>5. CASE UspNext /\ UspExec
  BY <1>5, <1>p DEF UspExec, UspInv
<1>6. ASSUME Booted \/ Device \/ WanTouches \/ RemoteTouches \/ WanChanges
      PROVE  UNCHANGED unitFrame
  BY <1>6 DEF Booted, Device, WanTouches, RemoteTouches, WanChanges
<1> QED
  BY <1>0, <1>1, <1>2, <1>3, <1>4, <1>5, <1>6 DEF UspNext, UspUnit

\* obuspa is only started with a well-formed name published during this start of
\* usp-pa, whatever the WAN, its devices and the power do meanwhile.
THEOREM UspNamePublished == UspSpec => []UspOnWan
<1>1. UspInit => UspTypeOK /\ UspInv
  <2> SUFFICES ASSUME UspInit PROVE UspTypeOK /\ UspInv
    OBVIOUS
  <2>1. wanType BY BoundAssumption DEF UspInit, wanInit, wanType, Texts
  <2>2. booted \in BOOLEAN /\ started \in BOOLEAN BY DEF UspInit
  <2> QED BY <2>1, <2>2 DEF UspInit, UspTypeOK, UspInv
<1>2. UspTypeOK /\ UspInv => UspOnWan
  BY DEF UspTypeOK, UspInv, UspOnWan
<1> QED BY <1>1, <1>2, UspTypeStep, UspStep, PTL DEF UspSpec

-----------------------------------------------------------------------------
(* The script ends *)

\* How far apply_system_defaults and resolve-wan-ifname.sh have got.
Stage ==
    IF pc = "keys" THEN 5 + key
    ELSE [defaults |-> 0, sysevent |-> 1, nvCfg |-> 2, defCfg |-> 3,
          machineCfg |-> 4, set |-> 5, commit |-> 10, done |-> 11][pc]

\* Each of its steps takes the script on, and nothing takes it back but the
\* power, whatever PSM, the WAN manager and usp-pa do meanwhile.
ScriptGoesOn ==
    \/ Utopia /\ Stage' > Stage
    \/ Stage' = Stage /\ ~Utopia
    \/ losses' = losses + 1 /\ Stage' = 0

\* The resolution waits for nobody: it ends after at most eleven steps, so that
\* usp-pa and the clients of the names can rely on an answer.
THEOREM ScriptEnds == Spec => [](Stage \in 0 .. 11) /\ [][ScriptGoesOn]_vars
<1>1. TypeOK => Stage \in 0 .. 11
  BY DEF TypeOK, PcValues, Stage
<1>2. TypeOK /\ TypeOK' /\ [Next]_vars => [ScriptGoesOn]_vars
  <2> SUFFICES ASSUME TypeOK, TypeOK', Next PROVE ScriptGoesOn
    OBVIOUS
  <2>1. ASSUME Utopia PROVE Stage' > Stage
    <3> USE DEF TypeOK, Stage
    <3>1. CASE ApplyDefaults BY <3>1 DEF ApplyDefaults
    <3>2. CASE ReadSysevent BY <3>2 DEF ReadSysevent
    <3>3. CASE ReadNvCfg BY <3>3 DEF ReadNvCfg, ReadCfg
    <3>4. CASE ReadDefCfg BY <3>4 DEF ReadDefCfg, ReadCfg
    <3>5. CASE ReadMachineCfg BY <3>5 DEF ReadMachineCfg, ReadCfg
    <3>6. CASE SetSysevent BY <3>6 DEF SetSysevent
    <3>7. CASE SetKey BY <3>7 DEF SetKey, NextKey
    <3>8. CASE Commit BY <3>8 DEF Commit
    <3> QED BY <2>1, <3>1, <3>2, <3>3, <3>4, <3>5, <3>6, <3>7, <3>8 DEF Utopia
  <2>2. ASSUME Psm \/ WanSteps PROVE pc' = pc /\ key' = key
    BY <2>2
    DEF Psm, PsmStart, CopyStart, CopyEnd, CopyFail, PsmCrash, PsmSave, psmFrame, WanSteps,
        Publish, WanStarted, WanLost, wanFrame, scriptVars
  <2>3. ASSUME PowerLoss PROVE losses' = losses + 1 /\ Stage' = 0
    BY <2>3 DEF PowerLoss, Reboot, Stage
  <2>4. pc' = pc /\ key' = key => Stage' = Stage
    BY DEF Stage
  <2> QED BY <2>1, <2>2, <2>3, <2>4 DEF ScriptGoesOn, Next
<1> QED BY <1>1, <1>2, TypeCorrect, PTL DEF Spec
=============================================================================
