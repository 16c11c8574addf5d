------------------------- MODULE StorageBootProofs --------------------------
(***************************************************************************)
(* Power loss and failing commands during the resize, for any number of    *)
(* files, faults, losses and enlargements: what the disk looks like then.  *)
(***************************************************************************)
EXTENDS StorageBoot, TLAPS

\* The commands of resize-disk.sh after sgdisk -e has marked the disk done.
Marked == {"rz_d", "rz_N", "rz_u", "rz_part", "rz_fs"}

\* A loss or failure after which the boot loader may not find the root.
Torn == (lostAt \cup failedAt) \cap Replacing # {} \/ "rz_uuid" \in failedAt

\* A loss or failure after which no later boot resumes the resize.
CutShort == lostAt \cap Marked # {} \/ failedAt \cap RzSteps # {}

\* From sgdisk -N on there is a partition that fills the disk, and the kernel
\* knows it once it has been told.
NewPartInv ==
    /\ pc \in {"rz_u", "rz_part"} => partition = "max"
    /\ pc = "rz_fs" => kernelPart = "max"

\* The root partition is missing, or has another GUID, at one command each,
\* and the script then holds the GUID it has to put back.
RootInv ==
    ~Torn => /\ partuuid = "orig" \/ pc = "rz_u"
             /\ partition # "absent" \/ pc = "rz_N"
             /\ pc \in {"rz_e", "rz_d", "rz_N", "rz_u"} => savedUuid = "orig"

\* Outside the marked commands, a backup GPT on the end means that the file
\* system fills the disk; so does a mounted /nvram, and any command after the
\* resize.
SizeInv ==
    /\ pc = "off" => nvramMount = "rootfs"
    /\ ~CutShort =>
          /\ backupAtEnd /\ pc \notin Marked => fs = "max"
          /\ nvramMount # "rootfs" => fs = "max"
          /\ pc \in (InitSteps \ {"guard"}) \cup {"up"} => fs = "max"
          /\ pc \in {"rz_e", "rz_d", "rz_N", "rz_u"} => savedUuid # "unset"
-----------------------------------------------------------------------------
(* Types *)

\* A command that works or fails keeps the record of failures typed.
LEMMA FailureTyped ==
    ASSUME TypeOK, Works \/ Fails
    PROVE  faults' \in 0 .. MaxFaults /\ failedAt' \in SUBSET PCs
<1>1. faults \in 0 .. MaxFaults /\ failedAt \in SUBSET PCs /\ pc \in PCs
    BY DEF TypeOK
<1>2. CASE Works
    BY <1>1, <1>2 DEF Works, failVars
<1>3. CASE Fails
    BY <1>1, <1>3, BoundAssumption DEF Fails
<1>4. QED
    BY <1>2, <1>3

\* Every command keeps the types, given that there is a partition whenever
\* the kernel is told its size.
LEMMA TypeInvariant == Spec => [](TypeOK /\ NewPartInv)
<1> USE DEF gptVars, volVars, diskVars, rzVars, mountVars, failVars, lossVars,
           rzFrame, initFrame, Goto
<1> USE BoundAssumption
<1>1. Init => TypeOK /\ NewPartInv
    <2> SUFFICES ASSUME Init PROVE TypeOK /\ NewPartInv
        OBVIOUS
    <2>1. backupAtEnd \in BOOLEAN /\ partition \in {"small", "max"}
        BY DEF Init
    <2>2. 0 \in 0 .. MaxGrow /\ 0 \in 0 .. MaxFaults /\ 0 \in 0 .. MaxLosses
        OBVIOUS
    <2>3. nvramSubvol = FALSE /\ logsSubvol = FALSE /\ toplevel = FALSE
             /\ logsMount = FALSE /\ copyCut = FALSE
        BY DEF Init
    <2>4. QED
        BY <2>1, <2>2, <2>3 DEF Init, TypeOK, NewPartInv, PCs
<1>2. TypeOK /\ NewPartInv /\ [Next]_vars => (TypeOK /\ NewPartInv)'
    <2> SUFFICES ASSUME TypeOK, NewPartInv, [Next]_vars
                 PROVE  (TypeOK /\ NewPartInv)'
        OBVIOUS
    <2> USE DEF TypeOK, NewPartInv, PCs, RzSteps, InitSteps
    <2>1. CASE RzCheck
        BY <2>1 DEF RzCheck
    <2>2. CASE RzUuid
        <3>1. Works \/ Fails
            BY <2>2 DEF RzUuid
        <3>2. faults' \in 0 .. MaxFaults /\ failedAt' \in SUBSET PCs
            BY <3>1, FailureTyped
        <3>3. QED
            BY <2>2, <3>2 DEF RzUuid, TypeOK
    <2>3. CASE RzMoveBackup
        BY <2>3 DEF RzMoveBackup
    <2>4. CASE RzDelete
        BY <2>4 DEF RzDelete
    <2>5. CASE RzNew
        BY <2>5 DEF RzNew
    <2>6. CASE RzSetUuid
        BY <2>6 DEF RzSetUuid
    <2>7. CASE RzPart
        BY <2>7 DEF RzPart
    <2>8. CASE RzFs
        BY <2>8 DEF RzFs
    <2>9. CASE RzFail
        <3>1. Works \/ Fails
            BY <2>9 DEF RzFail
        <3>2. faults' \in 0 .. MaxFaults /\ failedAt' \in SUBSET PCs
            BY <3>1, FailureTyped
        <3>3. QED
            BY <2>9, <3>2 DEF RzFail, TypeOK
    <2>10. CASE Guard
        BY <2>10 DEF Guard, Works
    <2>11. CASE MountToplevel
        <3>1. Works \/ Fails
            BY <2>11 DEF MountToplevel
        <3>2. faults' \in 0 .. MaxFaults /\ failedAt' \in SUBSET PCs
            BY <3>1, FailureTyped
        <3>3. toplevel' \in BOOLEAN
            BY <2>11 DEF MountToplevel
        <3>4. QED
            BY <2>11, <3>2, <3>3 DEF MountToplevel
    <2>12. CASE ReadCmdline
        BY <2>12 DEF ReadCmdline, Works
    <2>13. CASE MountVol
        <3>1. Works \/ Fails
            BY <2>13 DEF MountVol
        <3>2. faults' \in 0 .. MaxFaults /\ failedAt' \in SUBSET PCs
            BY <3>1, FailureTyped
        <3>3. QED
            BY <2>13, <3>2 DEF MountVol, TypeOK
    <2>14. CASE MountNvram
        BY <2>14 DEF MountNvram, Works
    <2>15. CASE MountNvramFail
        <3>1. Works \/ Fails
            BY <2>15 DEF MountNvramFail
        <3>2. faults' \in 0 .. MaxFaults /\ failedAt' \in SUBSET PCs
            BY <3>1, FailureTyped
        <3>3. QED
            BY <2>15, <3>2 DEF MountNvramFail, TypeOK
    <2>16. CASE CreateNvram
        <3>1. Works \/ Fails
            BY <2>16 DEF CreateNvram
        <3>2. faults' \in 0 .. MaxFaults /\ failedAt' \in SUBSET PCs
            BY <3>1, FailureTyped
        <3>3. QED
            BY <2>16, <3>2 DEF CreateNvram, TypeOK
    <2>17. CASE CopyAside
        <3>1. Works \/ Fails
            BY <2>17 DEF CopyAside
        <3>2. faults' \in 0 .. MaxFaults /\ failedAt' \in SUBSET PCs
            BY <3>1, FailureTyped
        <3>3. QED
            BY <2>17, <3>2 DEF CopyAside, TypeOK
    <2>18. CASE MountNew
        <3>1. Works \/ Fails
            BY <2>18 DEF MountNew
        <3>2. faults' \in 0 .. MaxFaults /\ failedAt' \in SUBSET PCs
            BY <3>1, FailureTyped
        <3>3. QED
            BY <2>18, <3>2 DEF MountNew, TypeOK
    <2>19. CASE CopyDone
        BY <2>19 DEF CopyDone, Works
    <2>20. CASE MountLogs
        <3>1. Works \/ Fails
            BY <2>20 DEF MountLogs
        <3>2. faults' \in 0 .. MaxFaults /\ failedAt' \in SUBSET PCs
            BY <3>1, FailureTyped
        <3>3. logsMount' \in BOOLEAN
            BY <2>20 DEF MountLogs
        <3>4. pc' \in {"notify", "logcreate"}
            BY <2>20 DEF MountLogs
        <3>5. QED
            BY <2>20, <3>2, <3>3, <3>4 DEF MountLogs
    <2>21. CASE CreateLogs
        <3>1. Works \/ Fails
            BY <2>21 DEF CreateLogs
        <3>2. faults' \in 0 .. MaxFaults /\ failedAt' \in SUBSET PCs
            BY <3>1, FailureTyped
        <3>3. QED
            BY <2>21, <3>2 DEF CreateLogs, TypeOK
    <2>22. CASE MountNewLogs
        <3>1. Works \/ Fails
            BY <2>22 DEF MountNewLogs
        <3>2. faults' \in 0 .. MaxFaults /\ failedAt' \in SUBSET PCs
            BY <3>1, FailureTyped
        <3>3. QED
            BY <2>22, <3>2 DEF MountNewLogs, TypeOK
    <2>23. CASE Notify
        BY <2>23 DEF Notify, Works
    <2>24. CASE Grow
        <3>1. partition' \in {"absent", "small", "max"} /\ grown' \in 0 .. MaxGrow
            BY <2>24 DEF Grow
        <3>2. backupAtEnd' \in BOOLEAN /\ fs' \in {"small", "max"}
            BY <2>24 DEF Grow
        <3>3. /\ UNCHANGED <<partuuid, pc, cmdline, volVars, rzVars, mountVars>>
              /\ UNCHANGED <<failVars, losses, lostAt, copyCut>>
            BY <2>24 DEF Grow
        <3>4. pc = "off"
            BY <2>24 DEF Grow
        <3>5. TypeOK'
            BY <3>1, <3>2, <3>3
        <3>6. NewPartInv'
            BY <3>3, <3>4
        <3>7. QED
            BY <3>5, <3>6
    <2>25. CASE Boot
        BY <2>25 DEF Boot, Bootable
    <2>26. CASE PowerLoss
        <3>1. losses' \in 0 .. MaxLosses /\ lostAt' \in SUBSET PCs
            BY <2>26 DEF PowerLoss
        <3>2. copyCut' \in BOOLEAN
            BY <2>26 DEF PowerLoss
        <3>3. nvramFiles' \in [DefaultFiles -> {"none", "default", "user"}]
            BY <2>26 DEF PowerLoss
        <3>4. toplevel' = FALSE /\ logsMount' = FALSE
            BY <2>26 DEF PowerLoss, PowerOff
        <3>5. QED
            BY <2>26, <3>1, <3>2, <3>3, <3>4 DEF PowerLoss, PowerOff
    <2>27. CASE Shutdown
        BY <2>27 DEF Shutdown, PowerOff
    <2>28. CASE Commit
        BY <2>28 DEF Commit
    <2>29. CASE Rerun
        BY <2>29 DEF Rerun
    <2>30. ASSUME NEW f \in DefaultFiles, CopyBack(f) PROVE (TypeOK /\ NewPartInv)'
        <3>1. Works \/ Fails
            BY <2>30 DEF CopyBack
        <3>2. faults' \in 0 .. MaxFaults /\ failedAt' \in SUBSET PCs
            BY <3>1, FailureTyped
        <3>3. QED
            BY <2>30, <3>2 DEF CopyBack, TypeOK
    <2>31. ASSUME NEW f \in DefaultFiles, UserWrite(f) PROVE (TypeOK /\ NewPartInv)'
        BY <2>31 DEF UserWrite
    <2>32. CASE UNCHANGED vars
        BY <2>32 DEF vars
    <2>33. QED
        BY <2>1, <2>2, <2>3, <2>4, <2>5, <2>6, <2>7, <2>8, <2>9, <2>10,
           <2>11, <2>12, <2>13, <2>14, <2>15, <2>16, <2>17, <2>18, <2>19,
           <2>20, <2>21, <2>22, <2>23, <2>24, <2>25, <2>26, <2>27, <2>28,
           <2>29, <2>30, <2>31, <2>32 DEF Next, Script, ResizeDisk,
           SubvolInit, Environment
<1>3. QED
    BY <1>1, <1>2, PTL DEF Spec

\* TypeOK, for any bounds on files, faults, losses and enlargements.
THEOREM TypeCorrect == Spec => []TypeOK
BY TypeInvariant, PTL

-----------------------------------------------------------------------------
(* The boot loader finds the root *)

\* Only sgdisk -d, -N and -u disturb the root partition, and set -e leaves the
\* script there.
LEMMA RootInvariant == Spec => []RootInv
<1> USE DEF gptVars, volVars, diskVars, rzVars, mountVars, failVars, lossVars,
           rzFrame, initFrame, Works, Fails, Goto
<1>1. Init => RootInv
    BY DEF Init, RootInv
<1>2. TypeOK /\ RootInv /\ [Next]_vars => RootInv'
    <2> SUFFICES ASSUME TypeOK, RootInv, [Next]_vars
                 PROVE  RootInv'
        OBVIOUS
    <2> USE DEF TypeOK, RootInv, Torn, Replacing, PCs, RzSteps, InitSteps
    <2>1. CASE RzCheck
        BY <2>1 DEF RzCheck
    <2>2. CASE RzUuid
        BY <2>2 DEF RzUuid
    <2>3. CASE RzMoveBackup
        BY <2>3 DEF RzMoveBackup
    <2>4. CASE RzDelete
        BY <2>4 DEF RzDelete
    <2>5. CASE RzNew
        BY <2>5 DEF RzNew
    <2>6. CASE RzSetUuid
        BY <2>6 DEF RzSetUuid
    <2>7. CASE RzPart
        BY <2>7 DEF RzPart
    <2>8. CASE RzFs
        BY <2>8 DEF RzFs
    <2>9. CASE RzFail
        BY <2>9 DEF RzFail
    <2>10. CASE Guard
        BY <2>10 DEF Guard
    <2>11. CASE MountToplevel
        BY <2>11 DEF MountToplevel
    <2>12. CASE ReadCmdline
        BY <2>12 DEF ReadCmdline
    <2>13. CASE MountVol
        BY <2>13 DEF MountVol
    <2>14. CASE MountNvram
        BY <2>14 DEF MountNvram
    <2>15. CASE MountNvramFail
        BY <2>15 DEF MountNvramFail
    <2>16. CASE CreateNvram
        BY <2>16 DEF CreateNvram
    <2>17. CASE CopyAside
        BY <2>17 DEF CopyAside
    <2>18. CASE MountNew
        BY <2>18 DEF MountNew
    <2>19. CASE CopyDone
        BY <2>19 DEF CopyDone
    <2>20. CASE MountLogs
        BY <2>20 DEF MountLogs
    <2>21. CASE CreateLogs
        BY <2>21 DEF CreateLogs
    <2>22. CASE MountNewLogs
        BY <2>22 DEF MountNewLogs
    <2>23. CASE Notify
        BY <2>23 DEF Notify
    <2>24. CASE Grow
        BY <2>24 DEF Grow
    <2>25. CASE Boot
        BY <2>25 DEF Boot, Bootable
    <2>26. CASE PowerLoss
        BY <2>26 DEF PowerLoss, PowerOff
    <2>27. CASE Shutdown
        BY <2>27 DEF Shutdown, PowerOff
    <2>28. CASE Commit
        BY <2>28 DEF Commit
    <2>29. CASE Rerun
        BY <2>29 DEF Rerun
    <2>30. ASSUME NEW f \in DefaultFiles, CopyBack(f) PROVE RootInv'
        BY <2>30 DEF CopyBack
    <2>31. ASSUME NEW f \in DefaultFiles, UserWrite(f) PROVE RootInv'
        BY <2>31 DEF UserWrite
    <2>32. CASE UNCHANGED vars
        BY <2>32 DEF vars
    <2>33. QED
        BY <2>1, <2>2, <2>3, <2>4, <2>5, <2>6, <2>7, <2>8, <2>9, <2>10,
           <2>11, <2>12, <2>13, <2>14, <2>15, <2>16, <2>17, <2>18, <2>19,
           <2>20, <2>21, <2>22, <2>23, <2>24, <2>25, <2>26, <2>27, <2>28,
           <2>29, <2>30, <2>31, <2>32 DEF Next, Script, ResizeDisk,
           SubvolInit, Environment
<1>3. QED
    BY <1>1, <1>2, TypeCorrect, PTL DEF Spec

\* The device stays bootable unless power was lost, or a command failed, just
\* before sgdisk -N or sgdisk -u, or the old GUID could not be read.
THEOREM StaysBootable == Spec => []BootableUnlessTorn
<1>1. RootInv => BootableUnlessTorn
    BY DEF RootInv, Torn, Replacing, BootableUnlessTorn, Bootable
<1>2. QED
    BY <1>1, RootInvariant, PTL

-----------------------------------------------------------------------------
(* The file system fills the disk *)

\* sgdisk -e, which makes later boots skip the resize, comes before the
\* commands that do it; only a failure or loss there leaves the disk unused.
LEMMA SizeInvariant == Spec => []SizeInv
<1> USE DEF gptVars, volVars, diskVars, rzVars, mountVars, failVars, lossVars,
           rzFrame, initFrame, Works, Fails, Goto
<1>1. Init => SizeInv
    BY DEF Init, SizeInv, Marked, InitSteps
<1>2. TypeOK /\ NewPartInv /\ SizeInv /\ [Next]_vars => SizeInv'
    <2> SUFFICES ASSUME TypeOK, NewPartInv, SizeInv, [Next]_vars
                 PROVE  SizeInv'
        OBVIOUS
    <2> USE DEF TypeOK, NewPartInv, SizeInv, CutShort, Marked, PCs, RzSteps,
               InitSteps
    <2>1. CASE RzCheck
        BY <2>1 DEF RzCheck
    <2>2. CASE RzUuid
        BY <2>2 DEF RzUuid
    <2>3. CASE RzMoveBackup
        BY <2>3 DEF RzMoveBackup
    <2>4. CASE RzDelete
        BY <2>4 DEF RzDelete
    <2>5. CASE RzNew
        BY <2>5 DEF RzNew
    <2>6. CASE RzSetUuid
        BY <2>6 DEF RzSetUuid
    <2>7. CASE RzPart
        BY <2>7 DEF RzPart
    <2>8. CASE RzFs
        BY <2>8 DEF RzFs
    <2>9. CASE RzFail
        BY <2>9 DEF RzFail
    <2>10. CASE Guard
        BY <2>10 DEF Guard
    <2>11. CASE MountToplevel
        BY <2>11 DEF MountToplevel
    <2>12. CASE ReadCmdline
        BY <2>12 DEF ReadCmdline
    <2>13. CASE MountVol
        BY <2>13 DEF MountVol
    <2>14. CASE MountNvram
        BY <2>14 DEF MountNvram
    <2>15. CASE MountNvramFail
        BY <2>15 DEF MountNvramFail
    <2>16. CASE CreateNvram
        BY <2>16 DEF CreateNvram
    <2>17. CASE CopyAside
        BY <2>17 DEF CopyAside
    <2>18. CASE MountNew
        BY <2>18 DEF MountNew
    <2>19. CASE CopyDone
        BY <2>19 DEF CopyDone
    <2>20. CASE MountLogs
        BY <2>20 DEF MountLogs
    <2>21. CASE CreateLogs
        BY <2>21 DEF CreateLogs
    <2>22. CASE MountNewLogs
        BY <2>22 DEF MountNewLogs
    <2>23. CASE Notify
        BY <2>23 DEF Notify
    <2>24. CASE Grow
        BY <2>24 DEF Grow
    <2>25. CASE Boot
        BY <2>25 DEF Boot, Bootable
    <2>26. CASE PowerLoss
        BY <2>26 DEF PowerLoss, PowerOff
    <2>27. CASE Shutdown
        BY <2>27 DEF Shutdown, PowerOff
    <2>28. CASE Commit
        BY <2>28 DEF Commit
    <2>29. CASE Rerun
        BY <2>29 DEF Rerun
    <2>30. ASSUME NEW f \in DefaultFiles, CopyBack(f) PROVE SizeInv'
        BY <2>30 DEF CopyBack
    <2>31. ASSUME NEW f \in DefaultFiles, UserWrite(f) PROVE SizeInv'
        BY <2>31 DEF UserWrite
    <2>32. CASE UNCHANGED vars
        BY <2>32 DEF vars
    <2>33. QED
        BY <2>1, <2>2, <2>3, <2>4, <2>5, <2>6, <2>7, <2>8, <2>9, <2>10,
           <2>11, <2>12, <2>13, <2>14, <2>15, <2>16, <2>17, <2>18, <2>19,
           <2>20, <2>21, <2>22, <2>23, <2>24, <2>25, <2>26, <2>27, <2>28,
           <2>29, <2>30, <2>31, <2>32 DEF Next, Script, ResizeDisk,
           SubvolInit, Environment
<1>3. QED
    BY <1>1, <1>2, TypeInvariant, PTL DEF Spec

\* Once up, the system uses the whole disk unless a command of the resize
\* failed or power was lost after sgdisk -e.
THEOREM UsesWholeDisk == Spec => []DiskFullyUsedUnlessTorn
<1>1. SizeInv => DiskFullyUsedUnlessTorn
    BY DEF SizeInv, CutShort, Marked, DiskFullyUsedUnlessTorn, InitSteps
<1>2. QED
    BY <1>1, SizeInvariant, PTL

-----------------------------------------------------------------------------
(* What is mounted *)

\* The commands that set up a new @nvram.
SettingUp == {"aside", "mount2", "copyback"}

\* Until @nvram is mounted /nvram is the root file system's, and only an
\* @nvram that exists is mounted.
MountInv ==
    /\ pc \in RzSteps \cup {"off", "top", "cmdline", "mountvol", "mount1",
                            "create", "aside", "mount2"} => nvramMount = "rootfs"
    /\ nvramMount = "@nvram" => nvramSubvol
    /\ ~nvramSubvol => \A f \in DefaultFiles : nvramFiles[f] = "none"

\* Only the script mounts /nvram, and only what exists; only a mounted @nvram is
\* written to.
LEMMA MountInvariant == Spec => []MountInv
<1> USE DEF gptVars, volVars, diskVars, rzVars, mountVars, failVars, lossVars,
           rzFrame, initFrame, Works, Fails, Goto
<1>1. Init => MountInv
    BY DEF Init, MountInv
<1>2. TypeOK /\ MountInv /\ [Next]_vars => MountInv'
    <2> SUFFICES ASSUME TypeOK, MountInv, [Next]_vars
                 PROVE  MountInv'
        OBVIOUS
    <2> USE DEF TypeOK, MountInv, PCs, RzSteps, InitSteps
    <2>1. CASE ResizeDisk
        BY <2>1 DEF ResizeDisk, RzCheck, RzUuid, RzMoveBackup, RzDelete, RzNew,
           RzSetUuid, RzPart, RzFs, RzFail
    <2>2. CASE Guard
        BY <2>2 DEF Guard
    <2>3. CASE MountToplevel
        BY <2>3 DEF MountToplevel
    <2>4. CASE ReadCmdline
        BY <2>4 DEF ReadCmdline
    <2>5. CASE MountVol
        BY <2>5 DEF MountVol, SubvolIdParses
    <2>6. CASE MountNvram
        BY <2>6 DEF MountNvram
    <2>7. CASE MountNvramFail
        BY <2>7 DEF MountNvramFail
    <2>8. CASE CreateNvram
        BY <2>8 DEF CreateNvram
    <2>9. CASE CopyAside
        BY <2>9 DEF CopyAside
    <2>10. CASE MountNew
        BY <2>10 DEF MountNew
    <2>11. CASE CopyDone
        BY <2>11 DEF CopyDone
    <2>12. CASE MountLogs
        BY <2>12 DEF MountLogs
    <2>13. CASE CreateLogs
        BY <2>13 DEF CreateLogs
    <2>14. CASE MountNewLogs
        BY <2>14 DEF MountNewLogs
    <2>15. CASE Notify
        BY <2>15 DEF Notify
    <2>16. CASE Grow
        BY <2>16 DEF Grow
    <2>17. CASE Boot
        BY <2>17 DEF Boot, Bootable
    <2>18. CASE PowerLoss
        BY <2>18 DEF PowerLoss, PowerOff
    <2>19. CASE Shutdown
        BY <2>19 DEF Shutdown, PowerOff
    <2>20. CASE Commit
        BY <2>20 DEF Commit
    <2>21. CASE Rerun
        BY <2>21 DEF Rerun
    <2>22. ASSUME NEW f \in DefaultFiles, CopyBack(f) PROVE MountInv'
        BY <2>22 DEF CopyBack
    <2>23. ASSUME NEW f \in DefaultFiles, UserWrite(f) PROVE MountInv'
        BY <2>23 DEF UserWrite
    <2>24. CASE UNCHANGED vars
        BY <2>24 DEF vars
    <2>25. QED
        BY <2>1, <2>2, <2>3, <2>4, <2>5, <2>6, <2>7, <2>8, <2>9, <2>10,
           <2>11, <2>12, <2>13, <2>14, <2>15, <2>16, <2>17, <2>18, <2>19,
           <2>20, <2>21, <2>22, <2>23, <2>24
        DEF Next, Script, SubvolInit, Environment
<1>3. QED
    BY <1>1, <1>2, TypeCorrect, PTL DEF Spec

\* What holds along the script if no command has failed.
ReadyInv ==
    failedAt = {} =>
        /\ pc \in {"cmdline", "mountvol", "mount1", "create", "aside", "mount2",
                   "copyback", "logs", "logcreate", "logmount"} => toplevel
        /\ pc \in SettingUp => nvramSubvol
        /\ pc = "copyback" => nvramMount = "@nvram"
        /\ pc = "mountvol" => cmdline # "none"
        /\ pc \in {"logs", "logcreate", "logmount", "notify", "up"}
              /\ cmdline \in {"none", "last"} => nvramMount # "rootfs"
        /\ pc = "logmount" => logsSubvol
        /\ pc \in {"notify", "up"} => logsMount
        /\ pc = "guard" /\ nvramMount # "rootfs" => logsMount

\* Each command leaves what the next one needs.
LEMMA ReadyInvariant == Spec => []ReadyInv
<1> USE DEF gptVars, volVars, diskVars, rzVars, mountVars, failVars, lossVars,
           rzFrame, initFrame, Works, Fails, Goto
<1>1. Init => ReadyInv
    BY DEF Init, ReadyInv, SettingUp
<1>2. TypeOK /\ MountInv /\ ReadyInv /\ [Next]_vars => ReadyInv'
    <2> SUFFICES ASSUME TypeOK, MountInv, ReadyInv, [Next]_vars
                 PROVE  ReadyInv'
        OBVIOUS
    <2> USE DEF TypeOK, MountInv, ReadyInv, SettingUp, PCs, RzSteps, InitSteps
    <2>1. CASE ResizeDisk
        BY <2>1 DEF ResizeDisk, RzCheck, RzUuid, RzMoveBackup, RzDelete, RzNew,
           RzSetUuid, RzPart, RzFs, RzFail
    <2>2. CASE Guard
        BY <2>2 DEF Guard
    <2>3. CASE MountToplevel
        BY <2>3 DEF MountToplevel
    <2>4. CASE ReadCmdline
        BY <2>4 DEF ReadCmdline
    <2>5. CASE MountVol
        BY <2>5 DEF MountVol, SubvolIdParses
    <2>6. CASE MountNvram
        BY <2>6 DEF MountNvram
    <2>7. CASE MountNvramFail
        BY <2>7 DEF MountNvramFail
    <2>8. CASE CreateNvram
        BY <2>8 DEF CreateNvram
    <2>9. CASE CopyAside
        BY <2>9 DEF CopyAside
    <2>10. CASE MountNew
        BY <2>10 DEF MountNew
    <2>11. CASE CopyDone
        BY <2>11 DEF CopyDone
    <2>12. CASE MountLogs
        BY <2>12 DEF MountLogs
    <2>13. CASE CreateLogs
        BY <2>13 DEF CreateLogs
    <2>14. CASE MountNewLogs
        BY <2>14 DEF MountNewLogs
    <2>15. CASE Notify
        BY <2>15 DEF Notify
    <2>16. CASE Grow
        BY <2>16 DEF Grow
    <2>17. CASE Boot
        BY <2>17 DEF Boot, Bootable
    <2>18. CASE PowerLoss
        BY <2>18 DEF PowerLoss, PowerOff
    <2>19. CASE Shutdown
        BY <2>19 DEF Shutdown, PowerOff
    <2>20. CASE Commit
        BY <2>20 DEF Commit
    <2>21. CASE Rerun
        BY <2>21 DEF Rerun
    <2>22. ASSUME NEW f \in DefaultFiles, CopyBack(f) PROVE ReadyInv'
        BY <2>22 DEF CopyBack
    <2>23. ASSUME NEW f \in DefaultFiles, UserWrite(f) PROVE ReadyInv'
        BY <2>23 DEF UserWrite
    <2>24. CASE UNCHANGED vars
        BY <2>24 DEF vars
    <2>25. QED
        BY <2>1, <2>2, <2>3, <2>4, <2>5, <2>6, <2>7, <2>8, <2>9, <2>10,
           <2>11, <2>12, <2>13, <2>14, <2>15, <2>16, <2>17, <2>18, <2>19,
           <2>20, <2>21, <2>22, <2>23, <2>24
        DEF Next, Script, SubvolInit, Environment
<1>3. QED
    BY <1>1, <1>2, TypeCorrect, MountInvariant, PTL DEF Spec

\* Without a failing command both file systems are mounted when systemd is
\* told so, over any number of power losses and reruns.
THEOREM MountsReady == Spec => []MountedWhenReady
<1>1. ReadyInv => MountedWhenReady
    BY DEF ReadyInv, MountedWhenReady
<1>2. QED
    BY <1>1, ReadyInvariant, PTL

-----------------------------------------------------------------------------
(* The default files *)

\* As long as no copy was cut short or failed, an @nvram that is not being set
\* up holds every default file, and one that is will.
DefaultsInv ==
    ~copyCut /\ failedAt \cap SettingUp = {} =>
        /\ nvramSubvol /\ pc \notin SettingUp =>
              \A f \in DefaultFiles : nvramFiles[f] # "none"
        /\ pc = "mount2" => aside = DefaultFiles
        /\ pc = "copyback" /\ nvramSubvol =>
              /\ nvramMount = "@nvram"
              /\ \A f \in DefaultFiles : f \in aside \/ nvramFiles[f] # "none"

\* A new @nvram is filled before anything else uses it.
LEMMA DefaultsInvariant == Spec => []DefaultsInv
<1> USE DEF gptVars, volVars, diskVars, rzVars, mountVars, failVars, lossVars,
           rzFrame, initFrame, Works, Fails, Goto
<1>1. Init => DefaultsInv
    BY DEF Init, DefaultsInv, SettingUp
<1>2. TypeOK /\ MountInv /\ DefaultsInv /\ [Next]_vars => DefaultsInv'
    <2> SUFFICES ASSUME TypeOK, MountInv, DefaultsInv, [Next]_vars
                 PROVE  DefaultsInv'
        OBVIOUS
    <2> USE DEF TypeOK, MountInv, DefaultsInv, SettingUp, PCs, RzSteps, InitSteps
    <2>1. CASE ResizeDisk
        BY <2>1 DEF ResizeDisk, RzCheck, RzUuid, RzMoveBackup, RzDelete, RzNew,
           RzSetUuid, RzPart, RzFs, RzFail
    <2>2. CASE Guard
        BY <2>2 DEF Guard
    <2>3. CASE MountToplevel
        BY <2>3 DEF MountToplevel
    <2>4. CASE ReadCmdline
        BY <2>4 DEF ReadCmdline
    <2>5. CASE MountVol
        BY <2>5 DEF MountVol, SubvolIdParses
    <2>6. CASE MountNvram
        BY <2>6 DEF MountNvram
    <2>7. CASE MountNvramFail
        BY <2>7 DEF MountNvramFail
    <2>8. CASE CreateNvram
        BY <2>8 DEF CreateNvram
    <2>9. CASE CopyAside
        BY <2>9 DEF CopyAside
    <2>10. CASE MountNew
        BY <2>10 DEF MountNew
    <2>11. CASE CopyDone
        BY <2>11 DEF CopyDone
    <2>12. CASE MountLogs
        BY <2>12 DEF MountLogs
    <2>13. CASE CreateLogs
        BY <2>13 DEF CreateLogs
    <2>14. CASE MountNewLogs
        BY <2>14 DEF MountNewLogs
    <2>15. CASE Notify
        BY <2>15 DEF Notify
    <2>16. CASE Grow
        BY <2>16 DEF Grow
    <2>17. CASE Boot
        BY <2>17 DEF Boot, Bootable
    <2>18. CASE PowerLoss
        BY <2>18 DEF PowerLoss, PowerOff
    <2>19. CASE Shutdown
        BY <2>19 DEF Shutdown, PowerOff
    <2>20. CASE Commit
        BY <2>20 DEF Commit
    <2>21. CASE Rerun
        BY <2>21 DEF Rerun
    <2>22. ASSUME NEW f \in DefaultFiles, CopyBack(f) PROVE DefaultsInv'
        BY <2>22 DEF CopyBack
    <2>23. ASSUME NEW f \in DefaultFiles, UserWrite(f) PROVE DefaultsInv'
        BY <2>23 DEF UserWrite
    <2>24. CASE UNCHANGED vars
        BY <2>24 DEF vars
    <2>25. QED
        BY <2>1, <2>2, <2>3, <2>4, <2>5, <2>6, <2>7, <2>8, <2>9, <2>10,
           <2>11, <2>12, <2>13, <2>14, <2>15, <2>16, <2>17, <2>18, <2>19,
           <2>20, <2>21, <2>22, <2>23, <2>24
        DEF Next, Script, SubvolInit, Environment
<1>3. QED
    BY <1>1, <1>2, TypeCorrect, MountInvariant, PTL DEF Spec

\* Every default file is in the @nvram in use, unless a copy was cut short or
\* one of three commands failed.
THEOREM DefaultsInstalled == Spec => []DefaultsInstalledUnlessCut
<1>1. MountInv /\ DefaultsInv => DefaultsInstalledUnlessCut
    BY DEF MountInv, DefaultsInv, SettingUp, DefaultsInstalledUnlessCut
<1>2. QED
    BY <1>1, MountInvariant, DefaultsInvariant, PTL

-----------------------------------------------------------------------------
(* The settings *)

\* What a component has written is synced, and a new @nvram holds none of it.
SettingsInv ==
    /\ \A f \in dirty : nvramFiles[f] # "user"
    /\ "mount1" \notin failedAt /\ pc \in SettingUp \cup {"create"} =>
          \A f \in DefaultFiles : nvramFiles[f] # "user"

\* Defaults are copied only into an @nvram without settings.
LEMMA SettingsInvariant == Spec => []SettingsInv
<1> USE DEF gptVars, volVars, diskVars, rzVars, mountVars, failVars, lossVars,
           rzFrame, initFrame, Works, Fails, Goto
<1>1. Init => SettingsInv
    BY DEF Init, SettingsInv, SettingUp
<1>2. TypeOK /\ MountInv /\ SettingsInv /\ [Next]_vars => SettingsInv'
    <2> SUFFICES ASSUME TypeOK, MountInv, SettingsInv, [Next]_vars
                 PROVE  SettingsInv'
        OBVIOUS
    <2> USE DEF TypeOK, MountInv, SettingsInv, SettingUp, PCs, RzSteps, InitSteps
    <2>1. CASE ResizeDisk
        BY <2>1 DEF ResizeDisk, RzCheck, RzUuid, RzMoveBackup, RzDelete, RzNew,
           RzSetUuid, RzPart, RzFs, RzFail
    <2>2. CASE Guard
        BY <2>2 DEF Guard
    <2>3. CASE MountToplevel
        BY <2>3 DEF MountToplevel
    <2>4. CASE ReadCmdline
        BY <2>4 DEF ReadCmdline
    <2>5. CASE MountVol
        BY <2>5 DEF MountVol, SubvolIdParses
    <2>6. CASE MountNvram
        BY <2>6 DEF MountNvram
    <2>7. CASE MountNvramFail
        BY <2>7 DEF MountNvramFail
    <2>8. CASE CreateNvram
        BY <2>8 DEF CreateNvram
    <2>9. CASE CopyAside
        BY <2>9 DEF CopyAside
    <2>10. CASE MountNew
        BY <2>10 DEF MountNew
    <2>11. CASE CopyDone
        BY <2>11 DEF CopyDone
    <2>12. CASE MountLogs
        BY <2>12 DEF MountLogs
    <2>13. CASE CreateLogs
        BY <2>13 DEF CreateLogs
    <2>14. CASE MountNewLogs
        BY <2>14 DEF MountNewLogs
    <2>15. CASE Notify
        BY <2>15 DEF Notify
    <2>16. CASE Grow
        BY <2>16 DEF Grow
    <2>17. CASE Boot
        BY <2>17 DEF Boot, Bootable
    <2>18. CASE PowerLoss
        BY <2>18 DEF PowerLoss, PowerOff
    <2>19. CASE Shutdown
        BY <2>19 DEF Shutdown, PowerOff
    <2>20. CASE Commit
        BY <2>20 DEF Commit
    <2>21. CASE Rerun
        BY <2>21 DEF Rerun
    <2>22. ASSUME NEW f \in DefaultFiles, CopyBack(f) PROVE SettingsInv'
        BY <2>22 DEF CopyBack
    <2>23. ASSUME NEW f \in DefaultFiles, UserWrite(f) PROVE SettingsInv'
        BY <2>23 DEF UserWrite
    <2>24. CASE UNCHANGED vars
        BY <2>24 DEF vars
    <2>25. QED
        BY <2>1, <2>2, <2>3, <2>4, <2>5, <2>6, <2>7, <2>8, <2>9, <2>10,
           <2>11, <2>12, <2>13, <2>14, <2>15, <2>16, <2>17, <2>18, <2>19,
           <2>20, <2>21, <2>22, <2>23, <2>24
        DEF Next, Script, SubvolInit, Environment
<1>3. QED
    BY <1>1, <1>2, TypeCorrect, MountInvariant, PTL DEF Spec

\* No boot, rerun, failure or power loss takes a setting back to its default,
\* as long as mounting an existing @nvram works.
THEOREM SettingsKept == Spec => SettingsSurvive
<1> DEFINE Kept == \A f \in DefaultFiles :
                       nvramFiles[f] = "user" /\ "mount1" \notin failedAt
                           => nvramFiles'[f] = "user"
<1>1. TypeOK /\ SettingsInv /\ [Next]_vars => [Kept]_vars
    <2> SUFFICES ASSUME TypeOK, SettingsInv, Next PROVE Kept
        OBVIOUS
    <2>1. CASE UNCHANGED nvramFiles
        BY <2>1
    <2>2. CASE PowerLoss
        BY <2>2 DEF PowerLoss, TypeOK, SettingsInv
    <2>3. ASSUME NEW g \in DefaultFiles, CopyBack(g) PROVE Kept
        BY <2>3 DEF CopyBack, TypeOK, SettingsInv, SettingUp
    <2>4. ASSUME NEW g \in DefaultFiles, UserWrite(g) PROVE Kept
        BY <2>4 DEF UserWrite, TypeOK
    <2>5. ASSUME ~PowerLoss,
                 \A g \in DefaultFiles : ~CopyBack(g) /\ ~UserWrite(g)
          PROVE  UNCHANGED nvramFiles
        BY <2>5
        DEF Next, Script, Environment, ResizeDisk, SubvolInit, RzCheck, RzUuid,
            RzMoveBackup, RzDelete, RzNew, RzSetUuid, RzPart, RzFs, RzFail, Guard,
            MountToplevel, ReadCmdline, MountVol, MountNvram, MountNvramFail,
            CreateNvram, CopyAside, MountNew, CopyDone, MountLogs, CreateLogs,
            MountNewLogs, Notify, Grow, Boot, Shutdown, Commit, Rerun, gptVars,
            volVars, diskVars, rzFrame, initFrame
    <2>6. QED
        BY <2>1, <2>2, <2>3, <2>4, <2>5
<1>2. QED
    BY <1>1, TypeCorrect, SettingsInvariant, PTL DEF Spec, SettingsSurvive

-----------------------------------------------------------------------------
(* The boot goes on *)

\* Where a boot has got to.
Stage ==
    [off |-> 0, guard |-> 1, rz_check |-> 2, rz_uuid |-> 3, rz_e |-> 4,
     rz_d |-> 5, rz_N |-> 6, rz_u |-> 7, rz_part |-> 8, rz_fs |-> 9, top |-> 10,
     cmdline |-> 11, mountvol |-> 12, mount1 |-> 13, create |-> 14, aside |-> 15,
     mount2 |-> 16, copyback |-> 17, logs |-> 18, logcreate |-> 19,
     logmount |-> 20, notify |-> 21, up |-> 22][pc]

\* One file less is left to be copied.
OneCopied ==
    /\ pc = "copyback" /\ pc' = pc
    /\ \E f \in aside : aside' = aside \ {f}

\* A command of either script, whether it works or fails, is followed by a
\* later one, or by the next file; only the power takes a boot back, and
\* nothing but a command takes it on.
GoesOn ==
    /\ Script => Stage' > Stage \/ OneCopied
    /\ ~Script => \/ pc' = pc /\ aside' = aside
                  \/ pc' = "off"
                  \/ pc \in {"off", "up"} /\ pc' = "guard"

\* No failing command sends a boot in a circle or to a command before: with
\* finitely many default files every boot reaches systemd-notify, or loses
\* power, after finitely many commands.  This is the part of BootNotHeldUp
\* that does not need fairness.
THEOREM BootGoesOn == Spec => [](Stage \in 0 .. 22) /\ [][GoesOn]_vars
<1>1. TypeOK => Stage \in 0 .. 22
    BY DEF TypeOK, PCs, RzSteps, InitSteps, Stage
<1>2. TypeOK /\ TypeOK' /\ [Next]_vars => [GoesOn]_vars
    <2> SUFFICES ASSUME TypeOK, TypeOK', Next PROVE GoesOn
        OBVIOUS
    <2>1. ASSUME ResizeDisk PROVE Stage' > Stage
        BY <2>1
        DEF Stage, TypeOK, RzSteps, ResizeDisk, RzCheck, RzUuid, RzMoveBackup, RzDelete, RzNew,
            RzSetUuid, RzPart, RzFs, RzFail, Goto
    <2>2. ASSUME NEW f \in DefaultFiles, CopyBack(f) PROVE OneCopied
        BY <2>2 DEF CopyBack, OneCopied
    <2>3. ASSUME SubvolInit, \A f \in DefaultFiles : ~CopyBack(f)
          PROVE  Stage' > Stage
        BY <2>3
        DEF Stage, SubvolInit, Guard, MountToplevel, ReadCmdline, MountVol, MountNvram,
            MountNvramFail, CreateNvram, CopyAside, MountNew, CopyDone, MountLogs, CreateLogs,
            MountNewLogs, Notify, Goto
    <2>4. ASSUME Environment
          PROVE  \/ pc' = pc /\ aside' = aside
                 \/ pc' = "off"
                 \/ pc \in {"off", "up"} /\ pc' = "guard"
        BY <2>4
        DEF Environment, Grow, Boot, PowerLoss, PowerOff, Shutdown, Commit, Rerun, UserWrite,
            Goto, mountVars
    <2> QED
        BY <2>1, <2>2, <2>3, <2>4 DEF GoesOn, Next, Script
<1>3. QED
    BY <1>1, <1>2, TypeCorrect, PTL DEF Spec
=============================================================================
