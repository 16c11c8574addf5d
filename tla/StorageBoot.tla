---------------------------- MODULE StorageBoot -----------------------------
(***************************************************************************)
(* First-boot storage set-up: nvram-subvol-init.sh and the resize-disk.sh  *)
(* it runs first, both over a disk that survives power loss at any line.   *)
(*                                                                         *)
(* The disk keeps the GPT (where its backup is, the root partition and its *)
(* unique GUID), the btrfs file system and its @nvram and @rdklogs         *)
(* subvolumes.  Everything else is lost when the power goes.  pc names the *)
(* command that runs next.                                                 *)
(***************************************************************************)
EXTENDS Naturals

CONSTANTS
    DefaultFiles,   \* what /nvram/* matches in the image's own /nvram
    CmdlineKinds,   \* where nvramvol= may stand on the kernel command line
    MaxGrow,        \* bound: how often the disk is enlarged while off
    MaxFaults,      \* bound: commands that fail
    MaxLosses       \* bound: power losses

ASSUME CmdlineAssumption ==
    CmdlineKinds \subseteq {"none", "last", "middle", "first"}

ASSUME BoundAssumption ==
    MaxGrow \in Nat /\ MaxFaults \in Nat /\ MaxLosses \in Nat

VARIABLES
    \* on the disk
    backupAtEnd,    \* the backup GPT is on the end of the device
    partition,      \* the root partition: absent, small, max
    partuuid,       \* its unique GUID: orig (what root= names) or another
    fs,             \* the size of the btrfs file system: small or max
    nvramSubvol,    \* the subvolume @nvram exists
    logsSubvol,     \* the subvolume @rdklogs exists
    nvramFiles,     \* what @nvram holds of each default file
    dirty,          \* files copied but not yet committed by btrfs
    \* lost with the power
    pc,
    cmdline,        \* where nvramvol= stands on this boot's command line
    savedUuid,      \* root_part_uuid of resize-disk.sh
    kernelPart,     \* the kernel's idea of the partition: small or max
    toplevel,       \* /volumes/toplevel is mounted
    nvramMount,     \* what /nvram shows: rootfs, @nvram or vol
    logsMount,      \* /rdklogs is mounted
    aside,          \* files in /tmp/nvram_default still to be copied
    \* bounds and history
    grown, faults, losses,
    failedAt,       \* history: the commands that failed
    lostAt,         \* history: the commands power loss preempted
    copyCut         \* history: power was lost before the defaults were safe

gptVars   == <<backupAtEnd, partition, partuuid>>
volVars   == <<nvramSubvol, logsSubvol, nvramFiles, dirty>>
diskVars  == <<gptVars, fs, volVars>>
rzVars    == <<savedUuid, kernelPart>>
mountVars == <<toplevel, nvramMount, logsMount, aside>>
failVars  == <<faults, failedAt>>
lossVars  == <<grown, losses, lostAt, copyCut>>
vars == <<diskVars, pc, cmdline, rzVars, mountVars, failVars, lossVars>>

-----------------------------------------------------------------------------
(* Types *)

\* The commands of resize-disk.sh that can fail, in their order.
RzSteps == {"rz_check", "rz_uuid", "rz_e", "rz_d", "rz_N", "rz_u", "rz_part",
            "rz_fs"}
InitSteps == {"guard", "top", "cmdline", "mountvol", "mount1", "create",
              "aside", "mount2", "copyback", "logs", "logcreate", "logmount",
              "notify"}
PCs == RzSteps \cup InitSteps \cup {"off", "up"}

TypeOK ==
    /\ backupAtEnd \in BOOLEAN
    /\ partition \in {"absent", "small", "max"}
    /\ partuuid \in {"orig", "other"}
    /\ fs \in {"small", "max"}
    /\ nvramSubvol \in BOOLEAN
    /\ logsSubvol \in BOOLEAN
    /\ nvramFiles \in [DefaultFiles -> {"none", "default", "user"}]
    /\ dirty \in SUBSET DefaultFiles
    /\ pc \in PCs
    /\ cmdline \in CmdlineKinds
    /\ savedUuid \in {"unset", "orig", "other"}
    /\ kernelPart \in {"small", "max"}
    /\ toplevel \in BOOLEAN
    /\ nvramMount \in {"rootfs", "@nvram", "vol"}
    /\ logsMount \in BOOLEAN
    /\ aside \in SUBSET DefaultFiles
    /\ grown \in 0 .. MaxGrow
    /\ faults \in 0 .. MaxFaults
    /\ losses \in 0 .. MaxLosses
    /\ failedAt \in SUBSET PCs
    /\ lostAt \in SUBSET PCs
    /\ copyCut \in BOOLEAN

-----------------------------------------------------------------------------
(* Helpers *)

\* The boot loader's root=PARTUUID=... finds the root partition.
Bootable == partition # "absent" /\ partuuid = "orig"

Goto(from, to) == pc = from /\ pc' = to

\* The command at pc fails.
Fails ==
    /\ faults < MaxFaults
    /\ faults' = faults + 1
    /\ failedAt' = failedAt \cup {pc}

Works == UNCHANGED failVars

\* sed -rn 's/.+nvramvol=([[:digit:]]+)/\1/p' leaves a plain number only if
\* something precedes nvramvol= and nothing follows its digits.
SubvolIdParses == cmdline = "last"

Init ==
    \* The image was written to a disk of its own size, or to a larger one.
    /\ backupAtEnd \in BOOLEAN
    /\ partition = (IF backupAtEnd THEN "max" ELSE "small")
    /\ partuuid = "orig"
    /\ fs = partition
    /\ nvramSubvol = FALSE /\ logsSubvol = FALSE
    /\ nvramFiles = [f \in DefaultFiles |-> "none"]
    /\ dirty = {}
    /\ pc = "off"
    /\ cmdline \in CmdlineKinds
    /\ savedUuid = "unset" /\ kernelPart = "small"
    /\ toplevel = FALSE /\ nvramMount = "rootfs" /\ logsMount = FALSE
    /\ aside = {}
    /\ grown = 0 /\ faults = 0 /\ losses = 0
    /\ failedAt = {} /\ lostAt = {} /\ copyCut = FALSE

-----------------------------------------------------------------------------
(* The device and its owner (external) *)

\* The image is enlarged while the device is off, as the docs advise.
Grow ==
    /\ pc = "off"
    /\ grown < MaxGrow
    /\ grown' = grown + 1
    /\ backupAtEnd' = FALSE
    /\ partition' = IF partition = "max" THEN "small" ELSE partition
    /\ fs' = "small"
    /\ UNCHANGED <<partuuid, volVars, pc, cmdline, rzVars, mountVars,
                   failVars, losses, lostAt, copyCut>>

Boot ==
    /\ Goto("off", "guard")
    /\ Bootable
    /\ cmdline' \in CmdlineKinds
    /\ kernelPart' = partition
    /\ UNCHANGED <<diskVars, savedUuid, mountVars, failVars, lossVars>>

\* Everything held in memory or mounted is gone.
PowerOff ==
    /\ pc' = "off"
    /\ savedUuid' = "unset" /\ kernelPart' = "small"
    /\ toplevel' = FALSE /\ nvramMount' = "rootfs" /\ logsMount' = FALSE
    /\ aside' = {}
    /\ UNCHANGED <<gptVars, fs, nvramSubvol, logsSubvol, cmdline>>

\* Power loss: files of an uncommitted btrfs transaction were never written.
PowerLoss ==
    /\ pc # "off"
    /\ losses < MaxLosses
    /\ losses' = losses + 1
    /\ lostAt' = lostAt \cup {pc}
    /\ copyCut' = (copyCut \/ dirty # {}
                      \/ pc \in {"aside", "mount2", "copyback"})
    /\ nvramFiles' = [f \in DefaultFiles |->
                         IF f \in dirty THEN "none" ELSE nvramFiles[f]]
    /\ dirty' = {}
    /\ PowerOff
    /\ UNCHANGED <<grown, failVars>>

\* An orderly shutdown unmounts, which commits.
Shutdown ==
    /\ pc = "up"
    /\ dirty' = {}
    /\ PowerOff
    /\ UNCHANGED <<nvramFiles, failVars, lossVars>>

\* btrfs commits its transaction in the background.
Commit ==
    /\ dirty # {}
    /\ dirty' = {}
    /\ UNCHANGED <<gptVars, fs, nvramSubvol, logsSubvol, nvramFiles, pc,
                   cmdline, rzVars, mountVars, failVars, lossVars>>

\* A running component replaces a file of /nvram and syncs it.
UserWrite(f) ==
    /\ pc = "up"
    /\ nvramMount = "@nvram"
    /\ nvramFiles' = [nvramFiles EXCEPT ![f] = "user"]
    /\ dirty' = dirty \ {f}
    /\ UNCHANGED <<gptVars, fs, nvramSubvol, logsSubvol, pc, cmdline, rzVars,
                   mountVars, failVars, lossVars>>

\* The unit is started again while the system is up.
Rerun ==
    /\ Goto("up", "guard")
    /\ UNCHANGED <<diskVars, cmdline, rzVars, mountVars, failVars, lossVars>>

-----------------------------------------------------------------------------
(* resize-disk.sh *)

rzFrame == <<cmdline, volVars, mountVars, failVars, lossVars>>

\* sfdisk --list-free: nothing to do if the backup GPT is on the end.
RzCheck ==
    /\ Goto("rz_check", IF backupAtEnd THEN "top" ELSE "rz_uuid")
    /\ UNCHANGED <<gptVars, fs, rzVars, rzFrame>>

\* sgdisk -i 2: both image layouts have the root as partition 2.  If it fails
\* the pipeline still succeeds (its status is that of awk), the variable is
\* empty and the script goes on.
RzUuid ==
    /\ Goto("rz_uuid", "rz_e")
    /\ \/ Works /\ savedUuid' = partuuid
       \/ Fails /\ savedUuid' = "unset"
    /\ UNCHANGED <<gptVars, fs, kernelPart, cmdline, volVars, mountVars,
                   lossVars>>

\* sgdisk -e moves the backup GPT to the end.
RzMoveBackup ==
    /\ Goto("rz_e", "rz_d")
    /\ backupAtEnd' = TRUE
    /\ UNCHANGED <<partition, partuuid, fs, rzVars, rzFrame>>

RzDelete ==
    /\ Goto("rz_d", "rz_N")
    /\ partition' = "absent"
    /\ UNCHANGED <<backupAtEnd, partuuid, fs, rzVars, rzFrame>>

\* sgdisk -N fills the free space with a partition that has a new GUID.
RzNew ==
    /\ Goto("rz_N", "rz_u")
    /\ partition' = "max"
    /\ partuuid' = "other"
    /\ UNCHANGED <<backupAtEnd, fs, rzVars, rzFrame>>

\* Bug variant: the new partition keeps the GUID that sgdisk -N gave it.
RzSetUuidMissing ==
    /\ Goto("rz_u", "rz_part")
    /\ UNCHANGED <<gptVars, fs, rzVars, rzFrame>>

\* sgdisk -u; with an empty GUID the outcome is sgdisk's, but never the old
\* GUID.
RzSetUuid ==
    /\ pc = "rz_u"
    /\ \/ /\ savedUuid # "unset"
          /\ pc' = "rz_part"
          /\ partuuid' = savedUuid
       \/ /\ savedUuid = "unset"
          /\ pc' \in {"rz_part", "top"}
          /\ UNCHANGED partuuid
    /\ UNCHANGED <<backupAtEnd, partition, fs, rzVars, rzFrame>>

\* Bug variant: the kernel is not told of the new size.
RzPartMissing ==
    /\ Goto("rz_part", "rz_fs")
    /\ UNCHANGED <<gptVars, fs, rzVars, rzFrame>>

\* resizepart tells the kernel.
RzPart ==
    /\ Goto("rz_part", "rz_fs")
    /\ kernelPart' = partition
    /\ UNCHANGED <<gptVars, fs, savedUuid, rzFrame>>

\* btrfs filesystem resize max / grows to the partition the kernel knows.
RzFs ==
    /\ Goto("rz_fs", "top")
    /\ fs' = kernelPart
    /\ UNCHANGED <<gptVars, rzVars, rzFrame>>

\* set -e ends resize-disk.sh at its first failing command, and nothing else:
\* the caller runs it as a process of its own.
RzFail ==
    /\ pc \in RzSteps \ {"rz_uuid"}
    /\ Fails
    /\ pc' = "top"
    /\ UNCHANGED <<gptVars, fs, rzVars, cmdline, volVars, mountVars, lossVars>>

ResizeDisk ==
    \/ RzCheck \/ RzUuid \/ RzMoveBackup \/ RzDelete \/ RzNew \/ RzSetUuid
    \/ RzPart \/ RzFs \/ RzFail

-----------------------------------------------------------------------------
(* nvram-subvol-init.sh *)

initFrame == <<gptVars, fs, cmdline, rzVars, lossVars>>

\* Nothing is done if /nvram is already a btrfs mount.
Guard ==
    /\ Goto("guard", IF nvramMount = "rootfs" THEN "rz_check" ELSE "notify")
    /\ Works
    /\ UNCHANGED <<volVars, mountVars, initFrame>>

\* Bug variant: with set -e in this script too, a failing mount ends it.
MountToplevelStops ==
    /\ pc = "top"
    /\ \/ Works /\ toplevel' = TRUE /\ pc' = "cmdline"
       \/ Fails /\ UNCHANGED toplevel /\ pc' = "stopped"
    /\ UNCHANGED <<nvramMount, logsMount, aside, volVars, initFrame>>

MountToplevel ==
    /\ Goto("top", "cmdline")
    /\ \/ Works /\ toplevel' = TRUE
       \/ Fails /\ UNCHANGED toplevel
    /\ UNCHANGED <<nvramMount, logsMount, aside, volVars, initFrame>>

ReadCmdline ==
    /\ Goto("cmdline", IF cmdline = "none" THEN "mount1" ELSE "mountvol")
    /\ Works
    /\ UNCHANGED <<volVars, mountVars, initFrame>>

\* The subvolume that nvramvol= names; its contents are not modelled.
MountVol ==
    /\ Goto("mountvol", "logs")
    /\ \/ Works /\ nvramMount' = IF SubvolIdParses THEN "vol" ELSE nvramMount
       \/ Fails /\ UNCHANGED nvramMount
    /\ UNCHANGED <<toplevel, logsMount, aside, volVars, initFrame>>

\* Bug variant: an existing @nvram is set up again.
MountNvramAgain ==
    /\ nvramSubvol
    /\ Goto("mount1", "create")
    /\ Works
    /\ nvramMount' = "@nvram"
    /\ UNCHANGED <<toplevel, logsMount, aside, volVars, initFrame>>

MountNvram ==
    /\ nvramSubvol
    /\ Goto("mount1", "logs")
    /\ Works
    /\ nvramMount' = "@nvram"
    /\ UNCHANGED <<toplevel, logsMount, aside, volVars, initFrame>>

\* Any failure of the mount is taken to mean that there is no @nvram yet.
MountNvramFail ==
    /\ Goto("mount1", "create")
    /\ IF nvramSubvol THEN Fails ELSE Works
    /\ UNCHANGED <<volVars, mountVars, initFrame>>

\* Bug variant: @nvram is mounted before the defaults are set aside.
CreateNvramMounted ==
    /\ Goto("create", "aside")
    /\ nvramSubvol' = (nvramSubvol \/ toplevel)
    /\ nvramMount' = IF nvramSubvol' THEN "@nvram" ELSE nvramMount
    /\ Works
    /\ UNCHANGED <<logsSubvol, nvramFiles, dirty, toplevel, logsMount, aside,
                   initFrame>>

\* Creates @nvram on the toplevel; if that is not mounted the subvolume ends
\* up where mount -o subvol=@nvram does not look, and if there already is one
\* the command does nothing; no failure stops the script.
CreateNvram ==
    /\ Goto("create", "aside")
    /\ \/ Works /\ nvramSubvol' = (nvramSubvol \/ toplevel)
       \/ Fails /\ UNCHANGED nvramSubvol
    /\ UNCHANGED <<logsSubvol, nvramFiles, dirty, mountVars, initFrame>>

\* cp -r /nvram /tmp/nvram_default; if it fails some files may be missing.
CopyAside ==
    /\ Goto("aside", "mount2")
    /\ LET present == IF nvramMount = "rootfs" THEN DefaultFiles
                      ELSE {f \in DefaultFiles : nvramFiles[f] # "none"}
       IN \/ Works /\ aside' = present
          \/ Fails /\ aside' \in SUBSET present
    /\ UNCHANGED <<toplevel, nvramMount, logsMount, volVars, initFrame>>

MountNew ==
    /\ Goto("mount2", "copyback")
    /\ \/ Works /\ nvramMount' = IF nvramSubvol THEN "@nvram" ELSE nvramMount
       \/ nvramSubvol /\ Fails /\ UNCHANGED nvramMount
    /\ UNCHANGED <<toplevel, logsMount, aside, volVars, initFrame>>

\* cp -r /tmp/nvram_default/* /nvram, file by file; cp goes on after one it
\* cannot write.
CopyBack(f) ==
    /\ pc = "copyback"
    /\ f \in aside
    /\ aside' = aside \ {f}
    /\ \/ /\ Works
          /\ nvramMount = "@nvram"
          /\ nvramFiles' = [nvramFiles EXCEPT ![f] = "default"]
          /\ dirty' = dirty \cup {f}
       \/ /\ IF nvramMount = "@nvram" THEN Fails ELSE Works
          /\ UNCHANGED <<nvramFiles, dirty>>
    /\ UNCHANGED <<nvramSubvol, logsSubvol, pc, toplevel, nvramMount,
                   logsMount, initFrame>>

CopyDone ==
    /\ aside = {}
    /\ Goto("copyback", "logs")
    /\ Works
    /\ UNCHANGED <<volVars, mountVars, initFrame>>

MountLogs ==
    /\ \/ logsSubvol /\ Goto("logs", "notify") /\ Works /\ logsMount' = TRUE
       \/ /\ Goto("logs", "logcreate")
          /\ IF logsSubvol THEN Fails ELSE Works
          /\ UNCHANGED logsMount
    /\ UNCHANGED <<toplevel, nvramMount, aside, volVars, initFrame>>

\* Bug variant: @rdklogs is not created on the toplevel.
CreateLogsElsewhere ==
    /\ Goto("logcreate", "logmount")
    /\ Works
    /\ UNCHANGED <<volVars, mountVars, initFrame>>

CreateLogs ==
    /\ Goto("logcreate", "logmount")
    /\ \/ Works /\ logsSubvol' = (logsSubvol \/ toplevel)
       \/ Fails /\ UNCHANGED logsSubvol
    /\ UNCHANGED <<nvramSubvol, nvramFiles, dirty, mountVars, initFrame>>

MountNewLogs ==
    /\ Goto("logmount", "notify")
    /\ \/ Works /\ logsMount' = (logsMount \/ logsSubvol)
       \/ logsSubvol /\ Fails /\ UNCHANGED logsMount
    /\ UNCHANGED <<toplevel, nvramMount, aside, volVars, initFrame>>

\* systemd-notify --ready, whatever happened before.
Notify ==
    /\ Goto("notify", "up")
    /\ Works
    /\ UNCHANGED <<volVars, mountVars, initFrame>>

SubvolInit ==
    \/ Guard \/ MountToplevel \/ ReadCmdline \/ MountVol
    \/ MountNvram \/ MountNvramFail \/ CreateNvram \/ CopyAside \/ MountNew
    \/ (\E f \in DefaultFiles : CopyBack(f)) \/ CopyDone
    \/ MountLogs \/ CreateLogs \/ MountNewLogs \/ Notify

-----------------------------------------------------------------------------
(* The specification *)

Script == ResizeDisk \/ SubvolInit

Environment ==
    \/ Grow \/ Boot \/ PowerLoss \/ Shutdown \/ Commit \/ Rerun
    \/ \E f \in DefaultFiles : UserWrite(f)

Next == Script \/ Environment

Spec == Init /\ [][Next]_vars

\* A script that is started runs on, unless the power goes.
FairSpec == Spec /\ WF_vars(Script)

-----------------------------------------------------------------------------
(* Properties *)

\* The commands before which the root partition is not the one root= names.
Replacing == {"rz_N", "rz_u"}

\* The device can always be booted, unless power was lost or a command failed
\* between deleting the root partition and giving its successor the old GUID,
\* or the old GUID could not be read: every other command of resize-disk.sh
\* can fail or be cut off without harm to the boot.
BootableUnlessTorn ==
    ~Bootable /\ pc \notin Replacing
        => (lostAt \cup failedAt) \cap Replacing # {} \/ "rz_uuid" \in failedAt

\* When the system is up it uses the whole disk, unless a command of
\* resize-disk.sh failed or power was lost after sgdisk -e: moving the backup
\* GPT is what later boots take for a finished resize.  Power lost before
\* that is made up for by the next boot.
DiskFullyUsedUnlessTorn ==
    pc = "up" /\ fs = "small"
        => \/ lostAt \cap {"rz_d", "rz_N", "rz_u", "rz_part", "rz_fs"} # {}
           \/ failedAt \cap RzSteps # {}

\* When @nvram is in use every default file is in it, unless power was lost
\* while the defaults of the first boot were not yet safe, or a command that
\* copies them or mounts the new @nvram failed: later boots take an existing
\* @nvram for complete.
DefaultsInstalledUnlessCut ==
    /\ pc = "up" /\ nvramMount = "@nvram"
    /\ ~copyCut
    /\ failedAt \cap {"aside", "mount2", "copyback"} = {}
    => \A f \in DefaultFiles : nvramFiles[f] # "none"

\* No boot, rerun or crash puts a default file back over one that a running
\* component has written, as long as mounting an existing @nvram works.
SettingsSurvive ==
    [][\A f \in DefaultFiles :
          nvramFiles[f] = "user" /\ "mount1" \notin failedAt
              => nvramFiles'[f] = "user"]_vars

\* If no command fails, /nvram and /rdklogs are mounted when systemd is told
\* that the file systems are ready.
MountedWhenReady ==
    pc = "up" /\ failedAt = {} /\ cmdline \in {"none", "last"}
        => nvramMount # "rootfs" /\ logsMount

\* nvramvol=<id> on the command line, wherever it stands, puts the subvolume
\* of that id on /nvram ("Mounting existing nvram subvol") if no command
\* fails.  The code does so only at the end of the command line.
NvramVolHonoured ==
    pc = "up" /\ failedAt = {} /\ cmdline # "none" => nvramMount = "vol"

\* A boot that is started reaches systemd-notify or loses power: no failing
\* command of either script holds up local-fs.target.
BootNotHeldUp == pc = "guard" ~> pc \in {"up", "off"}
=============================================================================
