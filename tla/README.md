# Verification of meta-rdk-bsp-arm

TLA+ models of the run-time logic that this BSP layer adds to RDK-B on generic
Arm machines, checked with TLC on small instances and, for the most important
results, proved with TLAPS for every instance.

Paths below are relative to the repository; `MB` is `meta-rdk-broadband`.

## The system

The repository is a Yocto layer. Most of it is build metadata and patches to
other people's programs. The code of its own that runs on the device is small
and sits at the seams between processes, the kernel and the disk:

| Part | State it keeps | Operations | Interacts with |
|---|---|---|---|
| Ethernet switch HAL, link events (`MB/recipes-ccsp/hal/hal-ethsw-generic/ccsp_hal_ethsw.c`) | `hal_init_done`, `sk`, `linkEventCallback`, the monitor's `link_statuses` | `CcspHalEthSwInit`, `ethsw_thread_main`, `CcspHalEthSw_RegisterLinkEventCallback` | the agent's threads, rtnetlink, the WAN manager's marker file |
| Ethernet agent start-up (`MB/recipes-ccsp/ccsp/ccsp-eth-agent`, `ccsp-common-library`) | admin state of the interfaces, readiness of the unit | `bring_up_all_eth.sh`, restart, READY | systemd, HAL, WAN manager |
| Ethernet switch HAL, port API (same C file) | `admin_status` | get/set of port status, configuration and admin status, associated devices, WAN link status | sysfs, `ip`, `psmcli`, the agent |
| First-boot storage (`MB/recipes-rdkb/sysint-broadband/files`) | GPT, btrfs, subvolumes, mounts | `resize-disk.sh`, `nvram-subvol-init.sh` | power, kernel, everything under `/nvram` |
| LAN bridge (`MB/recipes-ccsp/util/utopia`) | members of `brlan0` | set-up in `utopia_init.sh`, `vlan_util_genericarm.sh` | PSM, the agent, sysevent, OneWifi |
| Platform HAL (`MB/recipes-ccsp/hal/hal-platform-generic/platform_hal.c`) | the caller's DHCP option lists, a name buffer per thread, open descriptors | DHCP option lists, getters for identity and memory, current WAN interface | DHCP manager, P&M, firewall; `popen`, device tree, sysevent, syscfg, routes |
| MAC calculator (`recipes-networking/maccalc`) | one buffer | address arithmetic, conversion from and to binary | the Wi-Fi pre-start scripts |
| WAN interface name (`resolve-wan-ifname.sh`, `copy_config.sh`, `waninfo.sh`, WAN manager patches, `usp-pa` unit and script) | the record in PSM's configuration files, four syscfg settings, two sysevents, `wan.env` | copy of the board's configuration, resolution at boot, publishing and storing of the interface in use, start of `usp-pa` | PSM, WAN manager, Utopia, USP agent |
| Wi-Fi pre-start and EasyMesh personality (`onewifi_pre_start*.sh`, `em_agent_pre_start.sh`, their units) | Wi-Fi interfaces and their addresses, `EasymeshCfg.json`, `InterfaceMap.json`, `brlan0` on the extender | creation and addressing of interfaces, copy of the configuration, wait for the backhaul | drivers, OneWifi, EasyMesh agent, `maccalc`, systemd |
| Parodus start (shell scripts) | a token file | one-shot set-up | Parodus |
| Disk image plug-in, recipes, configuration | none at run time | build | - |

What is hard here: unlocked state shared by the agent's threads; a monitor
thread that reads, compares and reports in separate steps while the kernel
moves on; a start-up handshake between three processes; restarts that lose half
of the state; shell scripts that rewrite a partition table and may lose power
between any two commands; event handlers that overlap and events that may find
nobody registered; scripts that take a file or an interface for the sign that an
earlier run was completed; units that are not ordered among each other. `PROJECT.json`
lists these hazards at their lines.

What makes each part correct:

* *link events*: the agent is told the truth, once per change, late but never
  stale, never before it and the WAN manager are ready; a state that lasts is
  eventually reported; nobody waits in a circle.
* *port API*: the admin status reported is the kernel's although the kernel is
  never asked; a port is reported down only if it is; calls leave
  nothing behind (they do).
* *platform HAL*: a getter that returns OK gives the answer of the command it ran
  and not an earlier one; the WAN interface returned is one that was current during
  the call, whatever other threads do; descriptors do not run out.
* *DHCP options*: the lists are complete or gone, whatever fails; nothing is freed
  twice; option 17 says what the vendor file says.
* *MAC calculator*: the sum is the address plus the number, wrapping in the lower three
  bytes only; no byte is printed that was not computed or read.
* *storage*: a device that booted once boots again and uses its disk; settings
  are not overwritten; defaults are installed; boot is not held up. Each of
  these holds except for named windows, and the properties say which.
* *bridge*: what PSM lists is in the bridge once things are quiet, which they become;
  what it no longer lists is removed (the code does not do the latter).
* *WAN name*: once the script has run, everything in Utopia names the interface it
  resolved, except what the WAN manager has stored since; that interface is one that
  PSM or the WAN manager offered, also when PSM's file is missing or half copied; the
  name survives power loss; `usp-pa` runs on the WAN, in the end and never on anything
  else.
* *Wi-Fi*: interfaces have addresses of their own; the configuration is complete
  once it is taken to be; `AL_MAC_ADDR` is the backhaul's address and, once written,
  stays; OneWifi comes up again whenever it ends; the agent waits for the backhaul, but
  not for ever.

## Modules

| Module | Models | Lines it stands for |
|---|---|---|
| `LinkEvents` | what the HAL promises about link events (abstract specification) | - |
| `EthSwLink` | HAL initialisation, monitor thread, agent start-up and restart | `ccsp_hal_ethsw.c` 64-181, 276-304, 702-725; `bring_up_all_eth.sh`; agent and unit patches |
| `EthSwLinkProofs` | theorems about `EthSwLink`, the refinement of `LinkEvents` among them | - |
| `EthSwPort` | the port API of the HAL | `ccsp_hal_ethsw.c` 81, 194-257, 329-389, 413-530, 567-732, 771-887, 942-959, 1128-1166 |
| `EthSwPortProofs` | theorems about `EthSwPort` | - |
| `StorageBoot` | both storage scripts over a disk with power loss | `nvram-subvol-init.sh` 21-48, `resize-disk.sh` 21-64 |
| `StorageBootProofs` | theorems about `StorageBoot` | - |
| `BridgeSync` | `brlan0` set-up and membership events | `vlan_util_genericarm.sh`, utopia patches 0013 and 0015 |
| `BridgeSyncProofs` | theorems about `BridgeSync` | - |
| `DhcpOptions` | the DHCP option lists | `platform_hal.c` 599-792 |
| `PlatformInfo` | the getters that ask a command or a file | `platform_hal.c` 69-125, 192-276, 302-496, 518-526 |
| `CurrentWan` | `get_current_wan_ifname` | `platform_hal.c` 104-125, 574-596 |
| `PlatformHal` | the three parts of the platform HAL, each with its client | - |
| `PlatformHalProofs` | theorems about `PlatformHal` | - |
| `MacCalc` | the MAC address calculator | `maccalc/src/main.c` 28-256 |
| `MacCalcProofs` | theorems about `MacCalc` | - |
| `WanManager` | the interface that the WAN manager publishes; names, bounds and power shared by the next two | `rdk-wanmanager` patches 0001 and 0002 |
| `WanIfname` | the name of the WAN interface in PSM's files, syscfg and sysevent | `resolve-wan-ifname.sh` 11-60, `copy_config.sh` 21-50, `ccsp-psm-machine-configs.bb` 37-61, utopia patch 0020 (`waninfo.sh`), `system_defaults` and `utopia_init.sh` in the utopia recipe |
| `UspPa` | the start of `usp-pa` on the published interface | the unit and script of `usp-pa` |
| `WanIfnameProofs` | theorems about `WanIfname` and `UspPa` | - |
| `WifiStart` | the Wi-Fi interfaces on gateway, EasyMesh controller and extender, and the extender's agent | `onewifi_pre_start.sh`, `onewifi_pre_start_em_ctrl.sh` 24-87, `onewifi_pre_start_em_ext.sh` 26-99, `em_agent_pre_start.sh` 27-49, the units |
| `WifiStartProofs` | theorems about `WifiStart` | - |
| `MC*` | symmetry sets and constants for TLC; `MCWanIfname` puts `WanIfname` and `UspPa` into one run | - |

Operators commented "Bug variant" are not part of any specification: each is a
plausible mistake in the definition after it, kept to show that a property
notices.

### EthSwLink

One step per access to state that somebody else can change. `callPc` is where a
thread of the agent is: `prefind` and `preup` while `ExecStartPre` runs
`bring_up_all_eth.sh`, `alloc` to `setdone` inside `CcspHalEthSwInit`, then for
the main thread `register`, `notify`, `ready`. `monPc` is where a monitor thread
is: `wait` in `wait_for_wan_manager`, `check` at the test of
`linkEventCallback`, `poll` at `rtnl_link_get_kernel`, `report` at the callback.
`wait_for_wan_manager` assigns with `==`; since `stat_ret` starts as -1 the loop
still ends exactly when `stat` succeeds, which is what `MonWait` says.

`kernel[i]` is what a poll can tell apart: present, admin up, carrier.
`IFF_RUNNING` is admin and carrier. The kernel may do anything at any time.
`sleep(1)` is left to the scheduler. A fault is a crash, a failing call or a
netlink error that is not a missing device. `told` and `seen` are history
variables: what the callback was last given, and the states since then.

`Others` is the set of further threads that call `CcspHalEthSwInit`. In the
agent as this repository configures it there are none; `EthSwLinkRace.cfg`
checks what remains true if there are, since the HAL's interface does not forbid
it and the code has a guard, `hal_init_done`, that looks as if it coped.

### EthSwPort

All four ports stand for `eth1`, which is on the port its sysfs path names.
`path` keeps of that path what the parser tells apart: the bus and the chain of
port numbers in `<bus>-<n>.<m>...`; `PortNumber` is the three `strstr` branches in
their order. `admin_status` is the HAL's copy of the flag; `up` the kernel's.
`CcspHalEthSwSetPortAdminStatus` takes four steps (`SetCheck`, `SetRead`,
`SetLink`, `SetCache`), between which eth1 may go, come back elsewhere or be
asked about by another thread; `SetLink` may fail, since its result is ignored.
`CcspHalEthSwGetPortAdminStatus` takes two: `GetPath` reads where eth1 is, `GetCached`
the copy, with sets, hot-plugging and restarts in between; `asked` is the port it was
asked for, `here` whether eth1 was there.
`pipes` counts the streams that `popen` opened and nobody closed, up to
`MaxPipes`, where `popen` fails. A restart of the agent runs `bring_up_all_eth.sh`
first, whose `ip link set` may fail. `settled` is a history variable: the last attempt
to set the flag, by the HAL or by that script, was made on this eth1 and worked. So is
`moved`: eth1 went or came while a get was between its two reads. `readlink -f` is taken
to print its argument when eth1 is missing. Port rates and duplex modes, the
port configuration and the stubs for EthWan are constants and left out.

### StorageBoot

`pc` names the command that runs next. The first group of variables is on the
disk and survives; the second is lost with the power. A command works or fails
(`Fails` counts against `MaxFaults`). `set -e` ends `resize-disk.sh` at a failure; it
is a process of its own, and its caller has no `set -e`, so that the caller goes on
with or without the `|| :` behind the call. One command escapes
`set -e`: `sgdisk -i 2 | grep | awk` succeeds when `sgdisk` fails (`RzUuid`).
`sgdisk -p` and the size query are part of the step they precede or follow; a
failure of theirs is a failure at the next `pc`. A failing `sfdisk` at the check
ends the resize like a disk that needs none. Files copied to `@nvram` are
`dirty` until btrfs commits; power loss forgets dirty files. The contents of a
subvolume named by `nvramvol=` are not modelled. `failedAt`, `lostAt` and
`copyCut` are history variables for the properties.

### BridgeSync

Utopia's set-up, PSM, the agent and one process per event run concurrently.
The list in PSM is a set; `PartOf` says which interface name occurs inside which
other one, for `grep -q`. The agent's two steps (write the list, send the event)
are external: a patch in this repository switches them on, their code is
elsewhere; the order is the one the handler's own comment states. Starting a
handler and its first command are one step. An unset `${x}` makes
`brctl delif brlan0 ""` fail, so `DelifTarget` is empty. It is this mistake that makes
overlapping handlers safe: with `DelifTarget(intf) == {intf}` TLC finds a behaviour in
which a handler that read an older list removes what a newer one added, and
`ListedAreMembers` is violated.

### DhcpOptions

One step per option of `platform_hal_GetDhcpv6_Options`, and for option 17 one to open
the vendor file, one per line and one for the node; `pc` is the position in `Order`,
`Reading` the loop over the lines, `Cleanup` the branch that frees both lists. `scanned`
holds the three words as `sscanf` has left them, `appended` the values that are in
`buff`, `buffLen` the length of its text. `live` counts heap blocks, so
that a second `free` or a leak shows. A line of the vendor file is the sequence of
its words, since `sscanf` leaves the variables of missing words alone; before the
first line these are uninitialised, and `Garbage` is what they may hold. A line that is
too short therefore inherits the words of the latest line that had them; `WordIn` says
so without going through the loop, and `Option17AsInFile` compares the two. A value
is reduced to its length, at most 63 as `value[64]` requires. The length that
`add_dhcpv6_option_17` writes into a suboption counts hexadecimal digits, where
the constant `DHCPV6_OPT_VAL_17` counts octets; no property is about it. The image
as built has no vendor file (`dibbler_git.bbappend` removes it); both cases are
checked.

### PlatformInfo, CurrentWan and PlatformHal

`PlatformInfo` keeps a buffer as a row of bytes, because the getters differ in
whether they end the string: `strncpy(b, s, strlen(s))` does not, so what an earlier
call left shows behind a shorter text. `sscanf("%d")` into an unsigned long leaves
the upper half (`Scanned32`; `HALF` is 2^32). `last` is a history variable: what the
last call returned, what its command had said, and what the caller's variable held
before. Descriptors are counted up to `MaxFds`. Which commands the getters run and
how they cut the answer out of the output is abstracted to the text they arrive at.

`CurrentWan` takes one step per command, since the WAN manager, the configuration and
the routes change in between. `Buffer(t)` is the thread-local buffer.

The parts share no state and no process uses two of them, so `PlatformHal` lets a
behaviour use one; all other functions of the file return a constant.

### MacCalc

One run of the program. `Add` leaves out the reduction modulo 2^32 that `uint32_t`
makes, which the masks make invisible. An interrupted `read` is repeated and is a
stuttering step. `mac` starts with anything, as it is uninitialised. The operators on
bits are given by a table over the number of bits that are set in a pair.

### WanManager, WanIfname and UspPa

`WanManager` is what patches 0001 and 0002 add to the WAN manager's state machine.
Before it sets an interface up it publishes the name in `current_wan_ifname`
(`SetCurrent`), whatever the name is; what follows ends with `touch
/var/run/wan_started` (`GoOn`). One interface is set up at a time. That the link is lost
later is external.

In `WanIfname`, `rom` is what board and image fix: a universal image has a configuration
per board it knows and one for the others, an image for one machine has its own in
place; a board may have no name at all, in which case `copy_config.sh` ends and PSM
does not start. A configuration is reduced to the one record that the script looks for,
and a text in it to a well-formed name, nothing, or a text that is no interface name,
which the script replaces by `eth1`. `Partial` is a file while `cp` writes it, in
which the record is found or not. PSM is external and may save any record.
`apply_system_defaults` overwrites two of the four settings at every boot, which is why
the script runs at every boot. `sysevent set`, `syscfg set` and `syscfg commit` may fail,
and the script goes on; `failed` remembers which did. On its way the WAN manager also
stores the name it published: `syscfg_set_commit` writes `wan_physical_ifname`, and all of
syscfg to flash, at any time before, during or after the script (`WanSetCommit`; either
half may fail). `wanSet` remembers that name as long as nobody else has written the
setting. After the script `wan_physical_ifname` may therefore name another interface than
the three settings the WAN manager does not know of, and `NamesAgree` says so: each
setting has the script's name, this one that or the WAN manager's, and nothing else.
`offered` is the third history variable.

`UspPa` is started after Utopia and after `wan_started`, as its target orders it;
`RuntimeDirectory` removes `wan.env` with the unit. A published text that is no interface
name ends the start, as does an empty one; so does a device that is missing.
`published` is a history variable. The WAN manager's settings play no part here, and
the two modules act on nothing of each other's, so that a behaviour of `MCWanIfname`
follows one of them.

### WifiStart

`wifi` is the state of `onewifi.service`, and while a script runs the command that
comes next; the scripts share `Add`, `Set` and `Copy`. Interfaces are numbered in the
order in which they are created. An address is a pair: whose it is and what is added to
it. No script stops at a failing command, a failing `cp` included, which may leave the
file untouched or cut short and goes on to the next one.

`burst` counts the starts of `onewifi.service` within ten seconds. The unit says
`Restart=always` without `RestartSec`, so systemd starts it again at once, up to
`StartLimit` times, and then leaves it failed for good (`WifiGiveUp`), unless ten seconds
pass in between (`TimePasses`). The extender's script begins with `sleep 5`, and so stays
below the limit; the gateway's sleeps only while phy0 is missing, the controller's never.
Other cards take the same path as a gateway that finds phy0.

Assumed of what is outside the repository: the driver gives a new interface the address
of its device, and two devices have different ones; `cp` takes `EasymeshCfg.json` before
`InterfaceMap.json`, in the order of the shell's expansion, and what it has written
survives power loss; systemd's default limit ends the agent's two waiting loops,
`TimeoutStartSec=120` that of OneWifi's script. `torn`, `alTorn` and `cpFailed` are history
variables for the windows named below.

## Runs

| Run | Instance | States | Shows |
|---|---|---|---|
| `ethsw_link` | 3 interfaces, two real, one admin-managed, 1 thread identity, 1 fault | 235 283 | no report before wiring; socket connected; memory equals what was told; refinement of `LinkEvents`; lasting links are reported, carrier leads to "Up", boot completes |
| `ethsw_race` | 1 interface, 2 callers, 3 thread identities, 2 faults | 25 171 (symmetry) | at most one monitor per caller |
| `storage_boot` | 1 file, 1 enlargement, 1 fault, 2 power losses | 2 519 748 | which windows can cost the boot, the space, the defaults, the settings; no failure holds up the boot |
| `nvramvol` | `nvramvol=` in mid-line | violation | the id is not parsed there |
| `bridge_sync` | `eth1`, `eth10`, `wlan0`, 2 handlers, 2 writes | 607 724 | listed interfaces are in the bridge when things are quiet, and end up there |
| `bridge_remove` | 1 handler | violation | logged removals do not happen |
| `ethsw_port` | 7 paths, 3 pipes | 951 759 | the copy of the admin status does not drift; no false "Down" |
| `ethsw_port_pipes` | same as `ethsw_port` | violation | leaked pipes end in a wrong WAN link status |
| `platform_hal` | files of up to 3 lines from 7, 2 failing allocations, 2 calls per list; 4 texts, 5 amounts, 2 descriptors; 2 threads, 2 names | 1.58 million | all or nothing, heap accounted for, option 17 as in the file; OK means the answer; only one getter leaks; the current WAN name |
| `maccalc` | 3 addresses, 6 numbers, 4 inputs | 104 544 | results against reference definitions; pieces of input |
| `wan_ifname` | names `eth1` and `wan0`, 1 power loss, 1 fault | 2 544 585 | names agree, were on offer and persist; `usp-pa` runs on the WAN only, and in the end |
| `wifi_start` | all 5 kinds of image and card, a start limit of 2, 1 power loss, 2 faults | 1 114 841 | addresses differ; configuration complete; `AL_MAC_ADDR` right and kept; OneWifi comes up or exceeds the start limit; the agent comes up |

Bounds. Three interfaces let one be polled while another changes, make the
loop go round and include one that does not exist; more add only interleavings of
independent interfaces. In `ethsw_race`, two faults
allow a failed initialisation followed by a crash, and `Threads` exceeds the
monitors that can exist, so that a second monitor would show. Two power losses
allow a loss during the recovery from a loss, one enlargement a second resize; the
default files do not depend on each other, so one is enough.
`eth1`/`eth10` is the smallest pair of names with a substring. Two writes and
two handlers allow an old and a new list in flight at once. The paths of
`ethsw_port` are the four documented ones and one for each other outcome of the
parser; three pipes let calls succeed, fail at the limit and recover by a
restart. The lines of `platform_hal` have zero to three words and the shortest
and longest values; two failures allow one that goes unnoticed before one that
ends the call; the texts have every length that fits, so that a short one follows
a long one, and `HALF` is scaled down to 2^16. The addresses of `maccalc` wrap, carry
or are the mask that the scripts use; the inputs are too short, long enough and too
long. In `wan_ifname` one name is the built-in default and one is not, and one power
loss separates two boots; an own configuration that says what `default.xml` says is
left out, since it is read in the same way. In `wifi_start` two faults allow a kill after
a failed command; one power loss makes the second boot find the first one's files; the
start limit is scaled from systemd's five down to two, which allows a restart below the
limit and one that exceeds it. The proved theorems hold without these bounds.

Symmetry is used only in `ethsw_race`, where threads differ in nothing but identity and
no property is temporal.

Deadlock is checked everywhere but in three runs. The two of `StorageBoot` switch it
off: a device that has lost its root partition stops for good, which is what
`BootableUnlessTorn` is about; `maccalc` does because the program exits.

Fairness. `ethsw_link`: weak fairness of the agent's main thread, of each
monitor thread and of the WAN manager's start after READY: threads are
scheduled, and systemd starts what it is asked to. `storage_boot`: a script that is
started goes on to its next command. `bridge_sync`: Utopia's set-up and the handlers run
on, and the agent sends the event once it has written the list; nothing is assumed of
PSM's start, of the agent writing, or of an event being heard. `wan_ifname`: Utopia ends
(`ScriptEnds`), the WAN manager's thread runs on, and systemd starts `usp-pa` again, which
says `Restart=always` and with `RestartSec=30` stays below the limit of five starts in ten
seconds. `wifi_start`: scripts run on, and systemd restarts a unit as long as its start
limit lets it. For OneWifi the limit is part of the model, and no fairness makes time
pass between two of its ends; the agent's unit has a `sleep 5` before `ExecStart`.
Nothing is assumed of links, devices or the WAN manager's choice. Where a failing command spoils a result for
good, the property names the command; otherwise commands may fail, each up to the bound.
`bridge_remove` states fairness of the handlers although its property is about single
steps.

## Findings

1. `nvram-subvol-init.sh:28` cuts the subvolume id out of the command line with
   an expression that leaves everything after the digits, and needs something
   before `nvramvol=`. Unless the option is last, `/nvram` is not mounted,
   although the next line prints "Mounting existing nvram subvol".
2. `vlan_util_genericarm.sh:18` removes `${x}`, not `${intf}`: what line 17 logs
   as to be removed stays in the bridge. Repairing only this would expose two
   more problems that the model has: line 16 matches substrings, and overlapping
   handlers with different lists could then undo each other's additions.
3. `popen` at lines 585, 673 and 777 has no `pclose`. Each call costs a descriptor
   and a zombie; at the limit `GWP_GetEthWanLinkStatus` fails and reports a
   running link as down.

Visible without a run: `CcspHalEthSwGetPortStatus` (line 347) reports every port as
linked when eth1 exists and was not set down, where its comment promises "the
current link status"; only the converse, `DownIsTrue`, holds.

Windows that the properties name rather than exclude, because the code has
them: power loss between `sgdisk -d` and `-u` makes the device unbootable; so
does a failing `sgdisk -i`; power loss after `sgdisk -e` leaves the new space
unused for good; power loss before the copied defaults are committed leaves
them missing for good; a failing mount of an existing `@nvram` overwrites
settings with defaults. `admin_status` is wrong from the replacement of eth1, or a
failed `ip link set`, until the next set, and for the moment between the command
and the assignment (`InStep`); a get during which eth1 moves mixes two places (`moved`).
Two threads that initialise the Ethernet HAL at once get two monitors
(`OneMonitorPerCaller` only bounds them by the callers). Short lines of the vendor file
inherit words (`WordIn`), and three lines fit `buff`, where four long ones would not. An
event that is sent before its handler is registered is lost, and the list it announced
waits for the next one (`notified`). After the WAN manager has stored another interface
in `wan_physical_ifname`, Utopia's settings name two interfaces until the next boot; a
failing `sysevent set`, `syscfg set` or `syscfg commit` is not noticed. `usp-pa` may be
started with an interface that the WAN manager has given up, or that has gone, since the
name was read. OneWifi stays down until the next boot after five quick ends on a gateway
or a controller. A `cp` that fails on `EasymeshCfg.json` and goes on to `InterfaceMap.json`
leaves the former missing or blank for good; one that fails on `InterfaceMap.json` lets
every later start reset `AL_MAC_ADDR`. An interface exists before its address is set, and
the Wi-Fi scripts test for the interface: a failure or a kill in between leaves equal
addresses until the next boot. If wifi0 or wifi1.3 could not be created on an
extender, `AL_MAC_ADDR` is replaced by nothing or by a wrong address for good, since
it is only written while it is zero; the agent then never comes up. In the
platform HAL, the addresses and the flash size are returned with OK although the
command failed; texts copied with `strncpy` are right only in a buffer that the
caller cleared, the total memory only in a variable below 2^32; and
`platform_hal_GetSerialNumber` does not close the device tree's file.

Also visible without a run: `platform_hal_GetChipTemperature` compares
`chipIndex` with 0 twice, so that the value meant for the Wi-Fi chip, index 1 in its
comment, is never given.

## Proofs

All theorems hold for every value of the constants that satisfies the named
assumptions: `IntfAssumption`, `ThreadAssumption`, `FaultAssumption`,
`BoundAssumption` (natural numbers of interfaces, threads, faults and losses),
`CmdlineAssumption`, `PathAssumption`, `PipeAssumption`, `WriteAssumption`, `MacAssumption`, `NumberAssumption`,
`InputAssumption`, `FileAssumption`, `GarbageAssumption`, `InfoAssumption` (types of
what is read, and that a text fits its buffer), `NameAssumption`, `NamesAssumption`, `IfnameAssumption`
(names differ from the texts that stand for none) and `WifiAssumption`. The bounds on
faults and losses are arbitrary, so they restrict nothing. A type invariant that is
proved is repeated in a run only where it bounds the heap (`DhcpOptions`).

`EthSwLinkProofs`

* `TypeCorrect`: `TypeOK` is inductive as it stands; the loop index is the only
  arithmetic.
* `WiredReports`: needs that the marker file and the callback, once seen, stay
  until the process goes, which takes its monitors with it.
* `OneMonitorEach`: `OneMonitorPerCaller` is not inductive. `CreatorInv` adds
  that a caller between the test of `hal_init_done` and the creation has no
  monitor yet, and that a caller that has one either is about to set
  `hal_init_done` or finds it set.

and for `Others = {}`, the agent as it is wired

* `SocketConnected`: `SocketInv` adds that the socket is connected before the
  thread is created.
* `StatusesAreTold`: `MemoryInv` adds what holds of identities without a thread
  and that nothing was told before there is a monitor.
* `Refinement`: `Spec => ImplementsLinkEvents`. `NewsInv` says that what is read
  but not yet reported differs from `link_statuses` and was seen since the last
  report; with `MemoryInv` a report is an abstract `Report`. Device steps are
  `Change`, a restart is `Restart`, everything else stutters.

`StorageBootProofs`

* `TypeCorrect`: with `NewPartInv`, since the kernel is told the size of a
  partition that must exist.
* `StaysBootable`: `RootInv` says at which command the root partition is missing
  or misnamed, and that the script holds the old GUID there.
* `UsesWholeDisk`: `SizeInv` ties the position of the backup GPT, the mounts and
  the position in the script to the size of the file system.
* `MountsReady`: `MountInv` says that only an `@nvram` that exists is mounted, `ReadyInv`
  what the script has achieved at each command if none has failed.
* `DefaultsInstalled`: `DefaultsInv` says that, as long as no copy was cut short or
  failed, an `@nvram` holds every default file, or the script still has it aside.
* `SettingsKept`: `SettingsInv` says that settings are never among the uncommitted files,
  and that an `@nvram` being set up holds none, unless `mount1` failed.
* `BootGoesOn`: `Stage` numbers the commands in their order. Each command, failed or not,
  is followed by a later one, or by the next of the files still to be copied.

`BridgeSyncProofs`

* `TypeCorrect`, `ListedJoin`: `ListedAreMembers` is not inductive. `ListInv` says of
  each listed interface that is missing who is `UnderWay` to add it: an event that
  waits, a handler that has read the list, or Utopia; `EventInv` that every event
  followed a write of its own, which PSM answered. `BridgeInv` joins them.

`PlatformHalProofs`

* `CurrentName`, `PublishedFirst`: `BufferInv` says that a thread's buffer holds nothing
  or a name seen during its call, `SteadyInv` that it holds sysevent's name once asked.
* `HeapSafe`: `HeapInv` adds to `HeapAccounted` that lists and counts have their types.
  `AllOptionsOrNone`: `CallInv` says what has been put in front of the caller's lists at
  each option.
* `OptionTypes`, `Option17True`: for a vendor file of any length and lines of any shape.
  `ScanInv` says that in the middle of the loop `appended` holds the values of the lines
  read so far that are meant (`Picks` names the line each comes from), that the three
  words are those that count in the last line read (`LatestStep`), that `buff` holds at
  most 134 characters per line after its first 22, and that the lists hold only options 17
  that were built this way. It is an induction over the steps of the loop, so none over
  the file is needed.
* `AnswersTrue`, `DescriptorsKept`: `OkIsAnswer` is inductive once the number is known to
  be one; the lemmas `ReadBack` and `Copied` say what the string functions leave.

`WanIfnameProofs`

* `TypeCorrect`; `NamesAgreed`: `KeysInv` says which settings have been written at each
  turn of the loop unless the command failed, `PhysicalInv` that
  `wan_physical_ifname` is the default, the WAN manager's or, once written, the script's.
  `NameSurvives`: `SavedInv` says that a setting whose saved copy
  differs is marked by `changed` or is the built-in default. `NameWasOffered`: `BoardInv`
  says that PSM's default configuration is the board's own, if it is there, and
  `OfferInv` where the name in hand comes from. `UspNamePublished`, of `UspPa`: `UspInv`.
* `ScriptEnds`: `Stage` numbers the steps of the resolution. Each of them raises it, no
  other process changes it, only power loss resets it.

`WifiStartProofs`

* `TypeCorrect`; `MapImpliesCfg` from `FlowInv` (which script is at which command) and
  `CfgInv`. `NoSharedAddress`: `AddrInv` says where in the scripts an interface may still
  have the driver's address. `AlMacRight`: `AlInv` says what has been achieved on the way
  to `AL_MAC_ADDR` if no command failed. `AlMacKept`: `MapInv` says that an address is only
  written once `InterfaceMap.json` is there, or `cp` failed on it, so that no later start
  copies `EasymeshCfg.json` again. `AgentNeedsBackhaul`: `AgentInv`, and that no
  other interface has the backhaul's address.
* `OnlyTheseNames`: the pairs that stand for addresses are those of `InUse`, for which
  `MacCalcProofs` shows what they stand for. `BeyondInv` adds to `AddrInv` that the scripts
  touch no interface beyond those of the image.
* `StartEnds`: `Rest` is the most commands a start of OneWifi has left, at most 20. Every
  command lowers it, also one that fails, and only a new start raises it. `RestInv` is
  `FlowInv` with the interface at which the addressing of an EasyMesh image starts.

`EthSwPortProofs`

* `TypeCorrect`, `AdminStatusTrue`, `DownTrue`: the action properties need
  `CacheInv`, that on a settled eth1 `admin_status` is the complement of the
  kernel's flag, and that between `SetLink` and `SetCache` the flag is what the
  request says; and `PathInv`, that what a get read of the path still holds unless
  eth1 moved.

`MacCalcProofs`

* `AddModular`: `Bytes` shows that cutting into bytes and putting together is a
  reduction modulo 2^24, `Congruent` that equal results come from congruent numbers.
* `TypeCorrect`, `ReadExactly`: `RunInv` says that the buffer holds the part of the
  input that has been read.
* `NamesAreAddresses`: in `WifiStart` an address is a pair, and `AddressesDiffer` compares
  pairs. Here `AddressOf` gives the address that `maccalc or` and `maccalc add` compute for
  a pair, and different pairs of one image are shown to give different addresses,
  whatever the addresses of the two devices and wherever a sum wraps. On an EasyMesh
  image this takes that the second device's address is not a local one: if it were,
  it might be one of those the script makes up, which the script does not exclude. The
  argument: the mask sets a bit that a global address lacks (`OrMask`, `Masked`), and
  numbers below 7 do not meet modulo 2^24 (`SmallSums`).

Only model-checked: the liveness properties `LastingLinkIsReported`,
`CarrierIsReportedUp`, `BootCompletes`, `BootNotHeldUp`, `ListedJoinInTheEnd`, `UspComesUp`,
`WifiComesUp` and `AgentComesUp`, since liveness under fairness is out of the prover's reach. Every other
property of a passing run is stated by a theorem. For `BootNotHeldUp`, `WifiComesUp` and
`UspComesUp` the part that does not need fairness is proved: `BootGoesOn`, `StartEnds` and
`ScriptEnds` give a measure that every command of the script lowers or raises to its end
and nobody else touches.

## Not modelled

* Build metadata, vendored patches, PSM data and the image plug-in: no state at run
  time.
* The Parodus scripts: their callers are not in the repository, and the retry
  loop is three attempts in a row without shared state.
* On the EasyMesh controller, the set-up of the database, the wait for OneWifi's
  marker files and the one restart of `em_ctrl`; also that `em_ctrl_pre_start.sh`
  repeats the copy of the configuration, possibly at the same time as OneWifi's
  script. What the programs behind it expect is not in the repository.
* Two threads that set a port's admin status at once, on which the HAL's interface is
  silent.
* The leak of one `rtnl_link` per poll (`ccsp_hal_ethsw.c:151`): it ends in memory
  exhaustion after weeks, and the model would only count it.
* A failing `nl_socket_alloc`.
* The WAN manager setting up two interfaces at once: how it schedules its interfaces is
  not in the repository, and the model lets it finish one before the next.
* Getters and setters of both HALs that return a constant and change nothing.

## Plan

Done: all modules and theorems above. What would add most next:

1. A composition of `EthSwPort` and `EthSwLink` (they share the kernel's flag and
   `bring_up_all_eth.sh`), if it shows more than the two do alone.
2. The controller's side of EasyMesh, with both copies of the configuration in
   flight.
3. Measures like `StartEnds` for the link monitor's round and the extender's agent, and
   with them the part of `LastingLinkIsReported` and `AgentComesUp` that needs no
   fairness.
