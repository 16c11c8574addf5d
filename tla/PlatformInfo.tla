---------------------------- MODULE PlatformInfo ----------------------------
(***************************************************************************)
(* The getters of platform_hal.c that ask a command or a file and hand the *)
(* answer to the caller, in a buffer or a number of the caller's.          *)
(*                                                                         *)
(* A buffer is a row of bytes, 0 ends a string.  Only what the caller can  *)
(* tell apart is kept of a command's output: its text, or its number.      *)
(***************************************************************************)
EXTENDS Integers, Sequences, FiniteSetsExt

CONSTANTS
    Texts,          \* what a command or file may say: sequences of characters
    BufLen,         \* bytes of the caller's buffer
    Amounts,        \* kilobytes a command may report
    HALF,           \* 2^32: sscanf("%d") stores below it
    Leftovers,      \* what the caller's number may hold before a call
    MaxFds          \* descriptors the process may have open

NoNumber == -1      \* a command that prints nothing

ASSUME InfoAssumption ==
    /\ BufLen \in Nat /\ MaxFds \in Nat /\ HALF \in Nat \ {0}
    /\ Texts \subseteq Seq(Nat \ {0})
    /\ \A s \in Texts : Len(s) < BufLen
    /\ Amounts \subseteq {a \in Nat : a < HALF} \cup {NoNumber}
    /\ Leftovers \subseteq Nat

VARIABLES
    deviceTree,     \* the serial number is in the device tree
    buf, num,       \* the caller's buffer and number
    fds,            \* descriptors that are open between calls
    last            \* the last call: what it returned, and what it should have

infoVars == <<deviceTree, buf, num, fds, last>>

TextGetters == {"ModelName", "SerialNumber", "HardwareVersion", "FirmwareName",
                "BaseMacAddress", "CMTSMac", "Hardware", "MemUsed", "MemFree"}
NumberGetters == {"TotalMemory", "FreeMemory", "UsedMemory", "FactoryReset"}

Zeroed == [i \in 1 .. BufLen |-> 0]

\* The string in a buffer.
CString(b) == SubSeq(b, 1, Min({i \in 1 .. BufLen : b[i] = 0}) - 1)

\* strcpy, and strncpy(b, s, strlen(s)), which does not end the string.
strcpy(b, s)  == [i \in 1 .. BufLen |-> IF i <= Len(s) THEN s[i]
                                        ELSE IF i = Len(s) + 1 THEN 0 ELSE b[i]]
strncpy(b, s) == [i \in 1 .. BufLen |-> IF i <= Len(s) THEN s[i] ELSE b[i]]

InfoInit ==
    /\ deviceTree \in BOOLEAN
    /\ buf = Zeroed /\ num = 0
    /\ fds = 0
    /\ last = [op |-> "none"]

-----------------------------------------------------------------------------
(* Calls that return a text *)

\* execute and execute_cmd: popen needs a free descriptor, and may fail even so.
Opens == fds < MaxFds

Returns(op, ret, s) ==
    last' = [op |-> op, ret |-> ret, want |-> s, clean |-> buf = Zeroed]

textFrame == <<deviceTree, num>>

\* Bug variant: the file of the device tree is not closed.
GetModelNameOpen(s) ==
    \/ /\ Opens
       /\ buf' = strncpy(buf, s)
       /\ fds' = fds + 1
       /\ Returns("ModelName", "OK", s)
       /\ UNCHANGED textFrame
    \/ /\ Returns("ModelName", "ERR", s)
       /\ UNCHANGED <<buf, fds, textFrame>>

\* From the device tree or from device.properties.
GetModelName(s) ==
    \/ /\ Opens
       /\ buf' = strncpy(buf, s)
       /\ Returns("ModelName", "OK", s)
       /\ UNCHANGED <<fds, textFrame>>
    \/ /\ Returns("ModelName", "ERR", s)
       /\ UNCHANGED <<buf, fds, textFrame>>

\* The file of the device tree stays open.
GetSerialNumber(s) ==
    \/ /\ Opens
       /\ buf' = strncpy(buf, s)
       /\ fds' = IF deviceTree THEN fds + 1 ELSE fds
       /\ Returns("SerialNumber", "OK", s)
       /\ UNCHANGED textFrame
    \/ /\ Returns("SerialNumber", "ERR", s)
       /\ UNCHANGED <<buf, fds, textFrame>>

\* If the command fails the caller still gets a text, an empty one.
GetHardwareVersion(s) ==
    /\ \/ Opens /\ buf' = strcpy(buf, s) /\ Returns("HardwareVersion", "OK", s)
       \/ buf' = strcpy(buf, <<>>) /\ Returns("HardwareVersion", "ERR", s)
    /\ UNCHANGED <<fds, textFrame>>

\* Bug variant: the result of the command is not looked at.
GetFirmwareNameUnchecked(s) ==
    /\ \/ Opens /\ buf' = strncpy(buf, s) /\ Returns("FirmwareName", "OK", s)
       \/ UNCHANGED buf /\ Returns("FirmwareName", "OK", s)
    /\ UNCHANGED <<fds, textFrame>>

GetFirmwareName(s) ==
    /\ \/ Opens /\ buf' = strncpy(buf, s) /\ Returns("FirmwareName", "OK", s)
       \/ UNCHANGED buf /\ Returns("FirmwareName", "ERR", s)
    /\ UNCHANGED <<fds, textFrame>>

\* A failing command goes unnoticed; the buffer is as the caller left it.
GetMac(op, s) ==
    /\ \/ Opens /\ buf' = strcpy(buf, s)
       \/ UNCHANGED buf
    /\ Returns(op, "OK", s)
    /\ UNCHANGED <<fds, textFrame>>

\* Likewise, but the size is then worked out from an uninitialised text.
GetHardware(s) ==
    /\ \/ Opens /\ buf' = strcpy(buf, s)
       \/ \E garbage \in Texts : buf' = strcpy(buf, garbage)
    /\ Returns("Hardware", "OK", s)
    /\ UNCHANGED <<fds, textFrame>>

GetHardware_Mem(op, s) ==
    /\ \/ Opens /\ buf' = strcpy(buf, s) /\ Returns(op, "OK", s)
       \/ UNCHANGED buf /\ Returns(op, "ERR", s)
    /\ UNCHANGED <<fds, textFrame>>

GetText ==
    \E s \in Texts :
        \/ GetModelName(s) \/ GetSerialNumber(s) \/ GetHardwareVersion(s)
        \/ GetFirmwareName(s) \/ GetHardware(s)
        \/ \E op \in {"BaseMacAddress", "CMTSMac"} : GetMac(op, s)
        \/ \E op \in {"MemUsed", "MemFree"} : GetHardware_Mem(op, s)

-----------------------------------------------------------------------------
(* Calls that return a number *)

numberFrame == <<deviceTree, buf, fds>>

Counts(op, ret, n) == last' = [op |-> op, ret |-> ret, want |-> n, before |-> num]

\* sscanf("%d") into an unsigned long: the upper half stays, and everything
\* does if there is no number.
Scanned32(n) == IF n = NoNumber THEN num ELSE (num \div HALF) * HALF + n

GetTotalMemorySize(n) ==
    /\ \/ /\ Opens
          /\ num' = Scanned32(n) \div 1024
          /\ Counts("TotalMemory", "OK", n)
       \/ UNCHANGED num /\ Counts("TotalMemory", "ERR", n)
    /\ UNCHANGED numberFrame

\* atoi makes 0 of a text without a number.
atoi(n) == IF n = NoNumber THEN 0 ELSE n

GetMemorySize(op, n) ==
    /\ \/ Opens /\ num' = atoi(n) \div 1024 /\ Counts(op, "OK", n)
       \/ UNCHANGED num /\ Counts(op, "ERR", n)
    /\ UNCHANGED numberFrame

\* A file that is missing or cannot be opened counts as 0.
GetFactoryResetCount(n) ==
    /\ num' \in {0} \cup (IF Opens THEN {atoi(n)} ELSE {})
    /\ Counts("FactoryReset", "OK", n)
    /\ UNCHANGED numberFrame

GetNumber ==
    \E n \in Amounts :
        \/ GetTotalMemorySize(n) \/ GetFactoryResetCount(n)
        \/ \E op \in {"FreeMemory", "UsedMemory"} : GetMemorySize(op, n)

\* Between calls the caller clears its buffer and does as it likes with its
\* number.
CallerPrepares ==
    /\ buf' = Zeroed
    /\ num' \in Leftovers
    /\ last' = [op |-> "none"]
    /\ UNCHANGED <<deviceTree, fds>>

InfoNext == GetText \/ GetNumber \/ CallerPrepares

-----------------------------------------------------------------------------
(* Properties *)

\* RETURN_OK means that the caller now reads what the command or file said,
\* provided that it cleared its buffer or the getter ends the string; the two
\* addresses and the size of the flash are the getters that do not look
\* whether the command ran.
TextIsAnswer ==
    /\ last.op \in TextGetters \ {"BaseMacAddress", "CMTSMac", "Hardware"}
    /\ last.ret = "OK"
    /\ last.clean \/ last.op \in {"HardwareVersion", "MemUsed", "MemFree"}
    => CString(buf) = last.want

\* It means that the number is in megabytes what the command reported, whatever
\* the caller's variable held; for the total only if that was below 2^32 and
\* the command printed a number.
NumberIsAnswer ==
    /\ last.op \in NumberGetters \ {"FactoryReset"}
    /\ last.ret = "OK"
    /\ last.op = "TotalMemory" => last.before < HALF /\ last.want # NoNumber
    => num = atoi(last.want) \div 1024

\* What a getter returns with RETURN_OK, a text or a number, is what the
\* command or the file it asked said, and not what an earlier call left.
OkIsAnswer == TextIsAnswer /\ NumberIsAnswer

\* No getter but that of the serial number on a board with a device tree
\* keeps a descriptor: a client that does not call it never runs out.
OnlySerialLeaks ==
    [][fds' # fds => deviceTree /\ last'.op = "SerialNumber"]_infoVars
=============================================================================
