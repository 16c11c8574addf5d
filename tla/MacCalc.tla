------------------------------ MODULE MacCalc -------------------------------
(***************************************************************************)
(* maccalc (recipes-networking/maccalc/src/main.c), with which the Wi-Fi   *)
(* start-up scripts derive the addresses of their interfaces.  One run of  *)
(* the program: a command is computed and printed in one step, except that *)
(* bin2mac reads its input in as many pieces as the kernel gives it.       *)
(***************************************************************************)
EXTENDS Integers, Sequences

CONSTANTS
    Macs,           \* addresses given as arguments
    Numbers,        \* numbers to add
    Inputs          \* what is on the standard input before it ends

Byte == 0 .. 255
Mac  == [0 .. 5 -> Byte]

ASSUME MacAssumption == Macs \subseteq Mac

ASSUME NumberAssumption == Numbers \subseteq Int

ASSUME InputAssumption == Inputs \subseteq Seq(Byte)

Op == {"add", "and", "or", "xor", "mac2bin", "bin2mac", "unknown", "none"}

VARIABLES
    cmd,            \* the command line
    input,
    pc,
    mac,            \* the buffer; uninitialised at first
    total,          \* what read_safe has read, -1 after an error
    code            \* the exit status

vars == <<cmd, input, pc, mac, total, code>>

\* argc: the number of arguments is right; ok1, ok2: parse_mac accepts them.
Command ==
    [op : Op, argc : BOOLEAN, mac1 : Macs, ok1 : BOOLEAN,
     mac2 : Macs, ok2 : BOOLEAN, number : Numbers]

-----------------------------------------------------------------------------
(* Arithmetic *)

\* The lower three bytes as a number.
Low(m) == 65536 * m[3] + 256 * m[4] + m[5]

\* Bug variant: the carry out of the last byte is lost.
AddNoCarry(m, i) == [m EXCEPT ![5] = (m[5] + i) % 256]

\* maccalc_do_add.  The sum is taken modulo 2^32 and cut into three bytes;
\* 2^24 divides 2^32, so the bytes are the same without the former.
Add(m, i) ==
    LET t == Low(m) + i
    IN  [m EXCEPT ![3] = (t \div 65536) % 256,
                  ![4] = (t \div 256) % 256,
                  ![5] = t % 256]

Bit(n, w) == (n \div w) % 2

\* A C operator on unsigned char, given by what it makes of two bits of which
\* none, one or both are set.
OnBits(op, a, b) ==
    LET At(w) == w * op[Bit(a, w) + Bit(b, w)]
    IN  At(1) + At(2) + At(4) + At(8) + At(16) + At(32) + At(64) + At(128)

OpOr(a, b)  == OnBits([n \in 0 .. 2 |-> IF n > 0 THEN 1 ELSE 0], a, b)
OpAnd(a, b) == OnBits([n \in 0 .. 2 |-> IF n = 2 THEN 1 ELSE 0], a, b)
OpXor(a, b) == OnBits([n \in 0 .. 2 |-> IF n = 1 THEN 1 ELSE 0], a, b)

\* maccalc_do_logical
Logical(op, m1, m2) ==
    [i \in 0 .. 5 |-> CASE op = "or"  -> OpOr(m1[i], m2[i])
                        [] op = "and" -> OpAnd(m1[i], m2[i])
                        [] op = "xor" -> OpXor(m1[i], m2[i])]

-----------------------------------------------------------------------------
(* One run of the program *)

Init ==
    /\ cmd \in Command
    /\ input \in Inputs
    /\ pc = "main"
    /\ mac \in Macs
    /\ total = 0
    /\ code = "running"

Exit(status) == pc' = "exit" /\ code' = status

Logicals == {"and", "or", "xor"}

\* No command, an unknown one, or the wrong number of arguments: usage.
Usage ==
    /\ pc = "main"
    /\ cmd.op \in {"unknown", "none"} \/ ~cmd.argc
    /\ Exit("FAILURE")
    /\ UNCHANGED <<cmd, input, mac, total>>

\* An argument that parse_mac rejects.
Invalid ==
    /\ pc = "main"
    /\ cmd.argc
    /\ \/ cmd.op \in Logicals \cup {"add", "mac2bin"} /\ ~cmd.ok1
       \/ cmd.op \in Logicals /\ ~cmd.ok2
    /\ Exit("FAILURE")
    /\ UNCHANGED <<cmd, input, mac, total>>

DoAdd ==
    /\ pc = "main"
    /\ cmd.op = "add" /\ cmd.argc /\ cmd.ok1
    /\ mac' = Add(cmd.mac1, cmd.number)
    /\ Exit("SUCCESS")
    /\ UNCHANGED <<cmd, input, total>>

DoLogical ==
    /\ pc = "main"
    /\ cmd.op \in Logicals /\ cmd.argc /\ cmd.ok1 /\ cmd.ok2
    /\ mac' = Logical(cmd.op, cmd.mac1, cmd.mac2)
    /\ Exit("SUCCESS")
    /\ UNCHANGED <<cmd, input, total>>

\* The write of six bytes may fail or be cut short.
DoMac2bin ==
    /\ pc = "main"
    /\ cmd.op = "mac2bin" /\ cmd.argc /\ cmd.ok1
    /\ mac' = cmd.mac1
    /\ Exit("SUCCESS") \/ Exit("FAILURE")
    /\ UNCHANGED <<cmd, input, total>>

DoBin2mac ==
    /\ pc = "main"
    /\ cmd.op = "bin2mac" /\ cmd.argc
    /\ pc' = "read"
    /\ UNCHANGED <<cmd, input, mac, total, code>>

\* Bug variant: every piece goes to the start of the buffer.
StoreAtStart(n) ==
    [i \in 0 .. 5 |-> IF i < n THEN input[total + i + 1] ELSE mac[i]]

\* The next n bytes of the input go to where the last piece ended.
Store(n) ==
    [i \in 0 .. 5 |-> IF total <= i /\ i < total + n THEN input[i + 1]
                      ELSE mac[i]]

\* A read of read_safe: some bytes, but no more than are missing; an
\* interrupted one is repeated and changes nothing.
ReadSome ==
    /\ pc = "read"
    /\ \E n \in 1 .. 6 :
          /\ total + n <= 6 /\ total + n <= Len(input)
          /\ mac' = Store(n)
          /\ total' = total + n
    /\ UNCHANGED <<cmd, input, pc, code>>

\* All bytes are there, or the input has ended.
ReadEnd ==
    /\ pc = "read"
    /\ total = 6 \/ total = Len(input)
    /\ Exit(IF total = 6 THEN "SUCCESS" ELSE "FAILURE")
    /\ UNCHANGED <<cmd, input, mac, total>>

ReadError ==
    /\ pc = "read"
    /\ total < 6
    /\ total' = -1
    /\ Exit("FAILURE")
    /\ UNCHANGED <<cmd, input, mac>>

Next ==
    \/ Usage \/ Invalid \/ DoAdd \/ DoLogical \/ DoMac2bin \/ DoBin2mac
    \/ ReadSome \/ ReadEnd \/ ReadError

Spec == Init /\ [][Next]_vars

-----------------------------------------------------------------------------
(* Properties *)

TypeOK ==
    /\ cmd \in Command
    /\ input \in Inputs
    /\ pc \in {"main", "read", "exit"}
    /\ mac \in Mac
    /\ total \in -1 .. 6
    /\ code \in {"running", "SUCCESS", "FAILURE"}

Printed == code = "SUCCESS"

\* add counts modulo 2^24 and never touches the manufacturer's half.
AddIsModular ==
    Printed /\ cmd.op = "add" =>
        /\ \A i \in 0 .. 2 : mac[i] = cmd.mac1[i]
        /\ Low(mac) = (Low(cmd.mac1) + cmd.number) % 16777216

\* bin2mac prints the first six bytes of its input, whatever the pieces in
\* which they come, and nothing if there are fewer: no byte that was not read.
PrintedWasRead ==
    Printed /\ cmd.op = "bin2mac" =>
        Len(input) >= 6 /\ \A i \in 0 .. 5 : mac[i] = input[i + 1]
=============================================================================
