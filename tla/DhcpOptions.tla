---------------------------- MODULE DhcpOptions -----------------------------
(***************************************************************************)
(* platform_hal_GetDhcpv6_Options (platform_hal.c): the DHCP client's lists*)
(* of options to request and to send are built node by node, from          *)
(* constants and from the vendor option file; if anything fails both lists *)
(* are freed.                                                              *)
(*                                                                         *)
(* One step per option, since each can fail on its own, and one per line   *)
(* of the vendor option file.  A list is a sequence of nodes, first node   *)
(* first; live counts the blocks on the heap that this code has allocated  *)
(* and not freed.                                                          *)
(***************************************************************************)
EXTENDS Integers, Sequences, FiniteSets

CONSTANTS
    Files,          \* possible contents of the vendor option file: sequences
                    \* of lines, each the sequence of its words
    Garbage,        \* what the uninitialised words may hold: triples of words
    MaxFaults,      \* bound: allocations that fail
    MaxList         \* bound: nodes the caller lets a list grow to

Modes  == {"ETHWAN", "other"}
Subops == {"SUBOPTION2", "SUBOPTION3", "other"}
Sizes  == 1 .. 63       \* of a value; it must fit into value[64]
Words  == Modes \X Subops \X Sizes

\* A line has up to three words.  sscanf leaves alone what it does not find.
Lines == {<<>>} \cup {<<m>> : m \in Modes} \cup (Modes \X Subops) \cup Words

ASSUME FileAssumption == Files \subseteq Seq(Lines)

ASSUME GarbageAssumption == Garbage # {} /\ Garbage \subseteq Words

ASSUME BoundAssumption == MaxFaults \in Nat /\ MaxList \in Nat

VARIABLES
    present, file,      \* the vendor option file
    req, send,          \* the caller's lists
    live,               \* blocks on the heap
    pc,                 \* the option that is added next, Idle outside a call
    linesRead,          \* lines of the file that have been read
    scanned,            \* mode, subop and value, as sscanf has left them
    appended,           \* the sizes of the values that are in buff
    buffLen,            \* the length of the text in buff
    before,             \* history: the caller's lists at the call
    starved,            \* history: a strdup of this call failed
    faults,             \* allocations that have failed
    ret

fileVars == <<present, file>>
scanVars == <<linesRead, scanned, appended, buffLen>>
vars == <<fileVars, req, send, live, pc, scanVars, before, starved, faults, ret>>

-----------------------------------------------------------------------------
(* Option 17 *)

\* What a suboption adds to buff: two hexadecimal digits per character of the
\* value (ascii_to_hex), after four digits each for the code and the length.
SubLen(size) == 8 + 2 * size

\* The words after sscanf: those of the line, and what was there before.
Scanned(words, line) ==
    [i \in 1 .. 3 |-> IF i <= Len(line) THEN line[i] ELSE words[i]]

\* Bug variant: the mode is not looked at.
ChosenAnyMode(words) == words[2] \in {"SUBOPTION2", "SUBOPTION3"}

\* SUBOPTION2 goes into the option, SUBOPTION3 only in mode ETHWAN.
Chosen(words) ==
    \/ words[2] = "SUBOPTION2"
    \/ words[2] = "SUBOPTION3" /\ words[1] = "ETHWAN"

-----------------------------------------------------------------------------
(* Lists *)

\* val: "null", the "text" of a constant, or the "subs" of option 17.
Node(opt, val, subs) == [opt |-> opt, val |-> val, subs |-> subs]

\* The blocks that free_dhcp_opt_list frees: each node and its value.
Blocks(list) ==
    Len(list) + Cardinality({i \in DOMAIN list : list[i].val # "null"})

\* The options in the order in which they are added.
Order == <<5, 23, 24, 25, 16, 17>>

Idle == 0
LastOpt == Len(Order)
Cleanup == LastOpt + 1     \* ret is RETURN_ERR, the lists are still there
Reading == LastOpt + 2     \* in the loop of add_dhcpv6_option_17

\* add_dhcpv6_option_17 does not run: it has no variables.
NoWords == <<"other", "other", 1>>
NoScan ==
    /\ linesRead' = 0 /\ scanned' = NoWords
    /\ appended' = <<>> /\ buffLen' = 0

Fails == faults < MaxFaults /\ faults' = faults + 1

Init ==
    /\ present \in BOOLEAN
    /\ file \in Files
    /\ req = <<>> /\ send = <<>>
    /\ live = 0
    /\ pc = Idle
    /\ linesRead = 0 /\ scanned = NoWords /\ appended = <<>> /\ buffLen = 0
    /\ before = [req |-> <<>>, send |-> <<>>]
    /\ starved = FALSE
    /\ faults = 0
    /\ ret = "none"

-----------------------------------------------------------------------------
(* The caller *)

\* A call with two lists, which need not be empty.
Call ==
    /\ pc = Idle
    /\ Len(req) < MaxList /\ Len(send) < MaxList
    /\ pc' = 1
    /\ before' = [req |-> req, send |-> send]
    /\ starved' = FALSE
    /\ ret' = "none"
    /\ UNCHANGED <<fileVars, scanVars, req, send, live, faults>>

\* A call without lists, or platform_hal_GetDhcpv4_Options, which adds nothing.
CallOther ==
    /\ pc = Idle
    /\ ret' \in {"OK", "ERR"}
    /\ UNCHANGED <<fileVars, scanVars, req, send, live, pc, before, starved, faults>>

\* The caller frees a list with free_dhcp_opt_list and drops it.
FreeRequests ==
    /\ pc = Idle
    /\ live' = live - Blocks(req)
    /\ req' = <<>>
    /\ ret' = "none"
    /\ UNCHANGED <<fileVars, scanVars, send, pc, before, starved, faults>>

FreeSends ==
    /\ pc = Idle
    /\ live' = live - Blocks(send)
    /\ send' = <<>>
    /\ ret' = "none"
    /\ UNCHANGED <<fileVars, scanVars, req, pc, before, starved, faults>>

-----------------------------------------------------------------------------
(* platform_hal_GetDhcpv6_Options *)

\* On to the next option, or back to the caller.
Proceed ==
    IF pc = LastOpt THEN pc' = Idle /\ ret' = "OK"
                 ELSE pc' = pc + 1 /\ UNCHANGED ret

\* add_dhcp_opt_to_list puts a node in front of the list; it owns the value
\* from then on.
AddRequest ==
    /\ pc \in 1 .. 3
    /\ \/ /\ req' = <<Node(Order[pc], "null", <<>>)>> \o req
          /\ live' = live + 1
          /\ Proceed
          /\ UNCHANGED faults
       \/ /\ Fails
          /\ pc' = Cleanup
          /\ UNCHANGED <<req, live, ret>>
    /\ UNCHANGED <<fileVars, scanVars, send, before, starved>>

\* Options 25 and 16: a strdup that fails goes unnoticed, and a value for
\* which there is no node is forgotten.
AddSend ==
    /\ pc \in 4 .. 5
    /\ \/ /\ send' = <<Node(Order[pc], "text", <<>>)>> \o send
          /\ live' = live + 2
          /\ Proceed
          /\ UNCHANGED <<starved, faults>>
       \/ /\ Fails
          /\ send' = <<Node(Order[pc], "null", <<>>)>> \o send
          /\ live' = live + 1
          /\ starved' = TRUE
          /\ Proceed
       \/ /\ Fails
          /\ live' = live + 1
          /\ pc' = Cleanup
          /\ UNCHANGED <<send, starved, ret>>
    /\ UNCHANGED <<fileVars, scanVars, req, before>>

\* add_dhcpv6_option_17, if there is a vendor option file: buff starts as
\* DHCPV6_OPT_VAL_17, the three words are not initialised.
OpenFile ==
    /\ pc = LastOpt
    /\ present
    /\ pc' = Reading
    /\ scanned' \in Garbage
    /\ buffLen' = 22
    /\ UNCHANGED <<fileVars, linesRead, appended, req, send, live, before, starved,
                   faults, ret>>

\* One turn of the loop over the lines.
ReadLine ==
    /\ pc = Reading
    /\ linesRead < Len(file)
    /\ linesRead' = linesRead + 1
    /\ scanned' = Scanned(scanned, file[linesRead + 1])
    /\ IF Chosen(scanned')
       THEN /\ appended' = Append(appended, scanned'[3])
            /\ buffLen' = buffLen + SubLen(scanned'[3])
       ELSE UNCHANGED <<appended, buffLen>>
    /\ UNCHANGED <<fileVars, req, send, live, pc, before, starved, faults, ret>>

\* The copy of buff and its node.
AddOption17 ==
    /\ pc = Reading
    /\ linesRead = Len(file)
    /\ \/ /\ send' = <<Node(17, "subs", appended)>> \o send
          /\ live' = live + 2
          /\ pc' = Idle /\ ret' = "OK"
          /\ UNCHANGED faults
       \/ /\ Fails                    \* no memory for the value
          /\ pc' = Cleanup
          /\ UNCHANGED <<send, live, ret>>
       \/ /\ Fails                    \* no memory for the node
          /\ live' = live + 1
          /\ pc' = Cleanup
          /\ UNCHANGED <<send, ret>>
    /\ NoScan
    /\ UNCHANGED <<fileVars, req, before, starved>>

SkipOption17 ==
    /\ pc = LastOpt
    /\ ~present
    /\ Proceed
    /\ UNCHANGED <<fileVars, scanVars, req, send, live, before, starved, faults>>

\* Bug variant: only the list that was being built is freed.
FreeBothSendOnly ==
    /\ pc = Cleanup
    /\ live' = live - Blocks(send)
    /\ req' = <<>> /\ send' = <<>>
    /\ pc' = Idle
    /\ ret' = "ERR"
    /\ UNCHANGED <<fileVars, scanVars, before, starved, faults>>

\* Bug variant: the caller keeps its pointer to the freed list.
FreeBothDangling ==
    /\ pc = Cleanup
    /\ live' = live - Blocks(req) - Blocks(send)
    /\ req' = <<>> /\ UNCHANGED send
    /\ pc' = Idle
    /\ ret' = "ERR"
    /\ UNCHANGED <<fileVars, scanVars, before, starved, faults>>

FreeBoth ==
    /\ pc = Cleanup
    /\ live' = live - Blocks(req) - Blocks(send)
    /\ req' = <<>> /\ send' = <<>>
    /\ pc' = Idle
    /\ ret' = "ERR"
    /\ UNCHANGED <<fileVars, scanVars, before, starved, faults>>

GetDhcpv6_Options ==
    \/ AddRequest \/ AddSend
    \/ OpenFile \/ ReadLine \/ AddOption17 \/ SkipOption17
    \/ FreeBoth

Next ==
    \/ Call \/ CallOther \/ FreeRequests \/ FreeSends
    \/ GetDhcpv6_Options

Spec == Init /\ [][Next]_vars

-----------------------------------------------------------------------------
(* Properties *)

TypeOK ==
    /\ present \in BOOLEAN
    /\ file \in Files
    /\ live \in Nat
    /\ pc \in 0 .. Reading
    /\ linesRead \in 0 .. Len(file) /\ scanned \in Words
    /\ appended \in Seq(Sizes) /\ buffLen \in Nat
    /\ starved \in BOOLEAN
    /\ faults \in 0 .. MaxFaults
    /\ ret \in {"none", "OK", "ERR"}

\* Nothing is freed twice, and nothing is lost but one value per failed
\* allocation: what is on the heap is what the lists hold and what
\* add_dhcp_opt_to_list was given without taking it.
HeapAccounted ==
    LET held == Blocks(req) + Blocks(send)
    IN  held <= live /\ live <= held + faults

Options(list) == [i \in DOMAIN list |-> list[i].opt]

\* All or nothing: a call that returns RETURN_OK has put its options in front
\* of what the lists held, those to send with a value unless a strdup failed,
\* and one that returns RETURN_ERR leaves two empty lists, whichever
\* allocation failed.
AllOrNothing ==
    [][pc # Idle /\ pc' = Idle =>
         \/ /\ ret' = "OK"
            /\ Options(req') = <<24, 23, 5>> \o Options(before.req)
            /\ Options(send') = (IF present THEN <<17, 16, 25>> ELSE <<16, 25>>)
                                   \o Options(before.send)
            /\ starved \/ \A i \in 1 .. Len(send') - Len(before.send) :
                              send'[i].val # "null"
         \/ ret' = "ERR" /\ req' = <<>> /\ send' = <<>>]_vars

\* The word that counts in line n: its own or, if the line is shorter, that of
\* the latest line that has one, provided that the first line is complete.
WordIn(n, w) ==
    file[CHOOSE m \in 1 .. n : /\ w <= Len(file[m])
                               /\ \A k \in m + 1 .. n : Len(file[k]) < w][w]

\* The lines of the first n whose value goes into the option.
Wanted(n) ==
    {m \in 1 .. n : \/ WordIn(m, 2) = "SUBOPTION2"
                    \/ WordIn(m, 2) = "SUBOPTION3" /\ WordIn(m, 1) = "ETHWAN"}

\* values holds the values of these lines, each once and in their order.
ValuesOf(values, n) ==
    \E from \in [DOMAIN values -> 1 .. n] :
        /\ \A j, k \in DOMAIN values : j < k => from[j] < from[k]
        /\ {from[k] : k \in DOMAIN values} = Wanted(n)
        /\ \A k \in DOMAIN values : values[k] = WordIn(from[k], 3)

\* Whenever the lists hold option 17, it holds the values that the file says,
\* in their order, unless the first line is incomplete, when words that were
\* never written count.  With up to three lines, of whatever shape, the text
\* fits into buff[512].
Option17AsInFile ==
    /\ Len(file) <= 3 => buffLen < 512
    /\ file = <<>> \/ Len(file[1]) = 3 =>
          \A i \in DOMAIN send :
              send[i].val = "subs" => ValuesOf(send[i].subs, Len(file))
=============================================================================
