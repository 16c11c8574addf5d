--------------------------- MODULE MacCalcProofs ----------------------------
(* Theorems about MacCalc and their proofs. *)
EXTENDS MacCalc, TLAPS

\* Cutting a number into three bytes and putting them together again is taking
\* it modulo 2^24.
LEMMA Bytes ==
    ASSUME NEW t \in Int
    PROVE  /\ (t \div 65536) % 256 \in Byte
           /\ (t \div 256) % 256 \in Byte
           /\ t % 256 \in Byte
           /\ 65536 * ((t \div 65536) % 256) + 256 * ((t \div 256) % 256) + (t % 256)
                = t % 16777216
<1>1. \A n \in Int : n % 256 \in Byte
  BY DEF Byte
<1>2. t \div 65536 \in Int /\ t \div 256 \in Int
  OBVIOUS
<1>3. 65536 * ((t \div 65536) % 256) + 256 * ((t \div 256) % 256) + (t % 256)
        = t % 16777216
  OBVIOUS
<1> QED
  BY <1>1, <1>2, <1>3

\* Counting modulo 2^24.
Wrap(n) == n % 16777216

\* maccalc_do_add on an address: the result is an address with the same upper
\* half, whose lower half is the sum modulo 2^24.
LEMMA AddResult ==
    \A m \in Mac, i \in Int :
        /\ Add(m, i) \in Mac
        /\ \A k \in 0 .. 2 : Add(m, i)[k] = m[k]
        /\ Low(m) \in Int
        /\ Low(Add(m, i)) = Wrap(Low(m) + i)
<1> TAKE m \in Mac, i \in Int
<1> DEFINE t == Low(m) + i
<1>0. m[3] \in Int /\ m[4] \in Int /\ m[5] \in Int
  <2>1. m[3] \in Byte /\ m[4] \in Byte /\ m[5] \in Byte
    BY DEF Mac
  <2> QED
    BY <2>1 DEF Byte
<1>1. Low(m) \in Int
  BY <1>0 DEF Low
<1>2. t \in Int
  BY <1>1
<1> HIDE DEF t
<1>3. Add(m, i) = [m EXCEPT ![3] = (t \div 65536) % 256,
                            ![4] = (t \div 256) % 256,
                            ![5] = t % 256]
  BY DEF Add, t
<1>a. /\ (t \div 65536) % 256 \in Byte
      /\ (t \div 256) % 256 \in Byte
      /\ t % 256 \in Byte
  BY <1>2, Bytes
<1>4. Add(m, i) \in Mac /\ \A k \in 0 .. 2 : Add(m, i)[k] = m[k]
  BY <1>3, <1>a DEF Mac
<1>5. Low(Add(m, i)) = t % 16777216
  <2>1. /\ Add(m, i)[3] = (t \div 65536) % 256
        /\ Add(m, i)[4] = (t \div 256) % 256
        /\ Add(m, i)[5] = t % 256
    BY <1>3 DEF Mac
  <2>2. Low(Add(m, i)) = 65536 * ((t \div 65536) % 256)
                           + 256 * ((t \div 256) % 256) + (t % 256)
    BY <2>1 DEF Low
  <2> QED
    BY <2>2, <1>2, Bytes
<1> QED
  BY <1>1, <1>4, <1>5 DEF t, Wrap

\* Sums that are equal modulo 2^24 come from numbers that are.
LEMMA Congruent ==
    ASSUME NEW a \in Int, NEW i \in Int, NEW j \in Int,
           Wrap(a + i) = Wrap(a + j)
    PROVE  Wrap(i - j) = 0
BY DEF Wrap

\* One more bit at most doubles what n bits can make.
LEMMA OneMoreBit ==
    ASSUME NEW n \in Nat, NEW w \in Nat, NEW a \in 0 .. n, NEW b \in 0 .. w
    PROVE  a + b \in 0 .. (n + w)
OBVIOUS

\* A C operator on bytes gives a byte.
LEMMA BitsByte ==
    ASSUME NEW op \in [0 .. 2 -> {0, 1}], NEW a \in Byte, NEW b \in Byte
    PROVE  OnBits(op, a, b) \in Byte
<1>1. ASSUME NEW w \in {1, 2, 4, 8, 16, 32, 64, 128}
      PROVE  w * op[Bit(a, w) + Bit(b, w)] \in {0, w}
  <2>1. Bit(a, w) \in {0, 1} /\ Bit(b, w) \in {0, 1}
    BY DEF Bit, Byte
  <2>2. op[Bit(a, w) + Bit(b, w)] \in {0, 1}
    BY <2>1
  <2> QED
    BY <2>2
<1> DEFINE At(w) == w * op[Bit(a, w) + Bit(b, w)]
<1>2. /\ At(1) \in 0 .. 1 /\ At(2) \in 0 .. 2
      /\ At(4) \in 0 .. 4 /\ At(8) \in 0 .. 8
  BY <1>1
<1>3. /\ At(16) \in 0 .. 16 /\ At(32) \in 0 .. 32
      /\ At(64) \in 0 .. 64 /\ At(128) \in 0 .. 128
  BY <1>1
<1>4. OnBits(op, a, b)
        = At(1) + At(2) + At(4) + At(8) + At(16) + At(32) + At(64) + At(128)
  BY DEF OnBits
<1> HIDE DEF At
<1>5. At(1) + At(2) \in 0 .. 3
  BY <1>2, OneMoreBit
<1>6. At(1) + At(2) + At(4) \in 0 .. 7
  BY <1>2, <1>5, OneMoreBit
<1>7. At(1) + At(2) + At(4) + At(8) \in 0 .. 15
  BY <1>2, <1>6, OneMoreBit
<1>8. At(1) + At(2) + At(4) + At(8) + At(16) \in 0 .. 31
  BY <1>3, <1>7, OneMoreBit
<1>9. At(1) + At(2) + At(4) + At(8) + At(16) + At(32) \in 0 .. 63
  BY <1>3, <1>8, OneMoreBit
<1>10. At(1) + At(2) + At(4) + At(8) + At(16) + At(32) + At(64) \in 0 .. 127
  BY <1>3, <1>9, OneMoreBit
<1>11. At(1) + At(2) + At(4) + At(8) + At(16) + At(32) + At(64) + At(128) \in 0 .. 255
  BY <1>3, <1>10, OneMoreBit
<1> QED
  BY <1>4, <1>11, Zenon DEF Byte

\* maccalc_do_logical on addresses gives an address.
LEMMA LogicalMac ==
    ASSUME NEW op \in Logicals, NEW m1 \in Mac, NEW m2 \in Mac
    PROVE  Logical(op, m1, m2) \in Mac
<1>1. ASSUME NEW a \in Byte, NEW b \in Byte
      PROVE  OpOr(a, b) \in Byte /\ OpAnd(a, b) \in Byte /\ OpXor(a, b) \in Byte
  <2>1. OpOr(a, b) \in Byte
    <3>1. [n \in 0 .. 2 |-> IF n > 0 THEN 1 ELSE 0] \in [0 .. 2 -> {0, 1}]
      OBVIOUS
    <3> QED
      BY <3>1, BitsByte DEF OpOr
  <2>2. OpAnd(a, b) \in Byte
    <3>1. [n \in 0 .. 2 |-> IF n = 2 THEN 1 ELSE 0] \in [0 .. 2 -> {0, 1}]
      OBVIOUS
    <3> QED
      BY <3>1, BitsByte DEF OpAnd
  <2>3. OpXor(a, b) \in Byte
    <3>1. [n \in 0 .. 2 |-> IF n = 1 THEN 1 ELSE 0] \in [0 .. 2 -> {0, 1}]
      OBVIOUS
    <3> QED
      BY <3>1, BitsByte DEF OpXor
  <2> QED
    BY <2>1, <2>2, <2>3
<1>2. \A k \in 0 .. 5 : m1[k] \in Byte /\ m2[k] \in Byte
  BY DEF Mac
<1> QED
  BY <1>1, <1>2 DEF Logical, Logicals, Mac

-----------------------------------------------------------------------------

\* Where the program is, what it has read so far, and what add has left in the
\* buffer.
RunInv ==
    /\ pc # "exit" => code = "running"
    /\ pc = "main" => total = 0
    /\ pc = "read" => cmd.op = "bin2mac" /\ total \in 0 .. 6 /\ total <= Len(input)
    /\ pc = "read" => \A i \in 0 .. 5 : i < total => mac[i] = input[i + 1]
    /\ Printed /\ cmd.op = "add" => mac = Add(cmd.mac1, cmd.number)
    /\ PrintedWasRead

IInv == TypeOK /\ RunInv

\* A piece that read_safe stores extends what the buffer holds of the input.
LEMMA StoreResult ==
    ASSUME NEW n \in 1 .. 6, input \in Seq(Byte), mac \in Mac, total \in 0 .. 6,
           total + n <= 6, total + n <= Len(input)
    PROVE  /\ Store(n) \in Mac
           /\ (\A i \in 0 .. 5 : i < total => mac[i] = input[i + 1])
                => \A i \in 0 .. 5 : i < total + n => Store(n)[i] = input[i + 1]
<1>1. ASSUME NEW i \in 0 .. 5, i < total + n PROVE input[i + 1] \in Byte
  <2>1. i + 1 \in 1 .. Len(input)
    BY <1>1
  <2> QED
    BY <2>1
<1>2. \A i \in 0 .. 5 : mac[i] \in Byte
  BY DEF Mac
<1> QED
  BY <1>1, <1>2 DEF Store, Mac

\* The program starts without output.
LEMMA InitIInv == Init => IInv
BY MacAssumption DEF Init, IInv, TypeOK, RunInv, Printed, PrintedWasRead

\* Every step of the program keeps the invariant.
LEMMA StepIInv == IInv /\ [Next]_vars => IInv'
<1> SUFFICES ASSUME TypeOK, RunInv, [Next]_vars PROVE TypeOK' /\ RunInv'
  BY DEF IInv
<1>0. /\ cmd.mac1 \in Mac /\ cmd.mac2 \in Mac /\ cmd.number \in Int
      /\ input \in Seq(Byte) /\ Len(input) \in Nat
  <2>1. cmd.mac1 \in Macs /\ cmd.mac2 \in Macs /\ cmd.number \in Numbers
    BY DEF TypeOK, Command
  <2>2. input \in Seq(Byte)
    BY InputAssumption DEF TypeOK
  <2>3. Len(input) \in Nat
    BY <2>2
  <2>4. cmd.mac1 \in Mac /\ cmd.mac2 \in Mac /\ cmd.number \in Int
    BY <2>1, MacAssumption, NumberAssumption, Zenon
  <2> QED
    BY <2>2, <2>3, <2>4
<1> USE DEF TypeOK, RunInv, Printed, PrintedWasRead
<1>1. CASE Usage
  BY <1>1 DEF Usage, Exit
<1>2. CASE Invalid
  BY <1>2 DEF Invalid, Exit
<1>3. CASE DoAdd
  <2>1. Add(cmd.mac1, cmd.number) \in Mac
    BY <1>0, AddResult, Zenon
  <2> QED
    BY <1>3, <2>1 DEF DoAdd, Exit
<1>4. CASE DoLogical
  <2>1. cmd.op \in Logicals
    BY <1>4 DEF DoLogical
  <2>2. Logical(cmd.op, cmd.mac1, cmd.mac2) \in Mac
    BY <1>0, <2>1, LogicalMac
  <2> QED
    BY <1>4, <2>1, <2>2 DEF DoLogical, Exit, Logicals
<1>5. CASE DoMac2bin
  BY <1>0, <1>5 DEF DoMac2bin, Exit
<1>6. CASE DoBin2mac
  BY <1>0, <1>6 DEF DoBin2mac
<1>7. CASE ReadSome
  <2>1. PICK n \in 1 .. 6 : /\ total + n <= 6 /\ total + n <= Len(input)
                           /\ mac' = Store(n)
                           /\ total' = total + n
    BY <1>7 DEF ReadSome
  <2>2. pc = "read" /\ UNCHANGED <<cmd, input, pc, code>>
    BY <1>7 DEF ReadSome
  <2>3. mac' \in Mac /\ \A i \in 0 .. 5 : i < total + n => mac'[i] = input[i + 1]
    BY <1>0, <2>1, <2>2, StoreResult
  <2>4. total' \in 0 .. 6 /\ total' <= Len(input)
    BY <2>1, <2>2
  <2> QED
    BY <2>1, <2>2, <2>3, <2>4
<1>8. CASE ReadEnd
  BY <1>0, <1>8 DEF ReadEnd, Exit
<1>9. CASE ReadError
  BY <1>9 DEF ReadError, Exit
<1>10. CASE UNCHANGED vars
  BY <1>10 DEF vars
<1> QED
  BY <1>1, <1>2, <1>3, <1>4, <1>5, <1>6, <1>7, <1>8, <1>9, <1>10 DEF Next

\* The invariant holds in every reachable state.
LEMMA Inductive == Spec => []IInv
BY InitIInv, StepIInv, PTL DEF Spec

\* The buffer always holds six bytes, whatever is computed into it, and
\* read_safe never counts past it.
THEOREM TypeCorrect == Spec => []TypeOK
<1>1. IInv => TypeOK
  BY DEF IInv
<1> QED
  BY Inductive, <1>1, PTL

\* For every address and every number, add counts modulo 2^24 in the lower half
\* of the address and leaves the upper half alone.
THEOREM AddModular == Spec => []AddIsModular
<1>1. IInv => AddIsModular
  <2> SUFFICES ASSUME IInv, Printed, cmd.op = "add"
               PROVE  /\ \A i \in 0 .. 2 : mac[i] = cmd.mac1[i]
                      /\ Low(mac) = Wrap(Low(cmd.mac1) + cmd.number)
    BY DEF AddIsModular, Wrap
  <2>1. cmd.mac1 \in Mac /\ cmd.number \in Int
    BY MacAssumption, NumberAssumption DEF IInv, TypeOK, Command
  <2>2. mac = Add(cmd.mac1, cmd.number)
    BY DEF IInv, RunInv
  <2> QED
    BY <2>1, <2>2, AddResult, Zenon
<1> QED
  BY Inductive, <1>1, PTL

\* For every input and all ways to cut it into pieces, bin2mac prints the first
\* six bytes or nothing.
THEOREM ReadExactly == Spec => []PrintedWasRead
<1>1. IInv => PrintedWasRead
  BY DEF IInv, RunInv
<1> QED
  BY Inductive, <1>1, PTL

-----------------------------------------------------------------------------
(* The addresses of the Wi-Fi interfaces *)

\* The mask of onewifi_pre_start_em_ctrl.sh and onewifi_pre_start_em_ext.sh.
LocalMask == [k \in 0 .. 5 |-> IF k = 0 THEN 10 ELSE 0]

\* maccalc or <base> 0a:00:00:00:00:00, then maccalc add <result> <n>.
MeshAddress(base, n) == Add(Logical("or", base, LocalMask), n)

\* The bits of a byte make up the byte.
LEMMA Binary ==
    ASSUME NEW a \in Byte
    PROVE  a = Bit(a, 1) + 2 * Bit(a, 2) + 4 * Bit(a, 4) + 8 * Bit(a, 8)
                 + 16 * Bit(a, 16) + 32 * Bit(a, 32) + 64 * Bit(a, 64)
                 + 128 * Bit(a, 128)
BY DEF Bit, Byte

\* | with 0 leaves a byte as it is.
LEMMA OrZero == ASSUME NEW a \in Byte PROVE OpOr(a, 0) = a
<1> DEFINE op == [n \in 0 .. 2 |-> IF n > 0 THEN 1 ELSE 0]
<1>1. ASSUME NEW w \in {1, 2, 4, 8, 16, 32, 64, 128}
      PROVE  op[Bit(a, w) + Bit(0, w)] = Bit(a, w)
  <2>1. Bit(0, w) = 0 /\ Bit(a, w) \in {0, 1}
    BY DEF Bit, Byte
  <2> QED BY <2>1
<1> HIDE DEF op
<1>2. OnBits(op, a, 0) =
        1 * Bit(a, 1) + 2 * Bit(a, 2) + 4 * Bit(a, 4) + 8 * Bit(a, 8)
          + 16 * Bit(a, 16) + 32 * Bit(a, 32) + 64 * Bit(a, 64) + 128 * Bit(a, 128)
  BY <1>1 DEF OnBits
<1>3. Bit(a, 1) \in Int
  BY DEF Bit, Byte
<1>4. OnBits(op, a, 0) = a
  BY <1>2, <1>3, Binary
<1> QED BY <1>4 DEF OpOr, op

\* | with 10 sets the bit that makes an address local; the bit that makes it
\* a group address stays as it is.
LEMMA OrMask ==
    ASSUME NEW a \in Byte
    PROVE  /\ OpOr(a, 10) \in Byte
           /\ Bit(OpOr(a, 10), 2) = 1 /\ Bit(OpOr(a, 10), 1) = Bit(a, 1)
<1> DEFINE op == [n \in 0 .. 2 |-> IF n > 0 THEN 1 ELSE 0]
           At(w) == op[Bit(a, w) + Bit(10, w)]
<1>1. Bit(10, 1) = 0 /\ Bit(10, 2) = 1
  BY DEF Bit
<1>2. \A w \in {1, 2, 4, 8, 16, 32, 64, 128} :
          Bit(a, w) \in {0, 1} /\ Bit(10, w) \in {0, 1}
  BY DEF Bit, Byte
<1>3. /\ At(1) = Bit(a, 1) /\ At(2) = 1
      /\ \A w \in {1, 2, 4, 8, 16, 32, 64, 128} : At(w) \in {0, 1}
  BY <1>1, <1>2
<1>4. OpOr(a, 10) = 1 * At(1) + 2 * At(2) + 4 * At(4) + 8 * At(8) + 16 * At(16)
                      + 32 * At(32) + 64 * At(64) + 128 * At(128)
  BY DEF OpOr, OnBits
<1> HIDE DEF At
<1>5. /\ At(1) \in {0, 1} /\ At(4) \in {0, 1} /\ At(8) \in {0, 1} /\ At(16) \in {0, 1}
      /\ At(32) \in {0, 1} /\ At(64) \in {0, 1} /\ At(128) \in {0, 1} /\ At(2) = 1
  BY <1>3
<1> DEFINE r == OpOr(a, 10)
<1>6. r \in Byte /\ (r \div 1) % 2 = At(1) /\ (r \div 2) % 2 = 1
  BY <1>4, <1>5 DEF Byte
<1> QED BY <1>3, <1>6 DEF Bit

\* The mask changes the first byte only.
LEMMA Masked ==
    ASSUME NEW base \in Mac
    PROVE  LET local == Logical("or", base, LocalMask)
           IN  /\ local \in Mac /\ Low(local) = Low(base)
               /\ local[0] \in Byte /\ base[0] \in Byte
               /\ Bit(local[0], 2) = 1 /\ Bit(local[0], 1) = Bit(base[0], 1)
<1> DEFINE local == Logical("or", base, LocalMask)
<1>1. LocalMask \in Mac
  BY DEF LocalMask, Mac, Byte
<1>2. local \in Mac
  BY <1>1, LogicalMac DEF Logicals
<1>3. \A k \in 0 .. 5 : base[k] \in Byte
  BY DEF Mac
<1>4. \A k \in 0 .. 5 : local[k] = OpOr(base[k], LocalMask[k])
  BY Zenon DEF Logical
<1>5. LocalMask[0] = 10 /\ \A k \in 1 .. 5 : LocalMask[k] = 0
  BY DEF LocalMask
<1>6. \A k \in 1 .. 5 : local[k] = base[k]
  <2> SUFFICES ASSUME NEW k \in 1 .. 5 PROVE local[k] = base[k]
    OBVIOUS
  <2>1. k \in 0 .. 5 OBVIOUS
  <2>2. local[k] = OpOr(base[k], 0)
    BY <1>4, <1>5, <2>1
  <2> QED BY <1>3, <2>1, <2>2, OrZero
<1>7. local[0] = OpOr(base[0], 10)
  BY <1>4, <1>5
<1> HIDE DEF local
<1>8. Low(local) = Low(base)
  BY <1>6 DEF Low
<1>9. Bit(local[0], 2) = 1 /\ Bit(local[0], 1) = Bit(base[0], 1) /\ local[0] \in Byte
  BY <1>3, <1>7, OrMask
<1> QED BY <1>2, <1>3, <1>8, <1>9 DEF local

\* Small numbers added to the same lower half give different lower halves.
LEMMA SmallSums ==
    ASSUME NEW m \in Mac, NEW n \in Mac, Low(m) = Low(n),
           NEW i \in 0 .. 6, NEW j \in 0 .. 6, Low(Add(m, i)) = Low(Add(n, j))
    PROVE  i = j
<1>0. i \in Int /\ j \in Int OBVIOUS
<1>1. Wrap(Low(m) + i) = Wrap(Low(m) + j) /\ Low(m) \in Int
  <2>1. Low(Add(m, i)) = Wrap(Low(m) + i) /\ Low(m) \in Int
    BY <1>0, AddResult, Zenon
  <2>2. Low(Add(n, j)) = Wrap(Low(n) + j)
    BY <1>0, AddResult, Zenon
  <2> QED BY <2>1, <2>2, Zenon
<1>2. Wrap(i - j) = 0
  BY <1>0, <1>1, Congruent, Zenon
<1> QED BY <1>2, SMT DEF Wrap

\* Three bytes put together, and cut apart again.
Sum3(x, y, z) == 65536 * x + 256 * y + z
Upper(t)  == (t \div 65536) % 256
Middle(t) == (t \div 256) % 256
Lower(t)  == t % 256

\* Three digits to the base 256 can be read off their sum.
LEMMA Digits ==
    \A x, y, z \in Byte :
        /\ Upper(Sum3(x, y, z)) = x /\ Middle(Sum3(x, y, z)) = y
        /\ Lower(Sum3(x, y, z)) = z
        /\ Sum3(x, y, z) + 0 = Sum3(x, y, z)
BY DEF Sum3, Upper, Middle, Lower, Byte

\* Adding nothing.
LEMMA AddZero == ASSUME NEW m \in Mac PROVE Add(m, 0) = m
<1>1. m[3] \in Byte /\ m[4] \in Byte /\ m[5] \in Byte
  BY DEF Mac
<1> DEFINE t == Sum3(m[3], m[4], m[5])
<1>2. Upper(t) = m[3] /\ Middle(t) = m[4] /\ Lower(t) = m[5] /\ t + 0 = t
  BY <1>1, Digits, Zenon
<1>3. Low(m) + 0 = t + 0
  BY DEF Low, Sum3
<1> DEFINE u == Low(m) + 0
<1>4. u = t
  BY <1>2, <1>3, Zenon
<1> HIDE DEF t, u
<1>5. Add(m, 0) = [m EXCEPT ![3] = Upper(u), ![4] = Middle(u), ![5] = Lower(u)]
  BY DEF Add, Upper, Middle, Lower, u
<1>6. Add(m, 0) = [m EXCEPT ![3] = m[3], ![4] = m[4], ![5] = m[5]]
  BY <1>2, <1>4, <1>5, Zenon
<1> QED BY <1>6 DEF Mac

\* WifiStart names an address by where it comes from: a device's own plus a
\* number, or made local plus a number.  For devices whose addresses are p0
\* and p1 this is the address.
AddressOf(p0, p1, a) ==
    IF a[1] = "phy1" THEN p1
    ELSE IF a[1] = "phy0" THEN Add(p0, a[2]) ELSE MeshAddress(p0, a[2])

\* The names that can occur together, as WifiStartProofs shows.
TwoCards  == {<<"phy0", 0>>, <<"phy1", 0>>}
OneCard   == {"phy0"} \X (0 .. 2)
MeshNames == TwoCards \cup ({"local"} \X (1 .. 6))

\* Different names stand for different addresses: for any two devices with
\* different addresses, of which the second is not local already (bit 2 of
\* its first byte) where the scripts make up local addresses.  So what
\* AddressesDiffer says of names holds of the addresses that maccalc prints,
\* whatever the addresses of the devices and wherever the sums wrap.
THEOREM NamesAreAddresses ==
    ASSUME NEW p0 \in Mac, NEW p1 \in Mac, p0 # p1
    PROVE  \A used \in {TwoCards, OneCard, MeshNames} :
             (used = MeshNames => Bit(p1[0], 2) = 0) =>
               \A a, b \in used : AddressOf(p0, p1, a) = AddressOf(p0, p1, b) => a = b
<1> DEFINE local == Logical("or", p0, LocalMask)
           At(a) == AddressOf(p0, p1, a)
<1>1. local \in Mac /\ Low(local) = Low(p0) /\ Bit(local[0], 2) = 1
  BY Masked
<1>2. At(<<"phy0", 0>>) = p0 /\ At(<<"phy1", 0>>) = p1
  BY AddZero DEF AddressOf
<1>3. \A n \in 0 .. 6 : /\ At(<<"phy0", n>>) = Add(p0, n)
                        /\ At(<<"local", n>>) = Add(local, n)
  BY DEF AddressOf, MeshAddress
<1> HIDE DEF At
<1>4. \A a, b \in TwoCards : At(a) = At(b) => a = b
  BY <1>2 DEF TwoCards
<1>5. \A a, b \in OneCard : At(a) = At(b) => a = b
  <2> SUFFICES ASSUME NEW a \in OneCard, NEW b \in OneCard, At(a) = At(b) PROVE a = b
    OBVIOUS
  <2>1. PICK i \in 0 .. 2, j \in 0 .. 2 : a = <<"phy0", i>> /\ b = <<"phy0", j>>
    BY DEF OneCard
  <2>2. i \in 0 .. 6 /\ j \in 0 .. 6 OBVIOUS
  <2>3. Add(p0, i) = Add(p0, j)
    BY <1>3, <2>1, <2>2
  <2>4. i = j
    BY <2>2, <2>3, SmallSums, Zenon
  <2> QED BY <2>1, <2>4
<1>6. ASSUME Bit(p1[0], 2) = 0 PROVE \A a, b \in MeshNames : At(a) = At(b) => a = b
  <2>1. \A n \in 0 .. 6 : Add(local, n)[0] = local[0]
    <3> SUFFICES ASSUME NEW n \in 0 .. 6 PROVE Add(local, n)[0] = local[0]
      OBVIOUS
    <3>1. n \in Int /\ 0 \in 0 .. 2 OBVIOUS
    <3> HIDE DEF local
    <3> QED BY <1>1, <3>1, AddResult, Zenon
  <2>2. \A n \in 0 .. 6 : Add(local, n) # p1
    <3> SUFFICES ASSUME NEW n \in 0 .. 6, Add(local, n) = p1 PROVE FALSE
      OBVIOUS
    <3>1. Bit(local[0], 2) = Bit(p1[0], 2)
      BY <2>1
    <3> QED BY <1>1, <1>6, <3>1
  <2>3. \A n \in 1 .. 6 : Add(local, n) # p0
    <3> SUFFICES ASSUME NEW n \in 1 .. 6, Add(local, n) = p0 PROVE FALSE
      OBVIOUS
    <3>0. n \in 0 .. 6 /\ 0 \in 0 .. 6 /\ n # 0 OBVIOUS
    <3>1. Low(Add(local, n)) = Low(Add(p0, 0))
      BY AddZero
    <3> HIDE DEF local
    <3> QED BY <1>1, <3>0, <3>1, SmallSums, Zenon
  <2>4. \A i, j \in 1 .. 6 : Add(local, i) = Add(local, j) => i = j
    <3> SUFFICES ASSUME NEW i \in 1 .. 6, NEW j \in 1 .. 6, Add(local, i) = Add(local, j)
                 PROVE  i = j
      OBVIOUS
    <3>0. i \in 0 .. 6 /\ j \in 0 .. 6 OBVIOUS
    <3> HIDE DEF local
    <3> QED BY <1>1, <3>0, SmallSums, Zenon
  <2> SUFFICES ASSUME NEW a \in MeshNames, NEW b \in MeshNames, At(a) = At(b) PROVE a = b
    OBVIOUS
  <2>5. ASSUME NEW x \in MeshNames
        PROVE  \/ x \in TwoCards
               \/ \E n \in 1 .. 6 : x = <<"local", n>> /\ At(x) = Add(local, n)
    BY <1>3 DEF MeshNames
  <2>6. \A x \in TwoCards : At(x) \in {p0, p1}
    BY <1>2 DEF TwoCards
  <2> HIDE DEF local
  <2>7. CASE a \in TwoCards /\ b \in TwoCards
    BY <1>4, <2>7
  <2>8. CASE a \notin TwoCards /\ b \notin TwoCards
    <3>1. PICK i \in 1 .. 6 : a = <<"local", i>> /\ At(a) = Add(local, i)
      BY <2>5, <2>8
    <3>2. PICK j \in 1 .. 6 : b = <<"local", j>> /\ At(b) = Add(local, j)
      BY <2>5, <2>8
    <3>3. i = j
      BY <2>4, <3>1, <3>2
    <3> QED BY <3>1, <3>2, <3>3
  <2>9. ASSUME NEW x \in TwoCards, NEW y \in MeshNames, y \notin TwoCards
        PROVE  At(x) # At(y)
    <3>1. PICK n \in 1 .. 6 : At(y) = Add(local, n)
      BY <2>5, <2>9
    <3>2. n \in 0 .. 6 OBVIOUS
    <3> QED BY <2>2, <2>3, <2>6, <3>1, <3>2
  <2> QED BY <2>7, <2>8, <2>9
<1>7. TwoCards # MeshNames /\ OneCard # MeshNames
  <2>1. <<"local", 1>> \in MeshNames
    BY DEF MeshNames
  <2>2. <<"local", 1>> \notin TwoCards /\ <<"local", 1>> \notin OneCard
    BY DEF TwoCards, OneCard
  <2> QED BY <2>1, <2>2
<1> QED BY <1>4, <1>5, <1>6, <1>7 DEF At
=============================================================================
