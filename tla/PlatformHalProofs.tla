------------------------- MODULE PlatformHalProofs --------------------------
(***************************************************************************)
(* Theorems about PlatformHal: the WAN interface, for any threads and      *)
(* names; the option lists, for any vendor file and any failures; and the  *)
(* getters, for any texts, numbers and limits.                             *)
(***************************************************************************)
EXTENDS PlatformHal, FiniteSetTheorems, SequenceTheorems, TLAPS

WanType ==
    /\ source \in [Sources -> Names \cup {NoName}]
    /\ at \in [Callers -> {"idle", "sysevent", "syscfg", "route", "lo", "done"}]
    /\ interface_name \in [Callers -> Names \cup {NoName, Loopback}]
    /\ seen \in [Callers -> SUBSET Names]
    /\ steady \in [Callers -> Names \cup {NoName, Changed}]
    /\ missed \in [Callers -> BOOLEAN]

\* During a call the buffer is empty or holds a name seen in this call.
BufferInv ==
    \A t \in Callers :
        /\ at[t] \notin {"idle", "done"} =>
              Held(source) \subseteq seen[t] /\ interface_name[t] \in seen[t] \cup {NoName}
        /\ at[t] = "sysevent" => interface_name[t] = NoName
        /\ at[t] = "done" => interface_name[t] \in seen[t] \cup {Loopback}

\* steady is what sysevent says until it is asked, and then in the buffer.
SteadyInv ==
    \A t \in Callers :
        /\ at[t] = "sysevent" /\ steady[t] # Changed => steady[t] = source["sysevent"]
        /\ /\ at[t] \in {"syscfg", "route", "lo", "done"}
           /\ steady[t] \in Names /\ ~missed[t]
           => interface_name[t] = steady[t]

\* What one command may do to the thread that runs it.
LEMMA AskEffect ==
    ASSUME NEW t \in Callers, NEW s \in Sources, NEW next,
           WanType, Ask(t, s, next)
    PROVE  /\ at[t] = s /\ at' = [at EXCEPT ![t] = next]
           /\ UNCHANGED <<source, seen, steady>>
           /\ \/ UNCHANGED interface_name
              \/ /\ interface_name' = [interface_name EXCEPT ![t] = source[s]]
                 /\ s = "sysevent" \/ interface_name[t] = NoName
           /\ \A u \in Callers : u # t => missed'[u] = missed[u]
           /\ missed'[t] \in BOOLEAN
           /\ ~missed'[t] => ~missed[t]
           /\ ~missed'[t] /\ s = "sysevent" => interface_name'[t] = source[s]
           /\ missed' \in [Callers -> BOOLEAN]
<1>1. CASE /\ interface_name' = [interface_name EXCEPT ![t] = source[s]]
           /\ s = "sysevent" \/ interface_name[t] = NoName
           /\ UNCHANGED missed
  BY <1>1 DEF Ask, WanType
<1>2. CASE missed' = [missed EXCEPT ![t] = TRUE] /\ UNCHANGED interface_name
  BY <1>2 DEF Ask, WanType
<1>3. CASE s # "sysevent" /\ UNCHANGED <<interface_name, missed>>
  BY <1>3 DEF Ask, WanType
<1> QED BY <1>1, <1>2, <1>3 DEF Ask, Execute, Buffer

\* Every step keeps the types.
LEMMA WanTypeStep == WanType /\ WanNext => WanType'
<1> SUFFICES ASSUME WanType, WanNext PROVE WanType'
  OBVIOUS
<1>1. ASSUME NEW t \in Callers, LookUp(t) PROVE WanType'
  <2>1. missed' \in [Callers -> BOOLEAN] BY <1>1 DEF LookUp, WanType
  <2>2. Held(source) \in SUBSET Names BY DEF Held, WanType
  <2> QED BY <1>1, <2>1, <2>2 DEF LookUp, WanType, Buffer, Sources
<1>2. ASSUME NEW t \in Callers, AskAll(t) PROVE WanType'
  <2>1. PICK s \in Sources, next \in {"syscfg", "route", "lo"} : Ask(t, s, next)
    BY <1>2 DEF AskAll, Sources
  <2>2. missed' \in [Callers -> BOOLEAN] BY <2>1, AskEffect
  <2>3. interface_name' \in [Callers -> Names \cup {NoName, Loopback}]
    BY <2>1, AskEffect DEF WanType
  <2> QED BY <2>1, <2>2, <2>3, AskEffect DEF WanType
<1>3. ASSUME NEW t \in Callers, FallBack(t) PROVE WanType'
  BY <1>3 DEF FallBack, WanType, Buffer
<1>4. CASE SourceChanges
  <2>1. source' \in [Sources -> Names \cup {NoName}] BY <1>4 DEF SourceChanges, WanType
  <2>2. Held(source') \in SUBSET Names BY <2>1 DEF Held
  <2> QED BY <1>4, <2>1, <2>2 DEF SourceChanges, WanType
<1> QED BY <1>1, <1>2, <1>3, <1>4 DEF WanNext

\* A thread's buffer only ever takes names that are being seen.
LEMMA BufferStep == WanType /\ BufferInv /\ WanNext => BufferInv'
<1> DEFINE Good(u) ==
      /\ at'[u] \notin {"idle", "done"} =>
            Held(source') \subseteq seen'[u] /\ interface_name'[u] \in seen'[u] \cup {NoName}
      /\ at'[u] = "sysevent" => interface_name'[u] = NoName
      /\ at'[u] = "done" => interface_name'[u] \in seen'[u] \cup {Loopback}
<1> SUFFICES ASSUME WanType, BufferInv, WanNext, NEW u \in Callers PROVE Good(u)
  BY DEF BufferInv, Held
<1>1. ASSUME NEW t \in Callers, LookUp(t) PROVE Good(u)
  BY <1>1 DEF LookUp, WanType, BufferInv, Buffer
<1>2. ASSUME NEW t \in Callers, AskAll(t) PROVE Good(u)
  <2>1. PICK s \in Sources, next \in {"syscfg", "route", "lo"} : Ask(t, s, next)
    BY <1>2 DEF AskAll, Sources
  <2>2. source[s] \in Held(source) \cup {NoName}
    BY DEF Held
  <2>3. /\ at'[t] = next /\ at[t] = s /\ seen' = seen /\ source' = source
        /\ interface_name'[t] \in {interface_name[t], source[s]}
        /\ u # t => at'[u] = at[u] /\ interface_name'[u] = interface_name[u]
    BY <2>1, AskEffect DEF WanType
  <2>4. CASE u = t
    BY <2>2, <2>3, <2>4 DEF BufferInv, Sources
  <2>5. CASE u # t
    BY <2>3, <2>5 DEF BufferInv
  <2> QED BY <2>4, <2>5
<1>3. ASSUME NEW t \in Callers, FallBack(t) PROVE Good(u)
  BY <1>3 DEF FallBack, WanType, BufferInv, Buffer
<1>4. CASE SourceChanges
  BY <1>4 DEF SourceChanges, WanType, BufferInv, Calling
<1> QED BY <1>1, <1>2, <1>3, <1>4 DEF WanNext

\* A name that stands is found first and kept.
LEMMA SteadyStep == WanType /\ BufferInv /\ SteadyInv /\ WanNext => SteadyInv'
<1> DEFINE Good(u) ==
      /\ at'[u] = "sysevent" /\ steady'[u] # Changed => steady'[u] = source'["sysevent"]
      /\ /\ at'[u] \in {"syscfg", "route", "lo", "done"}
         /\ steady'[u] \in Names /\ ~missed'[u]
         => interface_name'[u] = steady'[u]
<1> SUFFICES ASSUME WanType, BufferInv, SteadyInv, WanNext, NEW u \in Callers
             PROVE  Good(u)
  BY DEF SteadyInv
<1>n. NoName \notin Names /\ Changed \notin Names
  BY NameAssumption
<1>1. ASSUME NEW t \in Callers, LookUp(t) PROVE Good(u)
  BY <1>1 DEF LookUp, WanType, SteadyInv, Buffer
<1>2. ASSUME NEW t \in Callers, AskAll(t) PROVE Good(u)
  <2>1. PICK s \in Sources, next \in {"syscfg", "route", "lo"} : Ask(t, s, next)
    BY <1>2 DEF AskAll, Sources
  <2>2. /\ at'[t] = next /\ at[t] = s /\ steady' = steady /\ source' = source
        /\ u # t => /\ at'[u] = at[u] /\ interface_name'[u] = interface_name[u]
                    /\ missed'[u] = missed[u]
    BY <2>1, AskEffect DEF WanType
  <2>3. CASE u # t
    BY <2>2, <2>3 DEF SteadyInv
  <2>4. CASE u = t /\ s = "sysevent"
    <3>1. ~missed'[t] => interface_name'[t] = source["sysevent"]
      BY <2>1, <2>4, AskEffect
    <3>2. steady[t] \in Names => steady[t] = source["sysevent"]
      BY <1>n, <2>2, <2>4 DEF SteadyInv
    <3> QED BY <2>2, <2>4, <3>1, <3>2
  <2>5. CASE u = t /\ s # "sysevent"
    <3>1. steady[t] \in Names /\ ~missed'[t] => interface_name[t] = steady[t]
      BY <2>1, <2>2, <2>5, AskEffect DEF SteadyInv, Sources
    <3>2. interface_name[t] # NoName => interface_name' = interface_name
      BY <2>1, <2>5, AskEffect
    <3> QED BY <1>n, <2>2, <2>5, <3>1, <3>2
  <2> QED BY <2>3, <2>4, <2>5
<1>3. ASSUME NEW t \in Callers, FallBack(t) PROVE Good(u)
  BY <1>3, <1>n DEF FallBack, WanType, SteadyInv, Buffer
<1>4. CASE SourceChanges
  <2>1. /\ at' = at /\ interface_name' = interface_name /\ missed' = missed
        /\ steady'[u] = IF u \in Calling /\ source'["sysevent"] # source["sysevent"]
                        THEN Changed ELSE steady[u]
    BY <1>4 DEF SourceChanges
  <2>2. CASE steady'[u] = Changed
    BY <1>n, <2>2
  <2>3. CASE steady'[u] = steady[u] /\ (at[u] = "sysevent" => source'["sysevent"] = source["sysevent"])
    BY <2>1, <2>3 DEF SteadyInv
  <2> QED BY <2>1, <2>2, <2>3 DEF Calling
<1> QED BY <1>1, <1>2, <1>3, <1>4 DEF WanNext

-----------------------------------------------------------------------------
(* The theorems *)

WanInv == WanType /\ BufferInv /\ SteadyInv

\* Before the first call.
LEMMA WanInitInv == HalInit => WanInv
<1> SUFFICES ASSUME WanInit PROVE WanInv
  BY DEF HalInit
<1>1. missed \in [Callers -> BOOLEAN] BY DEF WanInit
<1> QED BY <1>1 DEF WanInit, WanInv, WanType, BufferInv, SteadyInv

\* Clients of other parts leave the WAN interface alone.
LEMMA WanInvStep == WanInv /\ [HalNext]_halVars => WanInv'
<1> SUFFICES ASSUME WanInv, [HalNext]_halVars PROVE WanInv'
  OBVIOUS
<1>1. CASE WanNext
  BY <1>1, WanTypeStep, BufferStep, SteadyStep DEF WanInv
<1>2. CASE UNCHANGED wanVars
  BY <1>2 DEF wanVars, WanInv, WanType, BufferInv, SteadyInv, Held
<1> QED BY <1>1, <1>2 DEF HalNext, halVars

\* The name is never empty, and never one of an earlier call or of another
\* thread: a source held it during this call, or it is lo.
THEOREM CurrentName == HalSpec => []NameIsCurrent
<1>1. WanInv => NameIsCurrent
  BY DEF WanInv, BufferInv, NameIsCurrent, Returned, Buffer
<1> QED BY <1>1, WanInitInv, WanInvStep, PTL DEF HalSpec

\* What the WAN manager publishes takes precedence.
THEOREM PublishedFirst == HalSpec => []PublishedNameWins
<1>1. WanInv => PublishedNameWins
  BY DEF WanInv, SteadyInv, PublishedNameWins, Returned, Buffer
<1> QED BY <1>1, WanInitInv, WanInvStep, PTL DEF HalSpec

-----------------------------------------------------------------------------
(* The heap *)

IsSeq(list) == \E S : list \in Seq(S)

Valued(list) == {n \in DOMAIN list : list[n].val # "null"}

\* The blocks of a list are a number.
LEMMA BlocksType ==
    ASSUME NEW list, IsSeq(list)
    PROVE  /\ IsFiniteSet(Valued(list)) /\ Cardinality(Valued(list)) \in Nat
           /\ Len(list) \in Nat
           /\ Blocks(list) = Len(list) + Cardinality(Valued(list))
<1>1. Len(list) \in Nat /\ DOMAIN list = 1 .. Len(list)
  BY DEF IsSeq
<1>2. IsFiniteSet(1 .. Len(list))
  BY <1>1, FS_Interval
<1>3. Valued(list) \in SUBSET (1 .. Len(list))
  BY <1>1 DEF Valued
<1>4. IsFiniteSet(Valued(list))
  BY <1>2, <1>3, FS_Subset
<1> QED BY <1>1, <1>4, FS_CardinalityType DEF Blocks, Valued

\* A node in front of a list adds its own blocks.
LEMMA BlocksPush ==
    ASSUME NEW list, IsSeq(list), NEW node
    PROVE  /\ IsSeq(<<node>> \o list)
           /\ Blocks(<<node>> \o list) =
                Blocks(list) + 1 + (IF node.val = "null" THEN 0 ELSE 1)
<1> DEFINE new == <<node>> \o list
           Old == Valued(list)
           Shifted == Valued(new) \ {1}
           f == [n \in Old |-> n + 1]
<1>0. IsFiniteSet(Old) /\ Cardinality(Old) \in Nat
  BY BlocksType
<1>1. PICK S : list \in Seq(S)
  BY DEF IsSeq
<1>2. /\ new \in Seq(S \cup {node}) /\ Len(new) = Len(list) + 1 /\ new[1] = node
      /\ \A n \in 1 .. Len(list) : new[n + 1] = list[n]
      /\ Len(list) \in Nat
  BY <1>1
<1>3. IsSeq(new)
  BY <1>2 DEF IsSeq
<1>4. /\ DOMAIN new = 1 .. (Len(list) + 1) /\ DOMAIN list = 1 .. Len(list)
  BY <1>1, <1>2
<1>5. ExistsBijection(Old, Shifted)
  <2>1. f \in [Old -> Shifted]
    BY <1>2, <1>4 DEF Valued
  <2>2. \A a, b \in Old : f[a] = f[b] => a = b
    BY <1>4 DEF Valued
  <2>3. \A t \in Shifted : \E a \in Old : f[a] = t
    <3> SUFFICES ASSUME NEW t \in Shifted PROVE \E a \in Old : f[a] = t
      OBVIOUS
    <3>1. t - 1 \in Old /\ f[t - 1] = t
      BY <1>2, <1>4 DEF Valued
    <3> QED BY <3>1
  <2> QED
    BY <2>1, <2>2, <2>3
    DEF ExistsBijection, Bijection, Injection, Surjection, IsInjective
<1>6. IsFiniteSet(Shifted) /\ Cardinality(Shifted) = Cardinality(Old)
  BY <1>0, <1>5, FS_Bijection
<1>7. Cardinality(Valued(new)) = Cardinality(Old) + IF node.val = "null" THEN 0 ELSE 1
  <2>1. 1 \in DOMAIN new
    BY <1>2, <1>4
  <2>2. CASE node.val = "null"
    <3>1. Valued(new) = Shifted
      BY <1>2, <2>2 DEF Valued
    <3> QED BY <1>0, <1>6, <2>2, <3>1
  <2>3. CASE node.val # "null"
    <3>1. Valued(new) = Shifted \cup {1} /\ 1 \notin Shifted
      BY <1>2, <2>1, <2>3 DEF Valued
    <3> QED BY <1>6, <2>3, <3>1, FS_AddElement
  <2> QED BY <2>2, <2>3
<1>8. Blocks(list) = Len(list) + Cardinality(Old)
  BY BlocksType
<1>9. Blocks(new) = Len(new) + Cardinality(Valued(new))
  BY <1>3, BlocksType
<1> QED BY <1>0, <1>2, <1>3, <1>7, <1>8, <1>9

\* An empty list has no blocks.
LEMMA BlocksNone == IsSeq(<<>>) /\ Blocks(<<>>) = 0
<1>1. IsSeq(<<>>) BY DEF IsSeq
<1>2. Valued(<<>>) = {} BY DEF Valued
<1> QED BY <1>1, <1>2, BlocksType, FS_EmptySet

\* Nothing but what a failed allocation lost is on the heap.
HeapInv ==
    /\ IsSeq(req) /\ IsSeq(send)
    /\ live \in Int /\ faults \in Nat
    /\ HeapAccounted

\* Every step accounts for what it allocates and frees.
LEMMA HeapStep == HeapInv /\ Next => HeapInv'
<1> SUFFICES ASSUME HeapInv, Next PROVE HeapInv'
  OBVIOUS
<1>1. Blocks(req) \in Nat /\ Blocks(send) \in Nat
  BY BlocksType DEF HeapInv
<1>2. /\ live \in Int /\ faults \in Nat /\ IsSeq(req) /\ IsSeq(send)
      /\ Blocks(req) + Blocks(send) <= live
      /\ live <= Blocks(req) + Blocks(send) + faults
  BY DEF HeapInv, HeapAccounted
<1> USE <1>1, <1>2
<1>4. CASE UNCHANGED <<req, send, live, faults>>
  BY <1>4 DEF HeapInv, HeapAccounted
<1>5. CASE FreeRequests \/ FreeSends \/ FreeBoth
  BY <1>5, BlocksNone DEF FreeRequests, FreeSends, FreeBoth, HeapInv, HeapAccounted
<1>6. CASE AddRequest
  <2>1. CASE UNCHANGED <<req, send, live>> /\ Fails
    BY <2>1 DEF HeapInv, HeapAccounted, Fails
  <2>2. CASE /\ req' = <<Node(Order[pc], "null", <<>>)>> \o req
             /\ live' = live + 1 /\ UNCHANGED <<send, faults>>
    <3>1. IsSeq(req') /\ Blocks(req') = Blocks(req) + 1
      BY <2>2, BlocksPush DEF Node
    <3> QED BY <2>2, <3>1 DEF HeapInv, HeapAccounted
  <2> QED BY <1>6, <2>1, <2>2 DEF AddRequest
<1>7. CASE AddSend \/ AddOption17
  <2>1. CASE UNCHANGED <<req, send>> /\ live' \in {live, live + 1} /\ Fails
    BY <2>1 DEF HeapInv, HeapAccounted, Fails
  <2>2. ASSUME NEW node, node.val # "null", send' = <<node>> \o send,
               live' = live + 2, UNCHANGED <<req, faults>>
        PROVE  HeapInv'
    <3>1. IsSeq(send') /\ Blocks(send') = Blocks(send) + 2
      BY <2>2, BlocksPush
    <3> QED BY <2>2, <3>1 DEF HeapInv, HeapAccounted
  <2>3. ASSUME send' = <<Node(Order[pc], "null", <<>>)>> \o send, live' = live + 1,
               UNCHANGED req, Fails
        PROVE  HeapInv'
    <3>1. IsSeq(send') /\ Blocks(send') = Blocks(send) + 1
      BY <2>3, BlocksPush DEF Node
    <3> QED BY <2>3, <3>1 DEF HeapInv, HeapAccounted, Fails
  <2>4. CASE AddSend
    <3>1. Node(Order[pc], "text", <<>>).val # "null" BY DEF Node
    <3> QED BY <2>1, <2>2, <2>3, <2>4, <3>1 DEF AddSend
  <2>5. CASE AddOption17
    <3>1. Node(17, "subs", appended).val # "null" BY DEF Node
    <3> QED BY <2>1, <2>2, <2>5, <3>1 DEF AddOption17
  <2> QED BY <1>7, <2>4, <2>5
<1> QED
  BY <1>4, <1>5, <1>6, <1>7
  DEF Next, Call, CallOther, GetDhcpv6_Options, OpenFile, ReadLine, SkipOption17

\* Whatever fails, no block is freed twice and each failed allocation costs
\* at most one block.
THEOREM HeapSafe == HalSpec => []HeapAccounted
<1>1. HalInit => HeapInv
  BY BlocksNone DEF HalInit, Init, HeapInv, HeapAccounted
<1>2. HeapInv /\ [HalNext]_halVars => HeapInv'
  <2>1. HeapInv /\ UNCHANGED vars => HeapInv'
    BY DEF vars, HeapInv, HeapAccounted
  <2> QED BY <2>1, HeapStep DEF HalNext, halVars
<1>3. HeapInv => HeapAccounted
  BY DEF HeapInv
<1> QED BY <1>1, <1>2, <1>3, PTL DEF HalSpec

-----------------------------------------------------------------------------
(* The lists *)

\* Concatenation is associative where it is needed.
LEMMA Push ==
    ASSUME NEW T, NEW a \in T, NEW s \in Seq(T)
    PROVE  /\ <<a>> \o s \in Seq(T) /\ Len(<<a>> \o s) = Len(s) + 1
           /\ (<<a>> \o s)[1] = a
           /\ \A n \in 2 .. Len(s) + 1 : (<<a>> \o s)[n] = s[n - 1]
OBVIOUS

\* One, two and three elements in front of a sequence.
Front1(a, s) == <<a>> \o s
Front2(a, b, s) == <<a, b>> \o s
Front3(a, b, c, s) == <<a, b, c>> \o s

\* Elements put in front one by one.
LEMMA Concat ==
    ASSUME NEW a, NEW b, NEW c, NEW s, IsSeq(s)
    PROVE  /\ Front1(a, Front1(b, s)) = Front2(a, b, s)
           /\ Front1(a, Front1(b, Front1(c, s))) = Front3(a, b, c, s)
<1>1. PICK S : s \in Seq(S)
  BY DEF IsSeq
<1> DEFINE T == S \cup {a, b, c}
           s1 == <<c>> \o s
           t1 == <<b>> \o s
           s2 == <<b>> \o s1
           t2 == <<a>> \o t1
           s3 == <<a>> \o s2
<1>2. s \in Seq(T) /\ a \in T /\ b \in T /\ c \in T /\ Len(s) \in Nat
  BY <1>1
<1>3. /\ <<a, b>> \o s \in Seq(T) /\ Len(<<a, b>> \o s) = Len(s) + 2
      /\ (<<a, b>> \o s)[1] = a /\ (<<a, b>> \o s)[2] = b
      /\ \A n \in 3 .. Len(s) + 2 : (<<a, b>> \o s)[n] = s[n - 2]
  BY <1>2
<1>4. /\ <<a, b, c>> \o s \in Seq(T) /\ Len(<<a, b, c>> \o s) = Len(s) + 3
      /\ (<<a, b, c>> \o s)[1] = a /\ (<<a, b, c>> \o s)[2] = b
      /\ (<<a, b, c>> \o s)[3] = c
      /\ \A n \in 4 .. Len(s) + 3 : (<<a, b, c>> \o s)[n] = s[n - 3]
  BY <1>2
<1> HIDE DEF T
<1>5. /\ t1 \in Seq(T) /\ Len(t1) = Len(s) + 1 /\ t1[1] = b
      /\ \A n \in 2 .. Len(s) + 1 : t1[n] = s[n - 1]
  BY <1>2, Push
<1>6. /\ s1 \in Seq(T) /\ Len(s1) = Len(s) + 1 /\ s1[1] = c
      /\ \A n \in 2 .. Len(s) + 1 : s1[n] = s[n - 1]
  BY <1>2, Push
<1> HIDE DEF s1, t1
<1>7. /\ t2 \in Seq(T) /\ Len(t2) = Len(t1) + 1 /\ t2[1] = a
      /\ \A n \in 2 .. Len(t1) + 1 : t2[n] = t1[n - 1]
  BY <1>2, <1>5, Push
<1>8. /\ s2 \in Seq(T) /\ Len(s2) = Len(s1) + 1 /\ s2[1] = b
      /\ \A n \in 2 .. Len(s1) + 1 : s2[n] = s1[n - 1]
  BY <1>2, <1>6, Push
<1> HIDE DEF s2, t2
<1>9. /\ s3 \in Seq(T) /\ Len(s3) = Len(s2) + 1 /\ s3[1] = a
      /\ \A n \in 2 .. Len(s2) + 1 : s3[n] = s2[n - 1]
  BY <1>2, <1>8, Push
<1> HIDE DEF s3
<1> DEFINE u2 == <<a, b>> \o s
           u3 == <<a, b, c>> \o s
<1>10. /\ u2 \in Seq(T) /\ Len(u2) = Len(s) + 2 /\ u2[1] = a /\ u2[2] = b
       /\ \A n \in 3 .. Len(s) + 2 : u2[n] = s[n - 2]
  BY <1>3 DEF T
<1>11. /\ u3 \in Seq(T) /\ Len(u3) = Len(s) + 3
       /\ u3[1] = a /\ u3[2] = b /\ u3[3] = c
       /\ \A n \in 4 .. Len(s) + 3 : u3[n] = s[n - 3]
  BY <1>4 DEF T
<1> HIDE DEF u2, u3
<1>12. Len(t2) = Len(u2) /\ \A n \in 1 .. Len(t2) : t2[n] = u2[n]
  <2>1. Len(t2) = Len(s) + 2 BY <1>2, <1>5, <1>7
  <2> SUFFICES ASSUME NEW n \in 1 .. Len(s) + 2 PROVE t2[n] = u2[n]
    BY <1>10, <2>1
  <2>2. CASE n = 1 BY <1>7, <1>10, <2>2
  <2>3. CASE n = 2
    <3>1. t2[2] = t1[1] BY <1>2, <1>5, <1>7
    <3> QED BY <1>5, <1>10, <2>3, <3>1
  <2>4. CASE n \in 3 .. Len(s) + 2
    <3>1. t2[n] = t1[n - 1] BY <1>2, <1>5, <1>7, <2>4
    <3>2. t1[n - 1] = s[n - 2] BY <1>2, <1>5, <2>4
    <3> QED BY <1>10, <2>4, <3>1, <3>2
  <2> QED BY <1>2, <2>2, <2>3, <2>4
<1>13. Len(s3) = Len(u3) /\ \A n \in 1 .. Len(s3) : s3[n] = u3[n]
  <2>1. Len(s3) = Len(s) + 3 /\ Len(s2) = Len(s) + 2 BY <1>2, <1>6, <1>8, <1>9
  <2> SUFFICES ASSUME NEW n \in 1 .. Len(s) + 3 PROVE s3[n] = u3[n]
    BY <1>11, <2>1
  <2>2. CASE n = 1 BY <1>9, <1>11, <2>2
  <2>3. CASE n = 2
    <3>1. s3[2] = s2[1] BY <1>2, <1>9, <2>1
    <3> QED BY <1>8, <1>11, <2>3, <3>1
  <2>4. CASE n = 3
    <3>1. s3[3] = s2[2] BY <1>2, <1>9, <2>1
    <3>2. s2[2] = s1[1] BY <1>2, <1>6, <1>8
    <3> QED BY <1>6, <1>11, <2>4, <3>1, <3>2
  <2>5. CASE n \in 4 .. Len(s) + 3
    <3>1. s3[n] = s2[n - 1] BY <1>2, <1>9, <2>1, <2>5
    <3>2. s2[n - 1] = s1[n - 2] BY <1>2, <1>6, <1>8, <2>5
    <3>3. s1[n - 2] = s[n - 3] BY <1>2, <1>6, <2>5
    <3> QED BY <1>11, <2>5, <3>1, <3>2, <3>3
  <2> QED BY <1>2, <2>2, <2>3, <2>4, <2>5
<1>14. t2 = u2 /\ s3 = u3
  BY <1>7, <1>9, <1>10, <1>11, <1>12, <1>13, SeqEqual
<1> QED BY <1>14 DEF s1, s2, s3, t1, t2, u2, u3, Front1, Front2, Front3

\* The options of a list with one more node.
LEMMA OptionsPush ==
    ASSUME NEW list, IsSeq(list), NEW node
    PROVE  /\ IsSeq(Options(list))
           /\ Options(<<node>> \o list) = <<node.opt>> \o Options(list)
<1>1. PICK S : list \in Seq(S)
  BY DEF IsSeq
<1> DEFINE O == {n.opt : n \in S} \cup {node.opt}
<1>2. Len(list) \in Nat /\ DOMAIN list = 1 .. Len(list)
  BY <1>1
<1>3. Options(list) \in Seq(O) /\ Len(Options(list)) = Len(list)
  <2>1. Options(list) \in [1 .. Len(list) -> O]
    BY <1>1, <1>2 DEF Options
  <2> QED BY <1>2, <2>1
<1>4. /\ <<node>> \o list \in Seq(S \cup {node})
      /\ Len(<<node>> \o list) = Len(list) + 1
      /\ (<<node>> \o list)[1] = node
      /\ \A n \in 2 .. Len(list) + 1 : (<<node>> \o list)[n] = list[n - 1]
  BY <1>1
<1>5. Options(<<node>> \o list) \in [1 .. Len(list) + 1 -> O]
  BY <1>1, <1>4 DEF Options
<1>6. Options(<<node>> \o list) \in Seq(O)
  BY <1>2, <1>5
<1>7. /\ <<node.opt>> \o Options(list) \in Seq(O)
      /\ Len(<<node.opt>> \o Options(list)) = Len(list) + 1
      /\ (<<node.opt>> \o Options(list))[1] = node.opt
      /\ \A n \in 2 .. Len(list) + 1 :
            (<<node.opt>> \o Options(list))[n] = Options(list)[n - 1]
  BY <1>2, <1>3
<1>8. \A n \in 1 .. Len(list) + 1 :
         Options(<<node>> \o list)[n] = (<<node.opt>> \o Options(list))[n]
  BY <1>2, <1>4, <1>7 DEF Options
<1>9. Len(Options(<<node>> \o list)) = Len(list) + 1
  BY <1>2, <1>5, <1>6
<1> QED BY <1>3, <1>6, <1>7, <1>8, <1>9, SeqEqual DEF IsSeq

Request(opt) == Node(opt, "null", <<>>)
Requests(list) == <<Request(24)>> \o (<<Request(23)>> \o (<<Request(5)>> \o list))

\* A node to send, with its value unless a strdup failed.
Sent(node, opt) == node.opt = opt /\ (starved \/ node.val # "null")

\* What has been put in front of the caller's lists at each option.
CallInv ==
    /\ pc \in 0 .. 8
    /\ pc = 8 => present
    /\ IsSeq(before.req) /\ IsSeq(before.send)
    /\ pc = 1 => req = before.req
    /\ pc = 2 => req = <<Request(5)>> \o before.req
    /\ pc = 3 => req = <<Request(23)>> \o (<<Request(5)>> \o before.req)
    /\ pc \in {4, 5, 6, 8} => req = Requests(before.req)
    /\ pc \in 1 .. 4 => send = before.send
    /\ pc = 5 => \E a : Sent(a, 25) /\ send = <<a>> \o before.send
    /\ pc \in {6, 8} => \E a, b : /\ Sent(a, 25) /\ Sent(b, 16)
                                  /\ send = <<b>> \o (<<a>> \o before.send)

\* Each option goes in front of those before it.
LEMMA CallStep == HeapInv /\ CallInv /\ Next => CallInv'
<1> SUFFICES ASSUME HeapInv, CallInv, Next PROVE CallInv'
  OBVIOUS
<1>o. /\ Order[1] = 5 /\ Order[2] = 23 /\ Order[3] = 24 /\ Order[4] = 25
      /\ Order[5] = 16 /\ LastOpt = 6 /\ Cleanup = 7 /\ Reading = 8 /\ Idle = 0
  BY DEF Order, LastOpt, Cleanup, Reading, Idle
<1>1. CASE Call
  BY <1>1, <1>o DEF Call, CallInv, HeapInv
<1>2. CASE CallOther \/ FreeRequests \/ FreeSends \/ FreeBoth
  BY <1>2, <1>o DEF CallOther, FreeRequests, FreeSends, FreeBoth, CallInv
<1>3. CASE AddRequest
  <2>1. CASE pc' = Cleanup
    BY <1>3, <2>1, <1>o DEF AddRequest, CallInv
  <2>2. CASE /\ req' = <<Node(Order[pc], "null", <<>>)>> \o req /\ pc' = pc + 1
             /\ UNCHANGED <<send, before>>
    <3>1. CASE pc = 1 BY <2>2, <3>1, <1>o DEF CallInv, Request
    <3>2. CASE pc = 2
      <4>1. req' = <<Request(23)>> \o (<<Request(5)>> \o before'.req)
        BY <2>2, <3>2, <1>o DEF CallInv, Request
      <4>2. send' = before'.send /\ pc' = 3
        BY <2>2, <3>2 DEF CallInv
      <4> QED BY <2>2, <4>1, <4>2 DEF CallInv
    <3>3. CASE pc = 3
      <4>1. req' = Requests(before'.req)
        BY <2>2, <3>3, <1>o DEF CallInv, Request, Requests
      <4>2. send' = before'.send /\ pc' = 4
        BY <2>2, <3>3 DEF CallInv
      <4> QED BY <2>2, <4>1, <4>2 DEF CallInv
    <3> QED BY <1>3, <3>1, <3>2, <3>3 DEF AddRequest
  <2> QED BY <1>3, <2>1, <2>2, <1>o DEF AddRequest, Proceed
<1>4. CASE AddSend
  <2>1. CASE pc' = Cleanup
    BY <1>4, <2>1, <1>o DEF AddSend, CallInv
  <2>2. ASSUME NEW node, node.opt = Order[pc], starved' \/ node.val # "null",
               send' = <<node>> \o send, pc' = pc + 1, UNCHANGED <<req, before>>,
               starved => starved'
        PROVE  CallInv'
    <3>1. CASE pc = 4
      <4>1. Sent(node, 25)' /\ send' = <<node>> \o before'.send
        BY <2>2, <3>1, <1>o DEF Sent, CallInv
      <4> QED BY <2>2, <3>1, <4>1 DEF CallInv
    <3>2. CASE pc = 5
      <4>1. PICK a : Sent(a, 25) /\ send = <<a>> \o before.send
        BY <3>2 DEF CallInv
      <4>2. /\ Sent(a, 25)' /\ Sent(node, 16)'
            /\ send' = <<node>> \o (<<a>> \o before'.send)
        BY <2>2, <3>2, <4>1, <1>o DEF Sent
      <4> QED BY <2>2, <3>2, <4>2 DEF CallInv
    <3> QED BY <1>4, <3>1, <3>2 DEF AddSend
  <2>3. CASE /\ send' = <<Node(Order[pc], "text", <<>>)>> \o send /\ Proceed
             /\ UNCHANGED <<starved, req, before>>
    <3>1. /\ Node(Order[pc], "text", <<>>).opt = Order[pc]
          /\ Node(Order[pc], "text", <<>>).val # "null"
      BY DEF Node
    <3>2. pc' = pc + 1
      BY <1>4, <2>3, <1>o DEF AddSend, Proceed
    <3> QED BY <2>2, <2>3, <3>1, <3>2
  <2>4. CASE /\ send' = <<Node(Order[pc], "null", <<>>)>> \o send /\ Proceed
             /\ starved' = TRUE /\ UNCHANGED <<req, before>>
    <3>1. Node(Order[pc], "null", <<>>).opt = Order[pc]
      BY DEF Node
    <3>2. pc' = pc + 1
      BY <1>4, <2>4, <1>o DEF AddSend, Proceed
    <3> QED BY <2>2, <2>4, <3>1, <3>2
  <2> QED BY <1>4, <2>1, <2>3, <2>4 DEF AddSend
<1>5. CASE AddOption17 \/ SkipOption17
  <2>1. pc' \in {Idle, Cleanup} /\ UNCHANGED before
    BY <1>5 DEF AddOption17, SkipOption17, Proceed
  <2> QED BY <2>1, <1>o DEF CallInv
<1>6. CASE OpenFile \/ ReadLine
  <2>1. /\ pc \in {6, 8} /\ pc' = 8 /\ present'
        /\ UNCHANGED <<req, send, before, starved>>
    BY <1>6, <1>o DEF OpenFile, ReadLine, CallInv, fileVars
  <2>2. PICK a, b : /\ Sent(a, 25) /\ Sent(b, 16)
                    /\ send = <<b>> \o (<<a>> \o before.send)
    BY <2>1 DEF CallInv
  <2>3. /\ Sent(a, 25)' /\ Sent(b, 16)'
        /\ send' = <<b>> \o (<<a>> \o before'.send)
    BY <2>1, <2>2 DEF Sent
  <2>4. \E c, d : /\ Sent(c, 25)' /\ Sent(d, 16)'
                 /\ send' = <<d>> \o (<<c>> \o before'.send)
    BY <2>3, Zenon
  <2>5. req' = Requests(before'.req) /\ IsSeq(before'.req) /\ IsSeq(before'.send)
    BY <2>1 DEF CallInv
  <2>6. /\ pc' \in 0 .. 8 /\ pc' # 5 /\ pc' \notin 1 .. 4
        /\ pc' # 1 /\ pc' # 2 /\ pc' # 3
    BY <2>1
  <2> QED BY <2>1, <2>4, <2>5, <2>6, Zenon DEF CallInv, Sent, Requests, Request, Node
<1> QED
  BY <1>1, <1>2, <1>3, <1>4, <1>5, <1>6 DEF Next, GetDhcpv6_Options

\* The options to request, in front of the list.
LEMMA RequestsOptions ==
    ASSUME NEW list, IsSeq(list)
    PROVE  Options(Requests(list)) = <<24, 23, 5>> \o Options(list)
<1> DEFINE l1 == <<Request(5)>> \o list
           l2 == <<Request(23)>> \o l1
<1>0. Request(5).opt = 5 /\ Request(23).opt = 23 /\ Request(24).opt = 24
  BY DEF Request, Node
<1>1. IsSeq(l1) /\ Options(l1) = <<5>> \o Options(list) /\ IsSeq(Options(list))
  BY <1>0, BlocksPush, OptionsPush
<1> HIDE DEF l1
<1>2. IsSeq(l2) /\ Options(l2) = <<23>> \o Options(l1)
  BY <1>0, <1>1, BlocksPush, OptionsPush
<1> HIDE DEF l2
<1>3. Options(<<Request(24)>> \o l2) = <<24>> \o Options(l2)
  BY <1>0, <1>2, OptionsPush
<1>4. Options(<<Request(24)>> \o l2) = <<24>> \o (<<23>> \o (<<5>> \o Options(list)))
  BY <1>1, <1>2, <1>3
<1> HIDE DEF l1
<1> DEFINE O == Options(list)
<1>5. IsSeq(O) BY <1>1
<1> HIDE DEF O
<1>6. <<24>> \o (<<23>> \o (<<5>> \o O)) = <<24, 23, 5>> \o O
  <2>1. Front1(24, Front1(23, Front1(5, O))) = Front3(24, 23, 5, O)
    BY <1>5, Concat
  <2> QED BY <2>1, Zenon DEF Front1, Front3
<1>7. Requests(list) = <<Request(24)>> \o l2
  BY DEF Requests, l1, l2
<1> QED BY <1>4, <1>6, <1>7 DEF O

\* The options to send: two, or three with option 17, in front of the list.
LEMMA SendsOptions ==
    ASSUME NEW list, IsSeq(list), NEW a, NEW b, NEW c
    PROVE  LET two   == <<b>> \o (<<a>> \o list)
               three == <<c>> \o two
           IN  /\ Options(two) = <<b.opt, a.opt>> \o Options(list)
               /\ Options(three) = Front3(c.opt, b.opt, a.opt, Options(list))
               /\ Len(two) = Len(list) + 2 /\ Len(three) = Len(list) + 3
               /\ Len(list) \in Nat
               /\ two[1] = b /\ two[2] = a
               /\ three[1] = c /\ three[2] = b /\ three[3] = a
<1> DEFINE l1 == <<a>> \o list
           l2 == <<b>> \o l1
           l3 == <<c>> \o l2
<1>0. PICK S : list \in Seq(S)
  BY DEF IsSeq
<1> DEFINE T == S \cup {a, b, c}
<1>1. list \in Seq(T) /\ a \in T /\ b \in T /\ c \in T /\ Len(list) \in Nat
  BY <1>0
<1> HIDE DEF T
<1>2. /\ IsSeq(l1) /\ Options(l1) = <<a.opt>> \o Options(list) /\ IsSeq(Options(list))
      /\ l1 \in Seq(T) /\ Len(l1) = Len(list) + 1 /\ l1[1] = a
  <2>1. IsSeq(l1) BY BlocksPush
  <2>2. Options(l1) = <<a.opt>> \o Options(list) /\ IsSeq(Options(list)) BY OptionsPush
  <2>3. l1 \in Seq(T) /\ Len(l1) = Len(list) + 1 /\ l1[1] = a BY <1>1, Push
  <2> QED BY <2>1, <2>2, <2>3
<1> HIDE DEF l1
<1>3. /\ IsSeq(l2) /\ Options(l2) = <<b.opt>> \o Options(l1)
      /\ l2 \in Seq(T) /\ Len(l2) = Len(l1) + 1 /\ l2[1] = b
      /\ \A n \in 2 .. Len(l1) + 1 : l2[n] = l1[n - 1]
  <2>1. IsSeq(l2) BY <1>2, BlocksPush
  <2>2. Options(l2) = <<b.opt>> \o Options(l1) BY <1>2, OptionsPush
  <2>3. /\ l2 \in Seq(T) /\ Len(l2) = Len(l1) + 1 /\ l2[1] = b
        /\ \A n \in 2 .. Len(l1) + 1 : l2[n] = l1[n - 1]
    BY <1>1, <1>2, Push
  <2> QED BY <2>1, <2>2, <2>3
<1> HIDE DEF l2
<1>4. /\ Options(l3) = <<c.opt>> \o Options(l2)
      /\ Len(l3) = Len(l2) + 1 /\ l3[1] = c
      /\ \A n \in 2 .. Len(l2) + 1 : l3[n] = l2[n - 1]
  <2>1. Options(l3) = <<c.opt>> \o Options(l2) BY <1>3, OptionsPush
  <2>2. /\ Len(l3) = Len(l2) + 1 /\ l3[1] = c
        /\ \A n \in 2 .. Len(l2) + 1 : l3[n] = l2[n - 1]
    BY <1>1, <1>3, Push
  <2> QED BY <2>1, <2>2
<1> HIDE DEF l3
<1>5. l2[2] = a
  BY <1>1, <1>2, <1>3
<1>6. l3[2] = b /\ l3[3] = a
  <2>1. l3[2] = l2[1] /\ l3[3] = l2[2]
    BY <1>1, <1>2, <1>3, <1>4
  <2> QED BY <1>3, <1>5, <2>1
<1>7. Len(l2) = Len(list) + 2 /\ Len(l3) = Len(list) + 3
  BY <1>1, <1>2, <1>3, <1>4
<1> DEFINE O == Options(list)
           ao == a.opt
           bo == b.opt
           co == c.opt
<1>8. IsSeq(O) /\ Options(l2) = <<bo>> \o (<<ao>> \o O)
      /\ Options(l3) = <<co>> \o (<<bo>> \o (<<ao>> \o O))
  BY <1>2, <1>3, <1>4
<1> HIDE DEF O, ao, bo, co
<1>9. /\ <<bo>> \o (<<ao>> \o O) = <<bo, ao>> \o O
      /\ <<co>> \o (<<bo>> \o (<<ao>> \o O)) = <<co, bo, ao>> \o O
  <2>1. IsSeq(O) BY <1>8
  <2>2. Front1(bo, Front1(ao, O)) = Front2(bo, ao, O)
    BY <2>1, Concat
  <2>3. Front1(co, Front1(bo, Front1(ao, O))) = Front3(co, bo, ao, O)
    BY <2>1, Concat
  <2> QED BY <2>2, <2>3, Zenon DEF Front1, Front2, Front3
<1>10. /\ Options(l2) = <<b.opt, a.opt>> \o Options(list)
       /\ Options(l3) = Front3(c.opt, b.opt, a.opt, Options(list))
  BY <1>8, <1>9 DEF O, ao, bo, co, Front3
<1> QED
  BY <1>1, <1>3, <1>4, <1>5, <1>6, <1>7, <1>10 DEF l1, l2, l3

\* What AllOrNothing says of a step.
EndsWell ==
    pc # Idle /\ pc' = Idle =>
        \/ /\ ret' = "OK"
           /\ Options(req') = <<24, 23, 5>> \o Options(before.req)
           /\ Options(send') = (IF present THEN <<17, 16, 25>> ELSE <<16, 25>>)
                                  \o Options(before.send)
           /\ starved \/ \A i \in 1 .. Len(send') - Len(before.send) :
                             send'[i].val # "null"
        \/ ret' = "ERR" /\ req' = <<>> /\ send' = <<>>

\* How a call ends.
LEMMA EndStep == CallInv /\ Next => EndsWell
<1> SUFFICES ASSUME CallInv, Next, pc # Idle, pc' = Idle PROVE EndsWell
  BY DEF EndsWell
<1>o. LastOpt = 6 /\ Cleanup = 7 /\ Reading = 8 /\ Idle = 0
  BY DEF Order, LastOpt, Cleanup, Reading, Idle
<1>1. CASE FreeBoth
  BY <1>1 DEF FreeBoth, EndsWell
<1>2. CASE AddOption17 \/ SkipOption17
  <2>1. pc \in {6, 8} /\ ret' = "OK" /\ req' = req
    BY <1>2, <1>o DEF AddOption17, SkipOption17, Proceed
  <2>2. PICK a, b : /\ Sent(a, 25) /\ Sent(b, 16)
                    /\ send = <<b>> \o (<<a>> \o before.send)
    BY <2>1 DEF CallInv
  <2>3. IsSeq(before.req) /\ IsSeq(before.send)
    BY DEF CallInv
  <2>4. Options(req') = <<24, 23, 5>> \o Options(before.req)
    BY <2>1, <2>3, RequestsOptions DEF CallInv
  <2>5. CASE SkipOption17
    <3>1. send' = send /\ ~present
      BY <2>5 DEF SkipOption17
    <3>2. Options(send') = <<16, 25>> \o Options(before.send)
      <4>1. Options(send') = <<b.opt, a.opt>> \o Options(before.send)
        BY <2>2, <2>3, <3>1, SendsOptions
      <4>2. b.opt = 16 /\ a.opt = 25
        BY <2>2 DEF Sent
      <4> QED BY <4>1, <4>2
    <3>3. /\ Len(send') = Len(before.send) + 2 /\ Len(before.send) \in Nat
          /\ send'[1] = b /\ send'[2] = a
      BY <2>2, <2>3, <3>1, SendsOptions
    <3>4. starved \/ \A i \in 1 .. Len(send') - Len(before.send) : send'[i].val # "null"
      <4>1. Len(send') - Len(before.send) = 2 BY <3>3
      <4>2. \A i \in 1 .. 2 : i = 1 \/ i = 2 OBVIOUS
      <4> QED BY <2>2, <3>3, <4>1, <4>2 DEF Sent
    <3> QED BY <2>1, <2>4, <3>1, <3>2, <3>4 DEF EndsWell
  <2>6. CASE AddOption17
    <3>1. PICK c : send' = <<c>> \o send /\ c.opt = 17 /\ c.val # "null"
      <4> DEFINE c == Node(17, "subs", appended)
      <4>1. send' = <<c>> \o send
        BY <1>o, <2>6 DEF AddOption17
      <4>2. c.opt = 17 /\ c.val # "null"
        BY DEF Node
      <4> QED BY <4>1, <4>2
    <3>2. present
      BY <1>o, <2>6 DEF AddOption17, CallInv
    <3>3. Options(send') = <<17, 16, 25>> \o Options(before.send)
      <4>1. send' = <<c>> \o (<<b>> \o (<<a>> \o before.send))
        BY <2>2, <3>1
      <4>2. Options(send') = Front3(c.opt, b.opt, a.opt, Options(before.send))
        <5> DEFINE old == before.send
        <5>1. IsSeq(old) BY <2>3
        <5> HIDE DEF old
        <5>2. Options(<<c>> \o (<<b>> \o (<<a>> \o old))) =
                Front3(c.opt, b.opt, a.opt, Options(old))
          BY <5>1, SendsOptions, ZenonT(60)
        <5> QED BY <4>1, <5>2 DEF old
      <4>3. b.opt = 16 /\ a.opt = 25
        BY <2>2 DEF Sent
      <4>4. Options(send') = Front3(17, 16, 25, Options(before.send))
        BY <3>1, <4>2, <4>3
      <4> QED BY <4>4 DEF Front3
    <3>4. /\ Len(send') = Len(before.send) + 3 /\ Len(before.send) \in Nat
          /\ send'[1] = c /\ send'[2] = b /\ send'[3] = a
      BY <2>2, <2>3, <3>1, SendsOptions
    <3>5. starved \/ \A i \in 1 .. Len(send') - Len(before.send) : send'[i].val # "null"
      <4>1. Len(send') - Len(before.send) = 3 BY <3>4
      <4>2. \A i \in 1 .. 3 : i = 1 \/ i = 2 \/ i = 3 OBVIOUS
      <4> QED BY <2>2, <3>1, <3>4, <4>1, <4>2 DEF Sent
    <3> QED BY <2>1, <2>4, <3>2, <3>3, <3>5 DEF EndsWell
  <2> QED BY <1>2, <2>5, <2>6
<1>3. ASSUME ~FreeBoth, ~AddOption17, ~SkipOption17 PROVE FALSE
  BY <1>3, <1>o
  DEF Next, Call, CallOther, FreeRequests, FreeSends, GetDhcpv6_Options, AddRequest,
      AddSend, OpenFile, ReadLine, Proceed
<1> QED BY <1>1, <1>2, <1>3

\* A call ends with all its options in the lists, or with two empty lists.
THEOREM AllOptionsOrNone == HalSpec => AllOrNothing
<1>1. HalInit => HeapInv /\ CallInv
  <2>1. HalInit => HeapInv
    BY BlocksNone DEF HalInit, Init, HeapInv, HeapAccounted
  <2>2. HalInit => CallInv
    BY BlocksNone DEF HalInit, Init, CallInv, Idle
  <2> QED BY <2>1, <2>2
<1>2. HeapInv /\ CallInv /\ [HalNext]_halVars => HeapInv' /\ CallInv'
  <2>1. HeapInv /\ UNCHANGED vars => HeapInv'
    BY DEF vars, HeapInv, HeapAccounted
  <2>2. ASSUME CallInv, UNCHANGED vars PROVE CallInv'
    <3>1. UNCHANGED <<present, pc, before, req, send, starved>>
      BY <2>2 DEF vars, fileVars
    <3> QED BY <2>2, <3>1, Zenon DEF CallInv, Sent
  <2> QED BY <2>1, <2>2, HeapStep, CallStep DEF HalNext, halVars
<1>3. CallInv /\ [HalNext]_halVars => [EndsWell]_vars
  BY EndStep DEF HalNext, halVars
<1>4. HalSpec => [][EndsWell]_vars
  BY <1>1, <1>2, <1>3, PTL DEF HalSpec
<1> QED BY <1>4, PTL DEF AllOrNothing, EndsWell

-----------------------------------------------------------------------------
(* Option 17 *)

\* A line and its words.
LEMMA LineFacts ==
    ASSUME NEW l \in Lines
    PROVE  /\ Len(l) \in 0 .. 3
           /\ Len(l) >= 1 => l[1] \in Modes
           /\ Len(l) >= 2 => l[2] \in Subops
           /\ Len(l) >= 3 => l[3] \in Sizes
<1>1. CASE l = <<>> BY <1>1
<1>2. CASE l \in {<<m>> : m \in Modes} BY <1>2
<1>3. CASE l \in Modes \X Subops
  <2>1. PICK m \in Modes, s \in Subops : l = <<m, s>>
    BY <1>3
  <2> QED BY <2>1
<1>4. CASE l \in Words BY <1>4 DEF Words
<1> QED BY <1>1, <1>2, <1>3, <1>4 DEF Lines

\* Whatever the line, sscanf leaves three words.
LEMMA ScannedType ==
    ASSUME NEW words \in Words, NEW l \in Lines
    PROVE  Scanned(words, l) \in Words /\ Scanned(words, l)[3] \in Sizes
<1>1. /\ words[1] \in Modes /\ words[2] \in Subops /\ words[3] \in Sizes
  BY DEF Words
<1> DEFINE s == Scanned(words, l)
<1>2. s[1] \in Modes /\ s[2] \in Subops /\ s[3] \in Sizes
  BY <1>1, LineFacts DEF Scanned
<1>3. s = <<s[1], s[2], s[3]>>
  BY DEF Scanned
<1> QED BY <1>2, <1>3 DEF Words

\* The next line is there and is a line.
LEMMA NextLine ==
    ASSUME NEW f \in Files, NEW n \in 0 .. Len(f), n < Len(f)
    PROVE  f \in Seq(Lines) /\ Len(f) \in Nat /\ n + 1 \in 1 .. Len(f) /\ f[n + 1] \in Lines
<1>1. f \in Seq(Lines)
  BY FileAssumption
<1> QED BY <1>1

\* Every step of a call keeps the types.
LEMMA OptionTypeStep == HeapInv /\ TypeOK /\ Next => TypeOK'
<1> SUFFICES ASSUME HeapInv, TypeOK, Next PROVE TypeOK'
  OBVIOUS
<1>1. live' \in Nat
  <2>1. HeapInv' BY HeapStep
  <2>2. Blocks(req') \in Nat /\ Blocks(send') \in Nat
    BY <2>1, BlocksType DEF HeapInv
  <2>3. live' \in Int /\ Blocks(req') + Blocks(send') <= live'
    BY <2>1 DEF HeapInv, HeapAccounted
  <2> QED BY <2>2, <2>3
<1>o. LastOpt = 6 /\ Cleanup = 7 /\ Reading = 8 /\ Idle = 0
  BY DEF Order, LastOpt, Cleanup, Reading, Idle
<1>2. present' \in BOOLEAN /\ file' \in Files /\ file' = file
  <2>1. UNCHANGED fileVars
    BY DEF Next, Call, CallOther, FreeRequests, FreeSends, GetDhcpv6_Options, AddRequest,
           AddSend, OpenFile, ReadLine, AddOption17, SkipOption17, FreeBoth
  <2> QED BY <2>1 DEF fileVars, TypeOK
<1>3. starved' \in BOOLEAN
  BY DEF Next, Call, CallOther, FreeRequests, FreeSends, GetDhcpv6_Options, AddRequest,
         AddSend, OpenFile, ReadLine, AddOption17, SkipOption17, FreeBoth, TypeOK
<1>4. pc' \in 0 .. 8
  <2>1. CASE AddRequest \/ AddSend \/ SkipOption17
    BY <1>o, <2>1 DEF AddRequest, AddSend, SkipOption17, Proceed
  <2>2. CASE Call \/ CallOther \/ FreeRequests \/ FreeSends
    BY <1>o, <2>2 DEF Call, CallOther, FreeRequests, FreeSends
  <2>3. CASE OpenFile \/ ReadLine \/ AddOption17 \/ FreeBoth
    BY <1>o, <2>3 DEF OpenFile, ReadLine, AddOption17, FreeBoth
  <2> QED BY <2>1, <2>2, <2>3 DEF Next, GetDhcpv6_Options
<1>5. ret' \in {"none", "OK", "ERR"}
  BY DEF Next, Call, CallOther, FreeRequests, FreeSends, GetDhcpv6_Options, AddRequest,
         AddSend, OpenFile, ReadLine, AddOption17, SkipOption17, FreeBoth, TypeOK, Proceed
<1>6. faults' \in 0 .. MaxFaults
  <2>1. faults' = faults \/ Fails
    BY DEF Next, Call, CallOther, FreeRequests, FreeSends, GetDhcpv6_Options, AddRequest,
           AddSend, OpenFile, ReadLine, AddOption17, SkipOption17, FreeBoth
  <2> QED BY <2>1, BoundAssumption DEF Fails, TypeOK
<1>7. /\ linesRead' \in 0 .. Len(file') /\ scanned' \in Words
      /\ appended' \in Seq(Sizes) /\ buffLen' \in Nat
  <2>0. Len(file) \in Nat
    BY FileAssumption DEF TypeOK
  <2>1. CASE UNCHANGED scanVars
    BY <1>2, <2>1 DEF scanVars, TypeOK
  <2>2. CASE OpenFile
    BY <1>2, <2>2, GarbageAssumption DEF OpenFile, TypeOK
  <2>3. CASE ReadLine
    <3>1. file[linesRead + 1] \in Lines
      BY <2>3, NextLine DEF ReadLine, TypeOK
    <3>2. scanned' \in Words /\ scanned'[3] \in Sizes
      BY <2>3, <3>1, ScannedType DEF ReadLine, TypeOK
    <3>3. linesRead' \in 0 .. Len(file')
      BY <1>2, <2>0, <2>3 DEF ReadLine, TypeOK
    <3>4. SubLen(scanned'[3]) \in Nat
      BY <3>2 DEF SubLen, Sizes
    <3>5. buffLen' \in Nat
      BY <2>3, <3>4 DEF ReadLine, TypeOK
    <3>6. appended' \in Seq(Sizes)
      <4>1. appended' \in {appended, Append(appended, scanned'[3])}
        BY <2>3 DEF ReadLine
      <4>2. appended \in Seq(Sizes)
        BY DEF TypeOK
      <4> QED BY <3>2, <4>1, <4>2, AppendProperties
    <3> QED BY <3>2, <3>3, <3>5, <3>6
  <2>4. CASE NoScan
    <3>1. NoWords \in Words
      BY DEF NoWords, Words, Modes, Subops, Sizes
    <3> QED BY <1>2, <2>0, <2>4, <3>1 DEF NoScan
  <2> QED
    BY <2>1, <2>2, <2>3, <2>4
    DEF Next, Call, CallOther, FreeRequests, FreeSends, GetDhcpv6_Options, AddRequest,
        AddSend, AddOption17, SkipOption17, FreeBoth
<1> QED BY <1>o, <1>1, <1>2, <1>3, <1>4, <1>5, <1>6, <1>7 DEF TypeOK

\* Types, for any vendor option file.
OptionTypeInv == HeapInv /\ TypeOK

\* The lists start empty and typed.
LEMMA OptionTypeInit == HalInit => OptionTypeInv
<1> SUFFICES ASSUME HalInit PROVE OptionTypeInv
  OBVIOUS
<1>1. HeapInv
  BY BlocksNone DEF HalInit, Init, HeapInv, HeapAccounted
<1>2. NoWords \in Words
  BY DEF NoWords, Words, Modes, Subops, Sizes
<1>3. file \in Seq(Lines) /\ Len(file) \in Nat
  BY FileAssumption DEF HalInit, Init
<1>4. 0 \in 0 .. Reading
  BY DEF Reading, LastOpt, Order
<1>5. TypeOK
  <2>1. Init BY DEF HalInit
  <2>2. 0 \in 0 .. Len(file) /\ 0 \in 0 .. MaxFaults /\ 0 \in Nat /\ <<>> \in Seq(Sizes)
    BY <1>3, BoundAssumption
  <2>3. starved \in BOOLEAN /\ present \in BOOLEAN
    BY <2>1 DEF Init
  <2> QED BY <1>2, <1>4, <2>1, <2>2, <2>3 DEF Init, TypeOK, Idle
<1> QED BY <1>1, <1>5 DEF OptionTypeInv

\* No step of any client disturbs the types of the option call.
LEMMA OptionTypeInvStep == OptionTypeInv /\ [HalNext]_halVars => OptionTypeInv'
<1>1. HeapInv /\ UNCHANGED vars => HeapInv'
  BY DEF vars, HeapInv, HeapAccounted
<1>2. TypeOK /\ UNCHANGED vars => TypeOK'
  BY DEF vars, fileVars, scanVars, TypeOK
<1> QED BY <1>1, <1>2, HeapStep, OptionTypeStep DEF OptionTypeInv, HalNext, halVars

\* The types of a call, whatever the file holds and whichever allocation
\* fails: at most one value per line, and never more frees than blocks.
THEOREM OptionTypes == HalSpec => []TypeOK
<1>1. OptionTypeInv => TypeOK
  BY DEF OptionTypeInv
<1> QED BY <1>1, OptionTypeInit, OptionTypeInvStep, PTL DEF HalSpec

\* What the file says, as functions of the file f: the line that counts for
\* word w of line n, the word, and the lines whose values are wanted.
Latest(f, m, n, w) ==
    m \in 1 .. n /\ w <= Len(f[m]) /\ \A k \in m + 1 .. n : Len(f[k]) < w

WordOf(f, n, w) ==
    f[CHOOSE m \in 1 .. n : w <= Len(f[m]) /\ \A k \in m + 1 .. n : Len(f[k]) < w][w]

IsWanted(f, m) ==
    \/ WordOf(f, m, 2) = "SUBOPTION2"
    \/ WordOf(f, m, 2) = "SUBOPTION3" /\ WordOf(f, m, 1) = "ETHWAN"

Picks(f, values, n, from) ==
    /\ from \in [DOMAIN values -> 1 .. n]
    /\ \A j, k \in DOMAIN values : j < k => from[j] < from[k]
    /\ {from[k] : k \in DOMAIN values} = {m \in 1 .. n : IsWanted(f, m)}
    /\ \A k \in DOMAIN values : values[k] = WordOf(f, from[k], 3)

\* These are what the property says.
LEMMA ValuesAre ==
    ASSUME NEW values, NEW n, NEW from, Picks(file, values, n, from)
    PROVE  ValuesOf(values, n)
<1>1. {from[k] : k \in DOMAIN values} = Wanted(n)
  BY Zenon DEF Picks, IsWanted, WordOf, Wanted, WordIn
<1>2. \A k \in DOMAIN values : values[k] = WordIn(from[k], 3)
  BY Zenon DEF Picks, WordOf, WordIn
<1> QED BY <1>1, <1>2, Zenon DEF Picks, ValuesOf

\* The latest line with a word w is the one that counts.
LEMMA LatestCounts ==
    ASSUME NEW f \in Seq(Lines), NEW n \in 1 .. Len(f), NEW w \in 1 .. 3, NEW m,
           Latest(f, m, n, w)
    PROVE  WordOf(f, n, w) = f[m][w]
<1> DEFINE P(x) == w <= Len(f[x]) /\ \A k \in x + 1 .. n : Len(f[k]) < w
<1>1. m \in 1 .. n /\ P(m)
  BY DEF Latest
<1>2. ASSUME NEW x \in 1 .. n, P(x) PROVE x = m
  <2>0. \A y \in 1 .. n : f[y] \in Lines
    OBVIOUS
  <2>1. Len(f[x]) \in Nat /\ Len(f[m]) \in Nat
    BY <1>1, <1>2, <2>0, LineFacts
  <2>2. ~(x < m)
    BY <1>1, <1>2, <2>1
  <2>3. ~(m < x)
    BY <1>1, <1>2, <2>1
  <2> QED BY <1>1, <1>2, <2>2, <2>3
<1> HIDE DEF P
<1>3. (CHOOSE x \in 1 .. n : P(x)) = m
  BY <1>1, <1>2, Zenon
<1> QED BY <1>3 DEF WordOf, P

\* A word that was scanned is the one that counts in line n.
Holds(f, n, words, w) == \E m : Latest(f, m, n, w) /\ words[w] = f[m][w]

\* One more line: the words that sscanf leaves are those that count.
LEMMA LatestStep ==
    ASSUME NEW f \in Seq(Lines), NEW n \in Nat, n + 1 <= Len(f), NEW words,
           NEW w \in 1 .. 3, n = 0 => Len(f[1]) = 3,
           n > 0 => Holds(f, n, words, w)
    PROVE  Holds(f, n + 1, Scanned(words, f[n + 1]), w)
<1>0. \A y \in 1 .. Len(f) : f[y] \in Lines
  OBVIOUS
<1>1. f[n + 1] \in Lines /\ Len(f[n + 1]) \in 0 .. 3
  BY <1>0, LineFacts
<1>2. CASE w <= Len(f[n + 1])
  <2>1. Latest(f, n + 1, n + 1, w)
    BY <1>2 DEF Latest
  <2>2. Scanned(words, f[n + 1])[w] = f[n + 1][w]
    BY <1>2 DEF Scanned
  <2> QED BY <2>1, <2>2 DEF Holds
<1>3. CASE ~(w <= Len(f[n + 1]))
  <2>0. n # 0
    <3> SUFFICES ASSUME n = 0 PROVE FALSE
      OBVIOUS
    <3>1. n + 1 = 1 /\ Len(f[1]) = 3
      OBVIOUS
    <3>2. Len(f[n + 1]) = 3
      BY <3>1
    <3> QED BY <1>3, <3>2
  <2>1. n > 0 /\ Len(f[n + 1]) < w
    <3> DEFINE len == Len(f[n + 1])
    <3>1. len \in 0 .. 3 /\ ~(w <= len)
      BY <1>1, <1>3
    <3> HIDE DEF len
    <3>2. len < w
      BY <3>1
    <3> QED BY <2>0, <3>2 DEF len
  <2>2. PICK m : Latest(f, m, n, w) /\ words[w] = f[m][w]
    BY <2>1 DEF Holds
  <2>3. Latest(f, m, n + 1, w)
    BY <2>1, <2>2 DEF Latest
  <2>4. Scanned(words, f[n + 1])[w] = words[w]
    BY <1>3 DEF Scanned
  <2> QED BY <2>2, <2>3, <2>4 DEF Holds
<1> QED BY <1>2, <1>3

\* No line, no value.
LEMMA PicksNone == ASSUME NEW f PROVE \E from : Picks(f, <<>>, 0, from)
<1> DEFINE none == [k \in {} |-> 1]
<1>1. none \in [DOMAIN <<>> -> 1 .. 0]
  OBVIOUS
<1>2. {none[k] : k \in DOMAIN <<>>} = {} /\ {m \in 1 .. 0 : IsWanted(f, m)} = {}
  OBVIOUS
<1> HIDE DEF none
<1>3. Picks(f, <<>>, 0, none)
  BY <1>1, <1>2 DEF Picks
<1> QED BY <1>3

\* One more line: a wanted value goes to the end, another one leaves the
\* values alone.
LEMMA PicksStep ==
    ASSUME NEW f, NEW n \in Nat, NEW values \in Seq(Sizes), NEW from,
           Picks(f, values, n, from)
    PROVE  /\ IsWanted(f, n + 1) /\ WordOf(f, n + 1, 3) \in Sizes =>
                \E new : Picks(f, Append(values, WordOf(f, n + 1, 3)), n + 1, new)
           /\ ~IsWanted(f, n + 1) => Picks(f, values, n + 1, from)
<1>1. /\ from \in [DOMAIN values -> 1 .. n]
      /\ \A j, k \in DOMAIN values : j < k => from[j] < from[k]
      /\ {from[k] : k \in DOMAIN values} = {m \in 1 .. n : IsWanted(f, m)}
      /\ \A k \in DOMAIN values : values[k] = WordOf(f, from[k], 3)
      /\ DOMAIN values = 1 .. Len(values) /\ Len(values) \in Nat
  BY DEF Picks
<1>2. ASSUME IsWanted(f, n + 1), WordOf(f, n + 1, 3) \in Sizes
      PROVE  \E new : Picks(f, Append(values, WordOf(f, n + 1, 3)), n + 1, new)
  <2> DEFINE v == WordOf(f, n + 1, 3)
             longer == Append(values, v)
             end == Len(values) + 1
             new == [k \in 1 .. end |-> IF k = end THEN n + 1 ELSE from[k]]
  <2>1. /\ DOMAIN longer = 1 .. end /\ longer[end] = v
        /\ \A k \in 1 .. Len(values) : longer[k] = values[k]
    <3>1. v \in Sizes BY <1>2
    <3> HIDE DEF v
    <3> QED BY <3>1, AppendProperties
  <2>2. new \in [DOMAIN longer -> 1 .. n + 1]
    BY <1>1, <2>1
  <2>3. ASSUME NEW j \in DOMAIN longer, NEW k \in DOMAIN longer, j < k
        PROVE  new[j] < new[k]
    <3>1. j \in DOMAIN values /\ new[j] = from[j] /\ from[j] \in 1 .. n
      BY <1>1, <2>1, <2>3
    <3>2. CASE k = end
      BY <1>1, <2>1, <3>1, <3>2
    <3>3. CASE k # end
      BY <1>1, <2>1, <2>3, <3>1, <3>3
    <3> QED BY <3>2, <3>3
  <2>4. {new[k] : k \in DOMAIN longer} = {m \in 1 .. n + 1 : IsWanted(f, m)}
    <3>1. ASSUME NEW k \in DOMAIN longer PROVE new[k] \in 1 .. n + 1 /\ IsWanted(f, new[k])
      <4>1. CASE k = end
        BY <1>2, <2>1, <4>1
      <4>2. CASE k # end
        <5>1. k \in DOMAIN values /\ new[k] = from[k]
          BY <1>1, <2>1, <4>2
        <5>2. from[k] \in {m \in 1 .. n : IsWanted(f, m)}
          BY <1>1, <5>1
        <5> QED BY <5>1, <5>2
      <4> QED BY <4>1, <4>2
    <3>2. ASSUME NEW m \in 1 .. n + 1, IsWanted(f, m)
          PROVE  \E k \in DOMAIN longer : new[k] = m
      <4>1. CASE m = n + 1
        <5>1. end \in DOMAIN longer /\ new[end] = n + 1
          BY <1>1, <2>1
        <5> QED BY <4>1, <5>1
      <4>2. CASE m # n + 1
        <5>1. m \in {x \in 1 .. n : IsWanted(f, x)}
          BY <3>2, <4>2
        <5>2. PICK k \in DOMAIN values : from[k] = m
          BY <1>1, <5>1
        <5>3. k \in DOMAIN longer /\ new[k] = from[k]
          BY <1>1, <2>1, <5>2
        <5> QED BY <5>2, <5>3
      <4> QED BY <4>1, <4>2
    <3> HIDE DEF new, longer
    <3> QED BY <3>1, <3>2
  <2>5. \A k \in DOMAIN longer : longer[k] = WordOf(f, new[k], 3)
    <3> SUFFICES ASSUME NEW k \in DOMAIN longer PROVE longer[k] = WordOf(f, new[k], 3)
      OBVIOUS
    <3>1. CASE k = end
      <4>1. new[k] = n + 1 BY <2>1, <3>1
      <4> QED BY <2>1, <3>1, <4>1
    <3>2. CASE k # end
      <4>1. k \in DOMAIN values /\ new[k] = from[k]
        BY <1>1, <2>1, <3>2
      <4>2. longer[k] = values[k]
        BY <1>1, <2>1, <4>1
      <4> QED BY <1>1, <4>1, <4>2
    <3> QED BY <3>1, <3>2
  <2> HIDE DEF new, longer
  <2>6. Picks(f, longer, n + 1, new)
    BY <2>2, <2>3, <2>4, <2>5 DEF Picks
  <2> QED BY <2>6 DEF longer
<1>3. ASSUME ~IsWanted(f, n + 1) PROVE Picks(f, values, n + 1, from)
  <2>1. {m \in 1 .. n + 1 : IsWanted(f, m)} = {m \in 1 .. n : IsWanted(f, m)}
    BY <1>3
  <2>2. from \in [DOMAIN values -> 1 .. n + 1]
    BY <1>1
  <2> QED BY <1>1, <2>1, <2>2 DEF Picks
<1> QED BY <1>2, <1>3

\* The first line is complete, if there is one.
Complete(f) == f = <<>> \/ Len(f[1]) = 3

\* The nodes of option 17 hold the values of the whole file.
SubsGood(f, list) ==
    \A i \in DOMAIN list :
        list[i].val = "subs" => \E from : Picks(f, list[i].subs, Len(f), from)

\* A node in front leaves the others as they are.
LEMMA SubsPush ==
    ASSUME NEW f, NEW list, IsSeq(list), SubsGood(f, list), NEW node,
           node.val = "subs" => \E from : Picks(f, node.subs, Len(f), from)
    PROVE  SubsGood(f, <<node>> \o list)
<1>0. PICK S : list \in Seq(S)
  BY DEF IsSeq
<1> DEFINE T == S \cup {node}
           new == <<node>> \o list
<1>1. list \in Seq(T) /\ node \in T /\ Len(list) \in Nat
  BY <1>0
<1> HIDE DEF T
<1>2. /\ new \in Seq(T) /\ Len(new) = Len(list) + 1 /\ new[1] = node
      /\ \A n \in 2 .. Len(list) + 1 : new[n] = list[n - 1]
  BY <1>1, Push
<1> HIDE DEF new
<1>3. ASSUME NEW i \in DOMAIN new, new[i].val = "subs"
      PROVE  \E from : Picks(f, new[i].subs, Len(f), from)
  <2>1. CASE i = 1
    BY <1>2, <1>3, <2>1
  <2>2. CASE i # 1
    <3>1. i - 1 \in DOMAIN list /\ new[i] = list[i - 1]
      BY <1>1, <1>2, <1>3, <2>2
    <3> QED BY <1>3, <3>1 DEF SubsGood
  <2> QED BY <2>1, <2>2
<1> QED BY <1>3 DEF SubsGood, new

\* While the file is read, with n lines behind: the words are those that
\* count in line n, and buff holds the values of the first n lines.
ScanInv ==
    /\ pc # Reading => linesRead = 0 /\ appended = <<>> /\ buffLen = 0
    /\ buffLen <= 22 + 134 * linesRead
    /\ Complete(file) =>
         /\ linesRead > 0 => \A w \in 1 .. 3 : Holds(file, linesRead, scanned, w)
         /\ \E from : Picks(file, appended, linesRead, from)
         /\ SubsGood(file, send)

\* One turn of the loop.
LEMMA ReadLineStep == OptionTypeInv /\ ScanInv /\ ReadLine => ScanInv'
<1> SUFFICES ASSUME OptionTypeInv, ScanInv, ReadLine PROVE ScanInv'
  OBVIOUS
<1> DEFINE n == linesRead
           line == file[linesRead + 1]
<1>1. /\ file \in Seq(Lines) /\ n \in Nat /\ n + 1 <= Len(file) /\ line \in Lines
      /\ Len(file) \in Nat /\ n + 1 \in 1 .. Len(file)
      /\ scanned \in Words /\ appended \in Seq(Sizes) /\ buffLen \in Nat
  <2>1. file \in Files /\ n \in 0 .. Len(file) /\ n < Len(file)
    BY DEF OptionTypeInv, TypeOK, ReadLine
  <2>2. file \in Seq(Lines) /\ Len(file) \in Nat /\ n + 1 \in 1 .. Len(file)
        /\ line \in Lines
    BY <2>1, NextLine
  <2> QED BY <2>1, <2>2 DEF OptionTypeInv, TypeOK
<1>2. /\ scanned' = Scanned(scanned, line) /\ linesRead' = n + 1
      /\ pc = Reading /\ pc' = pc /\ file' = file /\ send' = send
  BY DEF ReadLine, fileVars
<1>3. scanned' \in Words /\ scanned'[3] \in Sizes
  BY <1>1, <1>2, ScannedType
<1>4. /\ Chosen(scanned') => /\ appended' = Append(appended, scanned'[3])
                             /\ buffLen' = buffLen + SubLen(scanned'[3])
      /\ ~Chosen(scanned') => appended' = appended /\ buffLen' = buffLen
  BY DEF ReadLine
<1>5. buffLen' <= 22 + 134 * linesRead'
  <2>1. SubLen(scanned'[3]) \in 0 .. 134
    BY <1>3 DEF SubLen, Sizes
  <2>2. buffLen <= 22 + 134 * n
    BY DEF ScanInv
  <2>3. buffLen' \in buffLen .. buffLen + 134
    <3>1. CASE Chosen(scanned')
      <4>1. buffLen' = buffLen + SubLen(scanned'[3])
        BY <1>4, <3>1
      <4> DEFINE more == SubLen(scanned'[3])
      <4>2. buffLen \in Nat /\ more \in 0 .. 134 /\ buffLen' = buffLen + more
        BY <1>1, <2>1, <4>1
      <4> HIDE DEF more
      <4> QED BY <4>2
    <3>2. CASE ~Chosen(scanned')
      BY <1>1, <1>4, <3>2
    <3> QED BY <3>1, <3>2
  <2>4. linesRead' = n + 1 /\ n \in Nat /\ buffLen \in Nat
    BY <1>1, <1>2
  <2> HIDE DEF n
  <2> QED BY <2>2, <2>3, <2>4
<1>6. ASSUME Complete(file)
      PROVE  /\ \A w \in 1 .. 3 : Holds(file, n + 1, scanned', w)
             /\ \E from : Picks(file, appended', n + 1, from)
  <2>1. n = 0 => Len(file[1]) = 3
    BY <1>1, <1>6 DEF Complete
  <2>2. \A w \in 1 .. 3 : Holds(file, n + 1, scanned', w)
    <3> SUFFICES ASSUME NEW w \in 1 .. 3 PROVE Holds(file, n + 1, scanned', w)
      OBVIOUS
    <3>1. n > 0 => Holds(file, n, scanned, w)
      BY <1>6 DEF ScanInv
    <3>2. Holds(file, n + 1, Scanned(scanned, line), w)
      BY <1>1, <2>1, <3>1, LatestStep
    <3> QED BY <1>2, <3>2
  <2>3. \A w \in 1 .. 3 : WordOf(file, n + 1, w) = scanned'[w]
    <3> SUFFICES ASSUME NEW w \in 1 .. 3 PROVE WordOf(file, n + 1, w) = scanned'[w]
      OBVIOUS
    <3>1. PICK m : Latest(file, m, n + 1, w) /\ scanned'[w] = file[m][w]
      BY <2>2 DEF Holds
    <3> QED BY <1>1, <3>1, LatestCounts
  <2>4. Chosen(scanned') <=> IsWanted(file, n + 1)
    BY <2>3 DEF Chosen, IsWanted
  <2>5. PICK from : Picks(file, appended, n, from)
    BY <1>6 DEF ScanInv
  <2>6. CASE Chosen(scanned')
    <3>1. WordOf(file, n + 1, 3) = scanned'[3]
      BY <2>3
    <3>2. \E new : Picks(file, Append(appended, scanned'[3]), n + 1, new)
      BY <1>1, <1>3, <2>4, <2>5, <2>6, <3>1, PicksStep
    <3> QED BY <1>4, <2>2, <2>6, <3>2
  <2>7. CASE ~Chosen(scanned')
    <3>1. Picks(file, appended, n + 1, from)
      BY <1>1, <2>4, <2>5, <2>7, PicksStep
    <3> QED BY <1>4, <2>2, <2>7, <3>1
  <2> QED BY <2>6, <2>7
<1>7. Complete(file) => SubsGood(file, send)
  BY DEF ScanInv
<1> QED BY <1>2, <1>5, <1>6, <1>7 DEF ScanInv

\* The node goes in front of the list, with the values of all lines.
LEMMA ScanStep == OptionTypeInv /\ ScanInv /\ Next => ScanInv'
<1> SUFFICES ASSUME OptionTypeInv, ScanInv, Next PROVE ScanInv'
  OBVIOUS
<1>o. LastOpt = 6 /\ Cleanup = 7 /\ Reading = 8 /\ Idle = 0
  BY DEF Order, LastOpt, Cleanup, Reading, Idle
<1>1. CASE ReadLine
  BY <1>1, ReadLineStep
<1>2. CASE OpenFile
  <2>1. /\ pc # Reading /\ pc' = Reading /\ buffLen' = 22
        /\ UNCHANGED <<file, linesRead, appended, send>>
    BY <1>2, <1>o DEF OpenFile, fileVars
  <2>2. linesRead' = 0
    BY <2>1 DEF ScanInv
  <2> QED BY <2>1, <2>2 DEF ScanInv
<1>3. IsSeq(send) /\ file' = file
  <2>1. UNCHANGED fileVars
    BY DEF Next, Call, CallOther, FreeRequests, FreeSends, GetDhcpv6_Options, AddRequest,
           AddSend, OpenFile, ReadLine, AddOption17, SkipOption17, FreeBoth
  <2> QED BY <2>1 DEF fileVars, OptionTypeInv, HeapInv
<1>4. CASE AddOption17
  <2>1. /\ linesRead = Len(file) /\ pc' # Reading /\ linesRead' = 0
        /\ appended' = <<>> /\ buffLen' = 0
    BY <1>4, <1>o DEF AddOption17, NoScan
  <2>2. send' = send \/ send' = <<Node(17, "subs", appended)>> \o send
    BY <1>4 DEF AddOption17
  <2>3. ASSUME Complete(file) PROVE SubsGood(file, send')
    <3>1. SubsGood(file, send) /\ \E from : Picks(file, appended, Len(file), from)
      BY <2>1, <2>3 DEF ScanInv
    <3>2. Node(17, "subs", appended).subs = appended
      BY DEF Node
    <3> QED BY <1>3, <2>2, <3>1, <3>2, SubsPush
  <2>4. \E from : Picks(file, appended', linesRead', from)
    BY <2>1, PicksNone
  <2>5. buffLen' <= 22 + 134 * linesRead' /\ ~(linesRead' > 0)
    BY <2>1
  <2> QED BY <1>3, <2>1, <2>3, <2>4, <2>5 DEF ScanInv
<1>5. CASE AddSend
  <2>1. UNCHANGED scanVars /\ pc # Reading /\ pc' # Reading
    BY <1>5, <1>o DEF AddSend, Proceed
  <2>2. \/ send' = send
        \/ \E val \in {"text", "null"} : send' = <<Node(Order[pc], val, <<>>)>> \o send
    BY <1>5 DEF AddSend
  <2>3. ASSUME Complete(file) PROVE SubsGood(file, send')
    <3>1. SubsGood(file, send)
      BY <2>3 DEF ScanInv
    <3>2. \A val \in {"text", "null"} : Node(Order[pc], val, <<>>).val # "subs"
      BY DEF Node
    <3> QED BY <1>3, <2>2, <3>1, <3>2, SubsPush
  <2>4. linesRead' = linesRead /\ scanned' = scanned /\ appended' = appended
        /\ buffLen' = buffLen
    BY <2>1 DEF scanVars
  <2> QED BY <1>3, <2>1, <2>3, <2>4 DEF ScanInv
<1>6. ASSUME UNCHANGED scanVars, pc # Reading, pc' # Reading, send' \in {send, <<>>}
      PROVE  ScanInv'
  <2>1. linesRead' = linesRead /\ scanned' = scanned /\ appended' = appended
        /\ buffLen' = buffLen
    BY <1>6 DEF scanVars
  <2>2. SubsGood(file, <<>>)
    BY DEF SubsGood
  <2>3. Complete(file) => SubsGood(file, send')
    BY <1>6, <2>2 DEF ScanInv
  <2> QED BY <1>3, <1>6, <2>1, <2>3 DEF ScanInv
<1>7. CASE Call \/ CallOther \/ FreeRequests \/ FreeSends \/ FreeBoth \/ SkipOption17
           \/ AddRequest
  BY <1>6, <1>7, <1>o
  DEF Call, CallOther, FreeRequests, FreeSends, FreeBoth, SkipOption17, AddRequest, Proceed
<1> QED BY <1>1, <1>2, <1>4, <1>5, <1>7 DEF Next, GetDhcpv6_Options

\* Option 17 is what the vendor option file says, for any file, any length of
\* it, any earlier failures and any lists it is added to; and up to three
\* lines fit into the buffer, whatever the words hold.
THEOREM Option17True == HalSpec => []Option17AsInFile
<1> DEFINE Inv == OptionTypeInv /\ ScanInv
<1>1. HalInit => Inv
  <2> SUFFICES ASSUME HalInit PROVE ScanInv
    BY OptionTypeInit
  <2>1. /\ linesRead = 0 /\ appended = <<>> /\ buffLen = 0 /\ send = <<>>
    BY DEF HalInit, Init
  <2>2. SubsGood(file, send)
    BY <2>1 DEF SubsGood
  <2>3. \E from : Picks(file, appended, linesRead, from)
    BY <2>1, PicksNone
  <2> QED BY <2>1, <2>2, <2>3 DEF ScanInv
<1>2. Inv /\ [HalNext]_halVars => Inv'
  <2>1. ASSUME ScanInv, UNCHANGED vars PROVE ScanInv'
    <3>1. UNCHANGED <<pc, linesRead, scanned, appended, buffLen, file, send>>
      BY <2>1 DEF vars, fileVars, scanVars
    <3> QED BY <2>1, <3>1 DEF ScanInv
  <2>2. [HalNext]_halVars => Next \/ UNCHANGED vars
    BY DEF HalNext, halVars
  <2> QED BY <2>1, <2>2, OptionTypeInvStep, ScanStep
<1>3. Inv => Option17AsInFile
  <2> SUFFICES ASSUME OptionTypeInv, ScanInv PROVE Option17AsInFile
    OBVIOUS
  <2>1. Len(file) <= 3 => buffLen < 512
    <3>1. linesRead \in 0 .. Len(file) /\ Len(file) \in Nat /\ buffLen \in Nat
      BY FileAssumption DEF OptionTypeInv, TypeOK
    <3>2. buffLen <= 22 + 134 * linesRead
      BY DEF ScanInv
    <3> QED BY <3>1, <3>2
  <2>2. ASSUME Complete(file), NEW i \in DOMAIN send, send[i].val = "subs"
        PROVE  ValuesOf(send[i].subs, Len(file))
    <3>1. PICK from : Picks(file, send[i].subs, Len(file), from)
      BY <2>2 DEF ScanInv, SubsGood
    <3> QED BY <3>1, ValuesAre
  <2> QED BY <2>1, <2>2 DEF Option17AsInFile, Complete
<1> HIDE DEF Inv
<1> QED BY <1>1, <1>2, <1>3, PTL DEF HalSpec

-----------------------------------------------------------------------------
(* The getters *)

\* A text at the front of a buffer, and an end: the caller reads that text.
LEMMA ReadBack ==
    ASSUME NEW s \in Texts, NEW b, b[Len(s) + 1] = 0,
           \A k \in 1 .. Len(s) : b[k] = s[k]
    PROVE  CString(b) = s
<1>1. s \in Seq(Nat \ {0}) /\ Len(s) \in Nat /\ Len(s) < BufLen /\ BufLen \in Nat
  BY InfoAssumption
<1> DEFINE Ends == {k \in 1 .. BufLen : b[k] = 0}
<1>2. Len(s) + 1 \in Ends
  BY <1>1
<1>3. \A k \in Ends : Len(s) + 1 <= k
  <2> SUFFICES ASSUME NEW k \in 1 .. Len(s) PROVE b[k] # 0
    BY <1>1
  <2> QED BY <1>1
<1>4. Min(Ends) = Len(s) + 1
  <2> HIDE DEF Ends
  <2>1. \A k \in Ends : k \in Int
    BY DEF Ends
  <2>2. \A k \in Ends : (\A y \in Ends : k <= y) => k = Len(s) + 1
    BY <1>1, <1>2, <1>3, <2>1
  <2> QED BY <1>2, <1>3, <2>2, Zenon DEF Min
<1>5. CString(b) = SubSeq(b, 1, Len(s))
  <2>1. CString(b) = SubSeq(b, 1, Min(Ends) - 1)
    BY DEF CString
  <2>2. Min(Ends) - 1 = Len(s)
    BY <1>1, <1>4
  <2> QED BY <2>1, <2>2
<1>6. /\ SubSeq(b, 1, Len(s)) \in Seq(Nat) /\ Len(SubSeq(b, 1, Len(s))) = Len(s)
      /\ \A k \in 1 .. Len(s) : SubSeq(b, 1, Len(s))[k] = s[k]
  <2>1. \A k \in 1 .. Len(s) : b[k] \in Nat
    BY <1>1
  <2> QED BY <1>1, <2>1, SubSeqProperties
<1>7. s \in Seq(Nat)
  BY <1>1
<1> QED BY <1>5, <1>6, <1>7, SeqEqual

\* strcpy, and strncpy into a buffer that was cleared.
LEMMA Copied ==
    ASSUME NEW s \in Texts
    PROVE  CString(strcpy(buf, s)) = s /\ CString(strncpy(Zeroed, s)) = s
<1>1. s \in Seq(Nat \ {0}) /\ Len(s) \in Nat /\ Len(s) + 1 \in 1 .. BufLen
      /\ BufLen \in Nat
  BY InfoAssumption
<1>2. /\ strcpy(buf, s)[Len(s) + 1] = 0
      /\ \A k \in 1 .. Len(s) : strcpy(buf, s)[k] = s[k]
  BY <1>1 DEF strcpy
<1>3. /\ strncpy(Zeroed, s)[Len(s) + 1] = 0
      /\ \A k \in 1 .. Len(s) : strncpy(Zeroed, s)[k] = s[k]
  BY <1>1 DEF strncpy, Zeroed
<1> QED BY <1>2, <1>3, ReadBack

\* What a call that hands over a text leaves.
LEMMA TextStep == GetText => OkIsAnswer' /\ num' = num
<1> SUFFICES ASSUME NEW s \in Texts,
                    \/ GetModelName(s) \/ GetSerialNumber(s) \/ GetHardwareVersion(s)
                    \/ GetFirmwareName(s) \/ GetHardware(s)
                    \/ \E op \in {"BaseMacAddress", "CMTSMac"} : GetMac(op, s)
                    \/ \E op \in {"MemUsed", "MemFree"} : GetHardware_Mem(op, s)
             PROVE  OkIsAnswer' /\ num' = num
  BY DEF GetText
<1> USE DEF OkIsAnswer, TextIsAnswer, NumberIsAnswer, TextGetters, NumberGetters,
           Returns, textFrame
<1>1. ASSUME NEW op \in {"ModelName", "SerialNumber", "FirmwareName"},
             \/ buf' = strncpy(buf, s) /\ Returns(op, "OK", s)
             \/ Returns(op, "ERR", s),
             num' = num
      PROVE  OkIsAnswer' /\ num' = num
  <2>1. CASE Returns(op, "ERR", s)
    BY <1>1, <2>1
  <2>2. CASE buf' = strncpy(buf, s) /\ Returns(op, "OK", s)
    <3>1. buf = Zeroed => CString(buf') = s
      BY <2>2, Copied
    <3> QED BY <1>1, <2>2, <3>1
  <2> QED BY <1>1, <2>1, <2>2
<1>6. CASE GetModelName(s) \/ GetSerialNumber(s) \/ GetFirmwareName(s)
  <2>1. \E op \in {"ModelName", "SerialNumber", "FirmwareName"} :
           \/ buf' = strncpy(buf, s) /\ Returns(op, "OK", s)
           \/ Returns(op, "ERR", s)
    BY <1>6 DEF GetModelName, GetSerialNumber, GetFirmwareName
  <2>2. num' = num
    BY <1>6 DEF GetModelName, GetSerialNumber, GetFirmwareName
  <2> QED BY <1>1, <2>1, <2>2
<1>2. CASE GetHardwareVersion(s)
  BY <1>2, Copied DEF GetHardwareVersion
<1>3. ASSUME NEW op \in {"BaseMacAddress", "CMTSMac"}, GetMac(op, s)
      PROVE  OkIsAnswer' /\ num' = num
  BY <1>3 DEF GetMac
<1>4. CASE GetHardware(s)
  BY <1>4 DEF GetHardware
<1>5. ASSUME NEW op \in {"MemUsed", "MemFree"}, GetHardware_Mem(op, s)
      PROVE  OkIsAnswer' /\ num' = num
  BY <1>5, Copied DEF GetHardware_Mem
<1> QED BY <1>2, <1>3, <1>4, <1>5, <1>6

\* sscanf into a number below 2^32 replaces it.
LEMMA ScanEffect ==
    num \in Nat =>
        \A n \in Amounts :
            /\ Scanned32(n) \in Nat /\ atoi(n) \in Nat
            /\ num < HALF /\ n # NoNumber => Scanned32(n) = n
<1> SUFFICES ASSUME num \in Nat, NEW n \in Amounts
             PROVE  /\ Scanned32(n) \in Nat /\ atoi(n) \in Nat
                    /\ num < HALF /\ n # NoNumber => Scanned32(n) = n
  OBVIOUS
<1>1. HALF \in Nat \ {0} /\ (n = NoNumber \/ n \in Nat)
  <2>1. n \in {a \in Nat : a < HALF} \cup {NoNumber}
    BY InfoAssumption
  <2>2. HALF \in Nat \ {0}
    BY InfoAssumption
  <2> QED BY <2>1, <2>2
<1>2. num \div HALF \in Nat
  BY <1>1
<1> DEFINE q == num \div HALF
<1>3. q * HALF \in Nat
  <2> HIDE DEF q
  <2>1. q \in Nat BY <1>2 DEF q
  <2> QED BY <1>1, <2>1
<1>4. num < HALF => q = 0
  BY <1>1
<1> HIDE DEF q
<1>5. Scanned32(n) = IF n = NoNumber THEN num ELSE q * HALF + n
  BY DEF Scanned32, q
<1>6. num < HALF => q * HALF = 0
  BY <1>1, <1>4
<1> QED BY <1>1, <1>3, <1>5, <1>6 DEF atoi

\* What a call that hands over a number leaves.
LEMMA NumberStep == num \in Nat /\ GetNumber => OkIsAnswer' /\ num' \in Nat
<1> SUFFICES ASSUME num \in Nat, NEW n \in Amounts,
                    \/ GetTotalMemorySize(n) \/ GetFactoryResetCount(n)
                    \/ \E op \in {"FreeMemory", "UsedMemory"} : GetMemorySize(op, n)
             PROVE  OkIsAnswer' /\ num' \in Nat
  BY DEF GetNumber
<1> USE DEF OkIsAnswer, TextIsAnswer, NumberIsAnswer, TextGetters, NumberGetters, Counts
<1>1. CASE GetTotalMemorySize(n)
  <2>1. n # NoNumber => atoi(n) = n
    BY DEF atoi
  <2>2. num' \in Nat
    BY <1>1, ScanEffect DEF GetTotalMemorySize
  <2> QED BY <1>1, <2>1, <2>2, ScanEffect DEF GetTotalMemorySize
<1>2. CASE GetFactoryResetCount(n)
  BY <1>2, ScanEffect DEF GetFactoryResetCount
<1>3. ASSUME NEW op \in {"FreeMemory", "UsedMemory"}, GetMemorySize(op, n)
      PROVE  OkIsAnswer' /\ num' \in Nat
  BY <1>3, ScanEffect DEF GetMemorySize
<1> QED BY <1>1, <1>2, <1>3

\* RETURN_OK comes with what was asked for, whatever earlier calls left.
THEOREM AnswersTrue == HalSpec => []OkIsAnswer
<1> DEFINE InfoInv == OkIsAnswer /\ num \in Nat
<1>1. HalInit => InfoInv
  BY DEF HalInit, InfoInit, OkIsAnswer, TextIsAnswer, NumberIsAnswer, TextGetters,
         NumberGetters
<1>2. InfoInv /\ [HalNext]_halVars => InfoInv'
  <2> SUFFICES ASSUME OkIsAnswer, num \in Nat, [HalNext]_halVars
               PROVE  OkIsAnswer' /\ num' \in Nat
    OBVIOUS
  <2>1. CASE GetText \/ GetNumber
    BY <2>1, TextStep, NumberStep
  <2>2. CASE CallerPrepares
    BY <2>2, InfoAssumption DEF CallerPrepares, OkIsAnswer, TextIsAnswer,
       NumberIsAnswer, TextGetters, NumberGetters
  <2>3. CASE UNCHANGED infoVars
    BY <2>3 DEF infoVars, CString, OkIsAnswer, TextIsAnswer, NumberIsAnswer
  <2> QED BY <2>1, <2>2, <2>3 DEF HalNext, halVars, InfoNext
<1>3. InfoInv => OkIsAnswer
  OBVIOUS
<1> HIDE DEF InfoInv
<1> QED BY <1>1, <1>2, <1>3, PTL DEF HalSpec

\* Only the serial number of a board with a device tree costs a descriptor.
THEOREM DescriptorsKept == HalSpec => OnlySerialLeaks
<1> DEFINE Keeps == fds' # fds => deviceTree /\ last'.op = "SerialNumber"
<1>1. [HalNext]_halVars => [Keeps]_infoVars
  <2>1. InfoNext => Keeps
    BY DEF InfoNext, GetText, GetNumber, CallerPrepares, GetModelName, GetSerialNumber,
           GetHardwareVersion, GetFirmwareName, GetHardware, GetMac, GetHardware_Mem,
           GetTotalMemorySize, GetFactoryResetCount, GetMemorySize, Returns, Counts,
           numberFrame
  <2> QED BY <2>1 DEF HalNext, halVars
<1> QED BY <1>1, PTL DEF HalSpec, OnlySerialLeaks
=============================================================================
