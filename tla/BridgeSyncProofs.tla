-------------------------- MODULE BridgeSyncProofs --------------------------
(***************************************************************************)
(* Theorems about BridgeSync, for any interfaces and names and any number  *)
(* of handlers and writes.                                                 *)
(***************************************************************************)
EXTENDS BridgeSync, TLAPS

\* Every event was sent after a write of its own, which PSM answered.
EventInv ==
    /\ pending + (IF agentPc = "send" THEN 1 ELSE 0) <= writes
    /\ writes > 0 => psmUp
    /\ notified => writes > 0
    /\ ~bridge => initPc = "addbr"

\* Somebody will still see to it that i becomes a member: an event that waits,
\* a handler that has read the list, or Utopia.
UnderWay(i) ==
    \/ pending > 0
    \/ \E h \in Handlers : hPc[h] # "idle" /\ i \in hPsm[h]
    \/ initPc \in {"addbr", "read"}
    \/ initPc = "add" /\ i \in initTodo

\* After an event that was not lost, what is listed and exists is a member or
\* under way.
ListInv == notified => \A i \in psm \cap exists : i \in members \/ UnderWay(i)

BridgeInv == TypeOK /\ EventInv /\ ListInv

-----------------------------------------------------------------------------
(* Types and events *)

\* What brctl addif leaves.
LEMMA AddifEffect ==
    ASSUME TypeOK, NEW i \in Intf, Addif(i)
    PROVE  /\ members' \in SUBSET exists
           /\ members \subseteq members'
           /\ bridge /\ i \in exists => i \in members'
BY DEF Addif, TypeOK

\* The initial state.
LEMMA BridgeInit == Init => BridgeInv
<1> SUFFICES ASSUME Init PROVE BridgeInv
  OBVIOUS
<1>1. TypeOK
  <2>1. /\ bridge \in BOOLEAN /\ psmUp \in BOOLEAN /\ registered \in BOOLEAN
        /\ notified \in BOOLEAN
    BY DEF Init
  <2>2. pending \in 0 .. MaxWrites /\ writes \in 0 .. MaxWrites
    BY WriteAssumption DEF Init
  <2> QED BY <2>1, <2>2 DEF Init, TypeOK
<1>2. EventInv
  BY DEF Init, EventInv
<1>3. ListInv
  BY DEF Init, ListInv
<1> QED BY <1>1, <1>2, <1>3 DEF BridgeInv

\* Every step keeps the types and the account of events.
LEMMA TypeStep == TypeOK /\ EventInv /\ [Next]_vars => TypeOK' /\ EventInv'
<1> SUFFICES ASSUME TypeOK, EventInv, [Next]_vars PROVE TypeOK' /\ EventInv'
  OBVIOUS
<1> USE WriteAssumption
    DEF netVars, psmVars, initVars, agentVars, hVars, hFrame
<1>1. ASSUME NEW i \in Intf, Plug(i) PROVE TypeOK' /\ EventInv'
  BY <1>1 DEF Plug, TypeOK, EventInv
<1>2. ASSUME NEW i \in Intf, Unplug(i) PROVE TypeOK' /\ EventInv'
  BY <1>2 DEF Unplug, TypeOK, EventInv
<1>3. ASSUME NEW i \in Intf, OneWifiAdds(i) PROVE TypeOK' /\ EventInv'
  BY <1>3, AddifEffect DEF OneWifiAdds, TypeOK, EventInv
<1>4. CASE PsmStart \/ Register \/ InitAddbr \/ InitDone
  <2>1. bridge' \in BOOLEAN /\ psmUp' \in BOOLEAN /\ registered' \in BOOLEAN
    BY <1>4 DEF PsmStart, Register, InitAddbr, InitDone, TypeOK
  <2>2. (psmUp => psmUp') /\ (~bridge' => ~bridge /\ initPc' = initPc)
    BY <1>4 DEF PsmStart, Register, InitAddbr, InitDone, EventInv
  <2>3. UNCHANGED <<agentVars, pending>>
    BY <1>4 DEF PsmStart, Register, InitAddbr, InitDone
  <2>4. EventInv'
    BY <2>2, <2>3 DEF EventInv
  <2>5. TypeOK'
    BY <1>4, <2>1 DEF PsmStart, Register, InitAddbr, InitDone, TypeOK
  <2> QED BY <2>4, <2>5
<1>5. CASE InitRead
  BY <1>5 DEF InitRead, PsmGet, TypeOK, EventInv
<1>6. ASSUME NEW i \in Wired, InitAdd(i) PROVE TypeOK' /\ EventInv'
  <2>1. i \in Intf BY DEF Intf
  <2> QED BY <1>6, <2>1, AddifEffect DEF InitAdd, TypeOK, EventInv
<1>7. ASSUME NEW list \in SUBSET Wired, AgentWrite(list) PROVE TypeOK' /\ EventInv'
  <2>1. notified' \in BOOLEAN /\ ~notified' BY <1>7 DEF AgentWrite
  <2>2. writes' = writes + 1 /\ writes' \in 0 .. MaxWrites /\ agentPc' = "send"
    BY <1>7 DEF AgentWrite, TypeOK
  <2>3. TypeOK'
    BY <1>7, <2>1, <2>2 DEF AgentWrite, TypeOK
  <2>4. pending' + 1 <= writes' /\ psmUp' /\ UNCHANGED <<bridge, initPc>>
    BY <1>7, <2>2 DEF AgentWrite, TypeOK, EventInv
  <2> QED BY <2>1, <2>2, <2>3, <2>4 DEF EventInv
<1>8. CASE AgentSend
  <2>1. notified' \in BOOLEAN BY <1>8 DEF AgentSend, TypeOK
  <2>2. writes > 0 BY <1>8 DEF AgentSend, TypeOK, EventInv
  <2>3. pending' \in 0 .. MaxWrites /\ pending' <= writes
    BY <1>8 DEF AgentSend, TypeOK, EventInv
  <2> QED BY <1>8, <2>1, <2>2, <2>3 DEF AgentSend, TypeOK, EventInv
<1>9. ASSUME NEW h \in Handlers, SyncStart(h) PROVE TypeOK' /\ EventInv'
  <2>1. PsmGet \in SUBSET Wired BY DEF PsmGet, TypeOK
  <2> QED BY <1>9, <2>1 DEF SyncStart, TypeOK, EventInv
<1>10. ASSUME NEW h \in Handlers, SyncCurrent(h) \/ SyncRemoved(h) \/ SyncEnd(h)
       PROVE  TypeOK' /\ EventInv'
  BY <1>10 DEF SyncCurrent, SyncRemoved, SyncEnd, TypeOK, EventInv
<1>11. ASSUME NEW h \in Handlers, NEW i \in Intf, SyncRemove(h, i)
       PROVE  TypeOK' /\ EventInv'
  <2>1. members' = members BY <1>11 DEF SyncRemove, DelifTarget
  <2> QED BY <1>11, <2>1 DEF SyncRemove, TypeOK, EventInv
<1>12. ASSUME NEW h \in Handlers, NEW i \in Intf, SyncAdd(h, i)
       PROVE  TypeOK' /\ EventInv'
  BY <1>12, AddifEffect DEF SyncAdd, TypeOK, EventInv
<1>13. CASE UNCHANGED vars
  BY <1>13 DEF vars, TypeOK, EventInv
<1> QED
  BY <1>1, <1>2, <1>3, <1>4, <1>5, <1>6, <1>7, <1>8, <1>9, <1>10, <1>11, <1>12, <1>13
  DEF Next, UtopiaInit, Sync

-----------------------------------------------------------------------------
(* What is listed *)

\* What is under way either stays so or becomes a member.
LEMMA ListStep == BridgeInv /\ [Next]_vars => ListInv'
<1> SUFFICES ASSUME BridgeInv, [Next]_vars, notified', NEW j \in psm', j \in exists'
             PROVE  j \in members' \/ UnderWay(j)'
  BY DEF ListInv
<1> USE DEF netVars, psmVars, initVars, agentVars, hVars, hFrame, BridgeInv, TypeOK
<1>1. ASSUME NEW i \in Intf, Plug(i) PROVE FALSE
  BY <1>1 DEF Plug
<1>2. ASSUME NEW list \in SUBSET Wired, AgentWrite(list) PROVE FALSE
  BY <1>2 DEF AgentWrite
<1>3. CASE AgentSend
  BY <1>3 DEF AgentSend, UnderWay
<1>5. psmUp => PsmGet = psm
  BY DEF PsmGet
<1>6. notified => psmUp
  BY DEF EventInv
<1>7. ASSUME NEW i \in Intf, Unplug(i) PROVE j \in members' \/ UnderWay(j)'
  BY <1>7 DEF Unplug, ListInv, UnderWay
<1>8. ASSUME NEW i \in Intf, OneWifiAdds(i) PROVE j \in members' \/ UnderWay(j)'
  BY <1>8, AddifEffect DEF OneWifiAdds, ListInv, UnderWay
<1>9. CASE PsmStart \/ Register \/ InitAddbr \/ InitDone
  BY <1>9 DEF PsmStart, Register, InitAddbr, InitDone, ListInv, UnderWay
<1>10. CASE InitRead
  BY <1>5, <1>6, <1>10 DEF InitRead, UnderWay
<1>11. ASSUME NEW i \in Wired, InitAdd(i) PROVE j \in members' \/ UnderWay(j)'
  <2>1. i \in Intf BY DEF Intf
  <2>2. bridge BY <1>11 DEF InitAdd, EventInv
  <2>3. CASE j = i
    BY <1>11, <2>1, <2>2, <2>3, AddifEffect DEF InitAdd
  <2>4. CASE j # i
    BY <1>11, <2>1, <2>4, AddifEffect DEF InitAdd, ListInv, UnderWay
  <2> QED BY <2>3, <2>4
<1>12. ASSUME NEW h \in Handlers, SyncStart(h) PROVE j \in members' \/ UnderWay(j)'
  <2>1. hPc'[h] # "idle" /\ j \in hPsm'[h]
    BY <1>5, <1>6, <1>12 DEF SyncStart
  <2> QED BY <2>1 DEF UnderWay
<1>13. ASSUME NEW h \in Handlers, SyncCurrent(h) \/ SyncRemoved(h) \/ SyncEnd(h)
       PROVE  j \in members' \/ UnderWay(j)'
  <2>1. \A g \in Handlers : hPc[g] # "idle" /\ j \in hPsm[g]
                              => hPc'[g] # "idle" /\ j \in hPsm'[g]
    BY <1>13 DEF SyncCurrent, SyncRemoved, SyncEnd
  <2>2. /\ UNCHANGED <<members, pending, initPc, initTodo>>
        /\ j \in members \/ UnderWay(j)
    BY <1>13 DEF SyncCurrent, SyncRemoved, SyncEnd, ListInv
  <2> QED BY <2>1, <2>2 DEF UnderWay
<1>14. ASSUME NEW h \in Handlers, NEW i \in Intf, SyncRemove(h, i)
       PROVE  j \in members' \/ UnderWay(j)'
  BY <1>14 DEF SyncRemove, DelifTarget, ListInv, UnderWay
<1>15. ASSUME NEW h \in Handlers, NEW i \in Intf, SyncAdd(h, i)
       PROVE  j \in members' \/ UnderWay(j)'
  <2>1. /\ UNCHANGED <<pending, initPc, initTodo, hPc, exists, bridge>>
        /\ j \in members \/ UnderWay(j)
    BY <1>15 DEF SyncAdd, ListInv
  <2>2. CASE j \in members'
    BY <2>2
  <2>3. CASE ~bridge
    BY <2>1, <2>3 DEF EventInv, UnderWay
  <2>4. CASE bridge /\ j \notin members'
    <3>1. j # i
      BY <1>15, <2>1, <2>4, AddifEffect DEF SyncAdd
    <3>2. \A g \in Handlers : j \in hPsm[g] => j \in hPsm'[g]
      BY <1>15, <3>1 DEF SyncAdd
    <3>3. j \notin members
      BY <1>15, <2>4, AddifEffect DEF SyncAdd
    <3> QED BY <2>1, <3>2, <3>3 DEF UnderWay
  <2> QED BY <2>2, <2>3, <2>4
<1>16. CASE UNCHANGED vars
  BY <1>16 DEF vars, ListInv, UnderWay
<1> QED
  BY <1>1, <1>2, <1>3, <1>7, <1>8, <1>9, <1>10, <1>11, <1>12, <1>13, <1>14, <1>15, <1>16
  DEF Next, UtopiaInit, Sync

-----------------------------------------------------------------------------
(* The theorems *)

\* The inductive invariant.
LEMMA BridgeInvariant == Spec => []BridgeInv
<1>1. BridgeInv /\ [Next]_vars => BridgeInv'
  BY TypeStep, ListStep DEF BridgeInv
<1> QED BY <1>1, BridgeInit, PTL DEF Spec

\* Types, for any interfaces, handlers and writes: in particular nothing is a
\* member that does not exist, and no more events wait than lists were written.
THEOREM TypeCorrect == Spec => []TypeOK
<1>1. BridgeInv => TypeOK
  BY DEF BridgeInv
<1> QED BY <1>1, BridgeInvariant, PTL

\* What PSM lists is in the bridge once everything is quiet, however Utopia,
\* PSM, the agent and any number of overlapping handlers interleave.
THEOREM ListedJoin == Spec => []ListedAreMembers
<1>1. BridgeInv => ListedAreMembers
  BY DEF BridgeInv, ListInv, UnderWay, ListedAreMembers, Quiet, TypeOK
<1> QED BY <1>1, BridgeInvariant, PTL
=============================================================================
