----------------------------- MODULE CurrentWan -----------------------------
(***************************************************************************)
(* get_current_wan_ifname of platform_hal.c, called by several threads of  *)
(* the firewall while the WAN comes and goes: sysevent, syscfg and the     *)
(* default route are asked in turn until one gives a name.                 *)
(***************************************************************************)
EXTENDS Naturals

CONSTANTS
    Callers,        \* threads
    Names           \* interface names other than lo

NoName   == ""
Loopback == "lo"
Changed  == "changed"

ASSUME NameAssumption == Names \cap {NoName, Loopback, Changed} = {}

VARIABLES
    source,             \* what each of the three would answer
    at,                 \* per thread: the command that is run next
    interface_name,     \* per thread: its static buffer
    seen,               \* history: names any source held during the call
    steady,             \* history: sysevent's answer if it did not change
    missed              \* history: a command of the call could not be run

wanVars == <<source, at, interface_name, seen, steady, missed>>

Sources == {"sysevent", "syscfg", "route"}
Held(src) == {src[s] : s \in Sources} \ {NoName}

WanInit ==
    /\ source \in [Sources -> Names \cup {NoName}]
    /\ at = [t \in Callers |-> "idle"]
    /\ interface_name = [t \in Callers |-> NoName]
    /\ seen = [t \in Callers |-> {}]
    /\ steady = [t \in Callers |-> NoName]
    /\ missed = [t \in Callers |-> FALSE]

\* Bug variant: one buffer for all threads.
BufferShared(t) == CHOOSE u \in Callers : TRUE

\* static __thread: the buffer that thread t uses.
Buffer(t) == t

LookUp(t) ==
    /\ at[t] \in {"idle", "done"}
    /\ at' = [at EXCEPT ![t] = "sysevent"]
    /\ interface_name' = [interface_name EXCEPT ![Buffer(t)] = NoName]
    /\ seen' = [seen EXCEPT ![t] = Held(source)]
    /\ steady' = [steady EXCEPT ![t] = source["sysevent"]]
    /\ missed' = [missed EXCEPT ![t] = FALSE]
    /\ UNCHANGED source

\* execute_cmd: the answer, be it empty, goes into the buffer; if popen fails
\* the buffer stays as it is.
Execute(t, s) ==
    \/ /\ interface_name' = [interface_name EXCEPT ![Buffer(t)] = source[s]]
       /\ UNCHANGED missed
    \/ /\ missed' = [missed EXCEPT ![t] = TRUE]
       /\ UNCHANGED interface_name

\* Bug variant: every command is run.
AskAlways(t, s, next) ==
    /\ at[t] = s
    /\ Execute(t, s)
    /\ at' = [at EXCEPT ![t] = next]
    /\ UNCHANGED <<source, seen, steady>>

\* The first command, and each later one if the buffer is still empty.
Ask(t, s, next) ==
    /\ at[t] = s
    /\ IF s = "sysevent" \/ interface_name[Buffer(t)] = NoName
       THEN Execute(t, s) ELSE UNCHANGED <<interface_name, missed>>
    /\ at' = [at EXCEPT ![t] = next]
    /\ UNCHANGED <<source, seen, steady>>

AskAll(t) ==
    \/ Ask(t, "sysevent", "syscfg") \/ Ask(t, "syscfg", "route")
    \/ Ask(t, "route", "lo")

FallBack(t) ==
    /\ at[t] = "lo"
    /\ interface_name' =
          [interface_name EXCEPT ![Buffer(t)] = IF @ = NoName THEN Loopback ELSE @]
    /\ at' = [at EXCEPT ![t] = "done"]
    /\ UNCHANGED <<source, seen, steady, missed>>

Calling == {t \in Callers : at[t] \notin {"idle", "done"}}

\* The WAN manager, the configuration or the routes change.
SourceChanges ==
    /\ \E s \in Sources, n \in Names \cup {NoName} :
          source' = [source EXCEPT ![s] = n]
    /\ seen' = [t \in Callers |->
                   IF t \in Calling THEN seen[t] \cup Held(source') ELSE seen[t]]
    /\ steady' = [t \in Callers |->
                   IF t \in Calling /\ source'["sysevent"] # source["sysevent"]
                   THEN Changed ELSE steady[t]]
    /\ UNCHANGED <<at, interface_name, missed>>

WanNext ==
    \/ \E t \in Callers : LookUp(t) \/ AskAll(t) \/ FallBack(t)
    \/ SourceChanges

-----------------------------------------------------------------------------
(* Properties *)

\* What the caller reads through the pointer it was given.
Returned(t) == interface_name[Buffer(t)]

\* "never return an empty string": as long as the caller uses the name, and
\* whatever other threads do meanwhile, it is one that a source held during
\* this very call, or lo.
NameIsCurrent ==
    \A t \in Callers :
        at[t] = "done" => Returned(t) \in seen[t] \cup {Loopback}

\* If the WAN manager's name did not change during the call and could be
\* asked for, it is the name returned.
PublishedNameWins ==
    \A t \in Callers :
        at[t] = "done" /\ steady[t] \in Names /\ ~missed[t]
            => Returned(t) = steady[t]
=============================================================================
