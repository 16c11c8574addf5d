---------------------------- MODULE MCBridgeSync ----------------------------
(* Small instances of BridgeSync for TLC. *)
EXTENDS BridgeSync

CONSTANTS eth1, eth10, wlan0

MCWired == {eth1, eth10}
MCWlan  == {wlan0}

\* "eth1" is a part of "eth10".
MCPartOf == {<<i, i>> : i \in MCWired \cup MCWlan} \cup {<<eth1, eth10>>}
=============================================================================
