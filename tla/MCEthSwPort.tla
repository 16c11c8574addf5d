---------------------------- MODULE MCEthSwPort -----------------------------
(* Small instances of EthSwPort for TLC. *)
EXTENDS EthSwPort

\* The four connectors of the comment, the first port of the hub, a device
\* on another root port and one that is not on USB.
MCPaths ==
    {[bus |-> 2, chain |-> <<2>>], [bus |-> 1, chain |-> <<1, 3>>],
     [bus |-> 1, chain |-> <<1, 4>>], [bus |-> 2, chain |-> <<1>>],
     [bus |-> 1, chain |-> <<1, 1>>], [bus |-> 1, chain |-> <<3>>],
     [bus |-> 0, chain |-> <<>>]}
=============================================================================
