\* Two threads of the agent call CcspHalEthSwInit, repeatedly and concurrently.
CONSTANTS
    ETH_INTF_MAX = 1
    Real = {0}
    AdminManaged = {}
    Main = main
    Others = {other}
    Threads = {t1, t2, t3}
    MaxFaults = 2
SPECIFICATION Spec
SYMMETRY ThreadSymmetry
INVARIANTS
    OneMonitorPerCaller
