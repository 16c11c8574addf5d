\* The agent as it is wired here: only its main thread initialises the HAL.
\* eth0 and eth1 are real devices, eth2 is not.
CONSTANTS
    ETH_INTF_MAX = 3
    Real = {0, 1}
    AdminManaged = {1}
    Main = main
    Others = {}
    Threads = {t1}
    MaxFaults = 1
SPECIFICATION FairSpec
INVARIANTS
    ReportsOnlyWhenWired
    MonitorHasSocket
    StatusesMatchTold
PROPERTIES
    ImplementsLinkEvents
    LastingLinkIsReported
    CarrierIsReportedUp
    BootCompletes
