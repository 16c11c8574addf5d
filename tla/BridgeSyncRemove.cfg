CONSTANTS
    eth1 = eth1
    eth10 = eth10
    wlan0 = wlan0
    Wired <- MCWired
    Wlan <- MCWlan
    PartOf <- MCPartOf
    Handlers = {h1}
    MaxWrites = 2
SPECIFICATION FairSpec
PROPERTY RemovedAsLogged
