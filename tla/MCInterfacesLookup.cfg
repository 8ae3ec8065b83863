CONSTANTS
    LittleEndian = TRUE
    Name = {"eth0", "wlan0", "lo"}
    Entry <- WlanDown
    MaxIndex = 4
SPECIFICATION Spec
INVARIANTS
    AddressesComplete
    AddressesAreTheirs
    GetAllComplete
    LeaksBounded
    BroadcastIsLast
CHECK_DEADLOCK FALSE
