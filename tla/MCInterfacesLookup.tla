------------------------- MODULE MCInterfacesLookup -------------------------
(***************************************************************************)
(* Three devices: one with a link-layer entry, two IPv4 addresses of one   *)
(* network and an IPv6 address, one in a small network, not running, and   *)
(* the loopback device.                                                    *)
(***************************************************************************)
EXTENDS InterfacesLookup

Reported(name, family, flags, addr, netmask, broadaddr) ==
    [name |-> name, family |-> family, flags |-> flags,
     addr |-> addr, netmask |-> netmask, broadaddr |-> broadaddr]

Ether == {"UP", "RUNNING", "BROADCAST"}
Net24 == V4(<<255, 255, 255, 0>>)
MCEntry(WlanFlags) ==
    {Reported("eth0", "PACKET", Ether, Empty, Empty, Empty),
     Reported("eth0", "INET", Ether, V4(<<192, 168, 1, 5>>), Net24, V4(<<192, 168, 1, 255>>)),
     Reported("eth0", "INET", Ether, V4(<<192, 168, 1, 6>>), Net24, V4(<<192, 168, 1, 255>>)),
     Reported("eth0", "INET6", Ether, V6(<<65152, 0, 0, 0, 0, 0, 0, 5>>),
              V6(<<65535, 65535, 65535, 65535, 0, 0, 0, 0>>), Empty),
     Reported("wlan0", "INET", WlanFlags, V4(<<10, 0, 0, 2>>),
              V4(<<255, 255, 255, 128>>), V4(<<10, 0, 0, 127>>)),
     Reported("lo", "INET", {"UP", "RUNNING", "LOOPBACK"}, V4(<<127, 0, 0, 1>>),
              V4(<<255, 0, 0, 0>>), Empty)}

WlanDown == MCEntry({"BROADCAST"})
WlanRunning == MCEntry(Ether)
=============================================================================
