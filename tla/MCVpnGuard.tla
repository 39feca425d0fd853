----------------------------- MODULE MCVpnGuard -----------------------------
(* Instances of VpnGuard for TLC: a working VPN, one that leaks the home   *)
(* address, and the home network without VPN.                              *)
EXTENDS VpnGuard

Vpn == [iface |-> "tunnel", home |-> TRUE, ip |-> "exit"]
Leak == [iface |-> "tunnel", home |-> TRUE, ip |-> "isp"]
Home == [iface |-> "plain", home |-> TRUE, ip |-> "isp"]

VpnOrLeakOrHome == {Vpn, Leak, Home}
=============================================================================
