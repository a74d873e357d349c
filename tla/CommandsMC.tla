----------------------------- MODULE CommandsMC -----------------------------
(* Commands for TLC: one terminal for the tunnel, one for everything else. *)
EXTENDS Commands, TLC

CONSTANTS p1, p2

Names == {"wsl-tunneling", "tun1"}
Addrs == {"127.1", "128.1"}
Roles == (p1 :> {"start", "stop", "restart", "daemon"}) @@
         (p2 :> (CommandNames \ {"restart", "daemon"}))
(* The example, and a file that names another gateway and no distro. *)
SomeFiles == {Example, [distro |-> Unset, gateway |-> "128.1", iface |-> Unset]}
SomeFlags == {[distro |-> Unset, iface |-> Unset],
              [distro |-> "Debian", iface |-> "tun1"]}
=============================================================================
