------------------------- MODULE MCDeviceLifecycle -------------------------
(***************************************************************************)
(* DeviceLifecycle on small instances. The .cfg files choose which devices *)
(* and networks there are and which of the bounds matter.                  *)
(***************************************************************************)
EXTENDS DeviceLifecycle

\* One network, swept on one interface.
OneNetwork == {<<"eth0", "net1">>}

\* Two networks on two interfaces; the second has no IPv4 address of its own.
TwoNetworks == {<<"eth0", "net1">>, <<"eth1", Unknown>>}

=============================================================================
