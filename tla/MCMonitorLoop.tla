--------------------------- MODULE MCMonitorLoop ---------------------------
(***************************************************************************)
(* MonitorLoop on a small instance: one DHCP server, sightings, and one    *)
(* kind of advertisement.                                                  *)
(***************************************************************************)
EXTENDS MonitorLoop

Arp(op) == [proto |-> "arp", op |-> op]
Reply(type, server) ==
  [proto |-> "dhcp", op |-> 2, type |-> type, server |-> server, address |-> TRUE]
Request(address) == [proto |-> "dhcp", op |-> 1, address |-> address]

\* What is heard, and of each protocol something that is not.
MCPackets ==
  {Arp(1), Arp(3), [proto |-> "nd", address |-> FALSE], Request(FALSE)}
  \cup {Reply("offer", s) : s \in Servers}
  \cup {Reply("ack", Nothing), Reply("decline", Nothing)}
  \cup {[proto |-> "mdns", parses |-> TRUE]}

=============================================================================
