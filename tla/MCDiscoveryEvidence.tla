------------------------ MODULE MCDiscoveryEvidence ------------------------
(***************************************************************************)
(* DiscoveryEvidence on a small instance: one host with three addresses    *)
(* that runs one service, an SSDP device that moves between two of them,   *)
(* and a device of another network with a lease of one of them.            *)
(***************************************************************************)
EXTENDS DiscoveryEvidence

Service == [table |-> "ptr", owner |-> "type", value |-> "inst", family |-> "ipv4"]
RunsOn == [table |-> "srv", owner |-> "inst", value |-> "host", family |-> "ipv4"]
First == [table |-> "addr", owner |-> "host", value |-> "ip1", family |-> "ipv4"]
Second == [table |-> "addr", owner |-> "host", value |-> "ip2", family |-> "ipv4"]
Third == [table |-> "addr", owner |-> "host", value |-> "ip3", family |-> "ipv4"]
Usn == [table |-> "ssdp", owner |-> "usn", value |-> "ip1", family |-> "ipv4"]
Moved == [table |-> "ssdp", owner |-> "usn", value |-> "ip3", family |-> "ipv4"]
MCKeys == {Service, RunsOn, First, Second, Third, Usn, Moved}

Says(type, key, ttl, flush) ==
  [type |-> type, usable |-> TRUE, key |-> key, ttl |-> ttl, flush |-> flush]

Mdns(records) ==
  [protocol |-> "mdns", response |-> TRUE, broken |-> FALSE, records |-> records]

Ssdp(nts, key, maxAge) ==
  [protocol |-> "ssdp", start |-> "NOTIFY", identities |-> 1, nts |-> nts,
   key |-> key, maxAge |-> maxAge]

\* A whole response, but for the PTR, on which nothing here depends; then, after
\* a record of a type that nobody reads, the host's new address with the goodbye
\* of an old one.
MCMessages ==
  {Mdns(<<Says("SRV", RunsOn, 1, TRUE), Says("A", First, 2, TRUE),
          Says("A", Second, 1, TRUE)>>),
   Mdns(<<Says("NSEC", First, 2, TRUE), Says("A", Third, 2, TRUE),
          Says("A", Second, 0, FALSE)>>),
   Ssdp("alive", Usn, NoAge), Ssdp("alive", Moved, NoAge), Ssdp("byebye", Usn, NoAge)}

Claim(mac, ip, interface, source) ==
  [mac |-> mac, ip |-> ip, family |-> "ipv4", interface |-> interface, source |-> source]

\* The other device has a lease of the host's address, and is seen there as well,
\* on a network of its own.
MCClaims ==
  {Claim("host", "ip1", "eth0", "direct"), Claim("other", "ip1", "wlan0", "lease"),
   Claim("other", "ip1", "wlan0", "direct")}

=============================================================================
