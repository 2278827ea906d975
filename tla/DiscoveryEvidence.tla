------------------------- MODULE DiscoveryEvidence -------------------------
(***************************************************************************)
(* What hosts advertise over mDNS and SSDP (discovery.py) and the evidence *)
(* tables it becomes (db.py): a message is parsed, and each of its records *)
(* is written in a transaction of its own, with its expiry, its goodbye,   *)
(* the flush of what it replaces, and the pruning that every write does.   *)
(* Services are attributed to devices by the addresses at which these were *)
(* observed directly, or are recorded as observed.                         *)
(*                                                                         *)
(* The messages of each protocol are handled in the order of their         *)
(* capture, up to MaxLag ticks late; those that MonitorLoop's queues drop  *)
(* are never handled. The owner of a row stands for its name together with *)
(* the interface it was heard on: rows of two interfaces never meet. The   *)
(* evidence of addresses does: it is looked up by address alone, so that   *)
(* devices of two networks with the same private address are both found.   *)
(* Left out: attributes, first_seen and which of its addresses a device    *)
(* was seen at last.                                                       *)
(***************************************************************************)
EXTENDS Integers, Sequences, FiniteSets

CONSTANTS
  Messages,   \* the mDNS messages and SSDP messages on the network
  Keys,       \* rows and what they say: [table, owner, value, family]
  Claims,     \* [mac, ip, family, interface, source] on the network
  Swept,      \* the interfaces that sweeps probe
  NoRow,      \* no such row
  MaxRows,    \* rows kept per table
  MaxAddresses, \* rows of address evidence kept per device
  MaxRecords, \* records read from one message (64)
  MaxTtl,     \* the longest lifetime announced
  Retention,  \* ticks until what is over is deleted (30 days)
  Grace,      \* ticks within which a flush spares other addresses (1 s)
  MinAge, MaxAge, FallbackAge, \* SSDP lifetimes: bounds and default
  MaxLag,     \* bound: how late a message may be handled
  AgeCap      \* bound: ages saturate here

Tables == {"ptr", "srv", "txt", "addr", "ssdp"}
Protocols == {"mdns", "ssdp"}
Ages == 0..AgeCap
Over == -(MaxLag + 1)
Lefts == Over..MaxTtl
Row == [seen : Ages, left : Lefts, withdrawn : BOOLEAN]
Sources == {"direct", "lease", "legacy"}
Rank == [direct |-> 0, lease |-> 1, legacy |-> 2]
Claimants == {c.mac : c \in Claims}
Interfaces == {c.interface : c \in Claims}

\* Rows of device_addresses.
AddressRow ==
  [mac : Claimants, ip : {c.ip : c \in Claims}, family : {c.family : c \in Claims},
   interface : Interfaces, source : Sources]

ASSUME TableAssumption ==
  /\ IsFiniteSet(Keys) /\ \A k \in Keys : k.table \in Tables
  /\ Claims \subseteq AddressRow /\ Swept \subseteq Interfaces /\ NoRow \notin Row
  /\ {MaxRows, MaxAddresses} \subseteq Nat \ {0} /\ {MaxRecords, MaxTtl} \subseteq Nat
ASSUME TimeAssumption ==
  /\ {Retention, Grace, MinAge, MaxAge, FallbackAge, MaxLag, AgeCap} \subseteq Nat
  /\ MaxLag + Retention < AgeCap /\ MaxLag + Grace < AgeCap
  /\ MinAge <= FallbackAge /\ FallbackAge <= MaxAge /\ MaxAge <= MaxTtl

VARIABLES
  rows,      \* the evidence tables: ticks since last_seen, until expires_at
  message,   \* the records in hand, how many are done, how old they are
  newest,    \* per queue: ticks since the newest message handled was captured
  evidence   \* device_addresses

discoveryVars == <<rows, message, newest, evidence>>

-----------------------------------------------------------------------------
(* Parsing: what a message says, as records [key, ttl, flush]. *)

Known == {"PTR", "SRV", "TXT", "A", "AAAA"}

\* Queries say nothing, and a message that breaks off says nothing at all.
Readable(m) == m.response /\ ~m.broken

\* Records of other types, enumerations of service types, data of a wrong
\* length and TXT without a known attribute are passed over, but they count.
Usable(r) == r.type \in Known /\ r.usable

ParsedMdns(m) ==
  IF ~Readable(m) THEN <<>>
  ELSE LET read == {i \in DOMAIN m.records : i <= MaxRecords /\ Usable(m.records[i])}
           nth(n) == CHOOSE i \in read : Cardinality({j \in read : j <= i}) = n
       IN [n \in 1..Cardinality(read) |->
             [key |-> m.records[nth(n)].key, ttl |-> m.records[nth(n)].ttl,
              flush |-> m.records[nth(n)].flush]]

\* A lifetime in a header is brought within bounds; without one the default
\* applies, so that no advertisement is kept for ever.
NoAge == -1

SsdpLifetime(header) ==
  CASE header = NoAge -> FallbackAge
    [] header # NoAge /\ header < MinAge -> MinAge
    [] header > MaxAge -> MaxAge
    [] OTHER -> header

\* A search is no advertisement, nor is a message without an identity or
\* with two. A "byebye" withdraws.
ParsedSsdp(m) ==
  IF \/ m.start \notin {"NOTIFY", "RESPONSE"}
     \/ m.identities # 1
     \/ m.start = "NOTIFY" /\ m.nts \notin {"alive", "update", "byebye"}
  THEN <<>>
  ELSE <<[key |-> m.key, flush |-> FALSE,
          ttl |-> IF m.start = "NOTIFY" /\ m.nts = "byebye" THEN 0
                  ELSE SsdpLifetime(m.maxAge)]>>

Parsed(m) == IF m.protocol = "mdns" THEN ParsedMdns(m) ELSE ParsedSsdp(m)

\* The records of a message are about the tables of its protocol.
ASSUME MessageAssumption ==
  \A m \in Messages :
    \/ /\ m.protocol = "mdns" /\ Len(m.records) \in Nat
       /\ DOMAIN m.records = 1..Len(m.records)
       /\ \A i \in DOMAIN m.records : Usable(m.records[i]) =>
            /\ m.records[i].key \in Keys /\ m.records[i].key.table # "ssdp"
            /\ m.records[i].ttl \in 0..MaxTtl /\ m.records[i].flush \in BOOLEAN
    \/ /\ m.protocol = "ssdp" /\ m.maxAge \in Nat \cup {NoAge}
       /\ m.key \in Keys /\ m.key.table = "ssdp"

-----------------------------------------------------------------------------
(* The tables. A write happens lag ticks after its message was captured.  *)

Present(rs, t) == {k \in Keys : k.table = t /\ rs[k] # NoRow}

\* Where an instance runs, its attributes and where a USN speaks from are
\* columns of one row; a type's instances and a host's addresses have rows of
\* their own.
SameRow(j, k) ==
  /\ j.table = k.table /\ j.owner = k.owner
  /\ j.table \in {"srv", "txt", "ssdp"} \/ j = k

Sibling(j, k) ==
  /\ j # k /\ j.table = "addr" /\ k.table = "addr"
  /\ j.owner = k.owner /\ j.family = k.family

\* Nothing depends on the expiry of a row that is withdrawn: it counts as over.
Ended(seen) == [seen |-> seen, left |-> Over, withdrawn |-> TRUE]

\* A goodbye withdraws a row, whatever that says, and never makes one. Only
\* SSDP notes the time.
Withdrawn(rs, k, lag) ==
  [j \in Keys |-> IF SameRow(j, k) /\ rs[j] # NoRow
                  THEN Ended(IF j.table = "ssdp" THEN lag ELSE rs[j].seen) ELSE rs[j]]

\* What a row says now replaces what it said.
Upserted(rs, k, ttl, lag) ==
  [j \in Keys |-> IF j = k THEN [seen |-> lag, left |-> ttl - lag, withdrawn |-> FALSE]
                  ELSE IF SameRow(j, k) THEN NoRow ELSE rs[j]]

\* Faulty: whatever else the host announced before is withdrawn.
FlushedAtOnce(rs, k, lag) ==
  [j \in Keys |-> IF Sibling(j, k) /\ rs[j] # NoRow
                  THEN Ended(rs[j].seen) ELSE rs[j]]

\* Faulty: the grace is a tick longer.
FlushedNever(rs, k, lag) ==
  [j \in Keys |-> IF Sibling(j, k) /\ rs[j] # NoRow /\ rs[j].seen > lag + Grace + 1
                  THEN Ended(rs[j].seen) ELSE rs[j]]

\* A cache-flush record withdraws the host's other addresses, except those
\* that may have come with it.
Flushed(rs, k, lag) ==
  [j \in Keys |-> IF Sibling(j, k) /\ rs[j] # NoRow /\ rs[j].seen > lag + Grace
                  THEN Ended(rs[j].seen) ELSE rs[j]]

\* Faulty: what is old is deleted, be it over or not.
PrunedByAge(rs, lag) ==
  [k \in Keys |-> IF rs[k] # NoRow /\ rs[k].seen > lag + Retention
                  THEN NoRow ELSE rs[k]]

\* What was withdrawn or has expired is deleted once it is old enough.
Pruned(rs, lag) ==
  [k \in Keys |-> IF /\ rs[k] # NoRow
                     /\ rs[k].seen > lag + Retention
                     /\ rs[k].withdrawn \/ rs[k].left < -lag
                  THEN NoRow ELSE rs[k]]

\* What the caps may keep: of every table the newest rows, ties undecided.
Keepable(rs) ==
  LET there == {k \in Keys : rs[k] # NoRow}
      keeps(kept, t) ==
        LET all == Present(rs, t)
            mine == kept \cap all
        IN /\ Cardinality(mine) = IF Cardinality(all) < MaxRows
                                  THEN Cardinality(all) ELSE MaxRows
           /\ \A k \in mine, j \in all \ mine : rs[k].seen <= rs[j].seen
  IN IF \A t \in Tables : Cardinality(Present(rs, t)) <= MaxRows THEN {there}
     ELSE {kept \in SUBSET there : \A t \in Tables : keeps(kept, t)}

Capped(rs, kept) == [k \in Keys |-> IF k \in kept THEN rs[k] ELSE NoRow]

\* One record: its row, the flush, and the pruning of all tables.
Write(r, lag) ==
  IF r.ttl = 0 THEN rows' = Withdrawn(rows, r.key, lag)
  ELSE LET upserted == Upserted(rows, r.key, r.ttl, lag)
           flushed == IF r.flush /\ r.key.table = "addr"
                      THEN Flushed(upserted, r.key, lag) ELSE upserted
           pruned == Pruned(flushed, lag)
       IN \E kept \in Keepable(pruned) : rows' = Capped(pruned, kept)

-----------------------------------------------------------------------------
(* Attribution. *)

\* Faulty: what a device or a server says about an address is believed.
ObserversByClaim(ip) == {e.mac : e \in {x \in evidence : x.ip = ip}}

\* Devices recorded as seen at an address, on whatever interface: a lease or a
\* request is no proof.
Observers(ip) ==
  {e.mac : e \in {x \in evidence : x.ip = ip /\ x.source = "direct"}}

\* Faulty: if there are several, one of them will do.
AnyObserver(ip) ==
  IF Observers(ip) = {} THEN {} ELSE {CHOOSE mac \in Observers(ip) : TRUE}

\* The one device seen at an address, if there is just one.
ObservedMac(ip) == {mac \in Observers(ip) : Observers(ip) = {mac}}

Status(row) ==
  IF row.withdrawn THEN "withdrawn" ELSE IF row.left < 0 THEN "expired" ELSE "current"

\* Addresses of the host that a service runs on: what was withdrawn does not
\* count, what has expired does.
Targets(service) ==
  LET hosts == {s.value : s \in {k \in Keys : /\ k.table = "srv"
                                              /\ k.owner = service.value
                                              /\ rows[k] # NoRow}}
  IN {a \in Keys : /\ a.table = "addr" /\ a.owner \in hosts
                   /\ rows[a] # NoRow /\ ~rows[a].withdrawn}

\* The addresses a service is known by.
ServiceIps(service) ==
  IF service.table = "ssdp" THEN {service.value}
  ELSE {a.value : a \in Targets(service)}

\* The device that a service is attributed to, if all that is known of its
\* addresses points to one.
Attributed(service) ==
  LET macs == UNION {ObservedMac(ip) : ip \in ServiceIps(service)}
  IN {mac \in macs : macs = {mac}}

Services == {k \in Keys : k.table \in {"ptr", "ssdp"}}

-----------------------------------------------------------------------------

Idle == [records |-> <<>>, done |-> 0, lag |-> 0]
InHand == message.done < Len(message.records)

InitDiscovery ==
  /\ rows = [k \in Keys |-> NoRow]
  /\ message = Idle
  /\ newest = [q \in Protocols |-> MaxLag]
  /\ evidence = {}

\* A captured message is taken from its queue.
Take(m, lag) ==
  /\ ~InHand
  /\ lag <= newest[m.protocol]
  /\ message' = [records |-> Parsed(m), done |-> 0, lag |-> lag]
  /\ newest' = [newest EXCEPT ![m.protocol] = lag]
  /\ UNCHANGED <<rows, evidence>>

\* The next record is written and committed.
Record ==
  /\ InHand
  /\ Write(message.records[message.done + 1], message.lag)
  /\ message' = [message EXCEPT !.done = message.done + 1]
  /\ UNCHANGED <<newest, evidence>>

\* The monitor dies between two records, or with messages still queued.
Crash ==
  /\ InHand
  /\ message' = Idle
  /\ UNCHANGED <<rows, newest, evidence>>

\* A row of evidence is written; a device that has too many loses one. Which one
\* is left open: it is the one not seen for longest.
RecordAddressEvidence(c) ==
  LET all == evidence \cup {c}
      mine == {e \in all : e.mac = c.mac}
  IN /\ IF Cardinality(mine) <= MaxAddresses THEN evidence' = all
        ELSE \E oldest \in mine : evidence' = all \ {oldest}
     /\ UNCHANGED <<rows, message, newest>>

\* Where a device is asked before it is given up: at an address it was seen at,
\* and only without one at what a server or an older version says.
Preferred(e) ==
  \A x \in evidence :
    x.mac = e.mac /\ x.family = e.family => Rank[e.source] <= Rank[x.source]

\* Somebody answers there, on the interface of the sweep. Nobody compares the
\* addresses: whoever it is, the device that was missed is recorded as seen.
RetryOffline(e, interface) ==
  /\ Preferred(e)
  /\ RecordAddressEvidence([e EXCEPT !.source = "direct", !.interface = interface])

\* The operator has a device forgotten.
DeleteDevice(mac) ==
  /\ evidence' = {e \in evidence : e.mac # mac}
  /\ UNCHANGED <<rows, message, newest>>

ResetAll ==
  /\ evidence' = {}
  /\ rows' = [k \in Keys |-> NoRow]
  /\ UNCHANGED <<message, newest>>

Tick ==
  /\ InHand => message.lag < MaxLag
  /\ rows' = [k \in Keys |->
                IF rows[k] = NoRow THEN NoRow
                ELSE [rows[k] EXCEPT
                        !.seen = IF rows[k].seen = AgeCap THEN AgeCap ELSE rows[k].seen + 1,
                        !.left = IF rows[k].left = Over THEN rows[k].left
                                 ELSE rows[k].left - 1]]
  /\ message' = IF InHand THEN [message EXCEPT !.lag = message.lag + 1] ELSE Idle
  /\ newest' = [q \in Protocols |-> IF newest[q] = MaxLag THEN MaxLag ELSE newest[q] + 1]
  /\ UNCHANGED evidence

NextDiscovery ==
  \/ \E m \in Messages, lag \in 0..MaxLag : Take(m, lag)
  \/ Record
  \/ Crash
  \/ \E c \in Claims : RecordAddressEvidence(c)
  \/ \E e \in evidence, interface \in Swept : RetryOffline(e, interface)
  \/ \E mac \in Claimants : DeleteDevice(mac)
  \/ ResetAll
  \/ Tick

SpecDiscovery == InitDiscovery /\ [][NextDiscovery]_discoveryVars

-----------------------------------------------------------------------------

Full(rs, t) == Cardinality(Present(rs, t)) = MaxRows

\* Keys that the message in hand announces and does not take back.
Announced ==
  {k \in Keys :
     \E i \in 1..Len(message.records) :
       /\ message.records[i].key = k /\ message.records[i].ttl > 0
       /\ \A j \in i..Len(message.records) :
            SameRow(message.records[j].key, k) => message.records[j].ttl > 0}

LastRecord == InHand /\ message'.done = Len(message.records) /\ message' # Idle

\* One response carries several addresses of a host, each to replace what the
\* host said before: when it has been handled, none of them has been
\* withdrawn by another, however late it was handled
\* (record_mdns_addr, "never mistakenly flushed").
SameResponseKept ==
  [][LastRecord =>
       \A k \in Announced : rows'[k] # NoRow => ~rows'[k].withdrawn]_discoveryVars

\* And what a flush replaces is gone: when such a response has been handled,
\* the host has no other address left but those seen within the grace of it.
FlushedIsGone ==
  [][LastRecord =>
       \A i \in 1..Len(message.records) :
         LET r == message.records[i] IN
         r.flush /\ r.ttl > 0 =>
           \A j \in Keys \ {k \in Keys : \E n \in 1..Len(message.records) :
                                          message.records[n].key = k} :
             Sibling(j, r.key) /\ rows'[j] # NoRow =>
               rows'[j].withdrawn \/ rows'[j].seen <= message.lag + Grace]_discoveryVars

\* The record about to be written replaces what is known: it says something else
\* in the same row, or it flushes the host's other addresses.
Replaces(k) ==
  /\ InHand
  /\ LET r == message.records[message.done + 1]
     IN /\ r.ttl > 0
        /\ \/ SameRow(k, r.key) /\ k # r.key
           \/ r.flush /\ Sibling(k, r.key)

\* A full table makes room for its newest rows.
MadeRoom(k) ==
  /\ Full(rows', k.table)
  /\ \A j \in Present(rows', k.table) : rows'[j].seen <= rows[k].seen

\* What is still current leaves its table only because its host replaces it,
\* the table is full of what is newer, or the operator resets everything,
\* however long it was not announced
\* and whatever time the pruning goes by (_prune_expired_discovery_evidence).
PruneSpares ==
  [][\A k \in Keys :
       rows[k] # NoRow /\ Status(rows[k]) = "current" /\ rows'[k] = NoRow =>
         \/ Replaces(k) \/ MadeRoom(k)
         \/ evidence' = {} /\ \A j \in Keys : rows'[j] = NoRow]_discoveryVars

\* A service is shown with a device it was not shown with before only because a
\* message changed where it runs, because evidence was forgotten, or because
\* something was recorded as seen at one of its addresses when it was shown with
\* nobody. What servers claim never shows it with anybody, and a sighting, be it
\* of another network or the wrong answer to a retry, may take it from the device
\* it is shown with but never hands it to another
\* (_directly_observed_mac_for_ip, "must never produce a confident attribution").
ServiceNotHandedOver ==
  [][\A s \in Services :
       /\ evidence \subseteq evidence' /\ ServiceIps(s)' = ServiceIps(s)
       /\ Attributed(s)' # {} /\ Attributed(s)' # Attributed(s)
       => /\ Attributed(s) = {}
          /\ \E e \in evidence' \ evidence :
               e.source = "direct" /\ e.ip \in ServiceIps(s)]_discoveryVars

=============================================================================
