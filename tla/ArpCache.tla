-------------------------------- MODULE ArpCache --------------------------------
(***************************************************************************)
(* ArpCache: a bounded map from IP to MAC addresses whose entries expire.  *)
(*                                                                         *)
(* Every call is given the instant it happens at.  The program is          *)
(* single-threaded and takes its instants from one monotonic clock, so     *)
(* that a call's now is never before the now of the call before it; clock  *)
(* is that last instant.  An IP address is a number, for remove_oldest     *)
(* compares addresses.                                                     *)
(***************************************************************************)
EXTENDS Integers, FiniteSets, Functions

CONSTANTS
  Ip,           \* IP addresses, as numbers
  Mac,          \* MAC addresses
  NoMac,        \* the None of a lookup
  MaxEntries,   \* the size of the cache
  Ttl,          \* how long an entry is valid
  Horizon       \* bound: the last instant a call is made at

ASSUME CacheAssumption ==
  /\ Ip \subseteq Nat
  /\ NoMac \notin Mac
  /\ MaxEntries \in Nat
  /\ Ttl \in Nat
  /\ Horizon \in Nat

VARIABLES
  ip_to_mac,   \* HashMap<Ipv4Addr, CacheEntry>
  clock,       \* the instant of the last call
  found,       \* the result of the last call, if it was a lookup
  latest       \* history: the last mapping learned for each address

cacheVars == <<ip_to_mac, clock, found, latest>>
--------------------------------------------------------------------------------
Instant == 0 .. Horizon

CacheEntry == [mac : Mac, learned_at : Instant]

Operation == {"Request", "Reply", "Unknown"}

ArpPacket == [operation : Operation, sender_ip : Ip, sender_mac : Mac]

NoLookup == [ip |-> 0, mac |-> NoMac]
LookedUp(ip, mac) == [ip |-> ip, mac |-> mac]

(* Instant::saturating_duration_since.                                     *)
Age(now, learned_at) == IF now >= learned_at THEN now - learned_at ELSE 0

(* Mutant: an entry is still valid at the instant it expires.              *)
UnexpiredInclusive(entries, now) ==
  Restrict(entries,
           {ip \in DOMAIN entries : Age(now, entries[ip].learned_at) <= Ttl})

(* remove_expired: what retain keeps of the entries.                       *)
Unexpired(entries, now) ==
  Restrict(entries,
           {ip \in DOMAIN entries : Age(now, entries[ip].learned_at) < Ttl})

(* min_by_key over (learned_at, ip).                                       *)
Oldest(entries) ==
  CHOOSE ip \in DOMAIN entries :
    \A other \in DOMAIN entries \ {ip} :
      \/ entries[ip].learned_at < entries[other].learned_at
      \/ /\ entries[ip].learned_at = entries[other].learned_at
         /\ ip < other

(* Mutant: room is made one entry too late.                                *)
WithRoomTooLate(entries) ==
  IF Cardinality(DOMAIN entries) > MaxEntries
  THEN Restrict(entries, DOMAIN entries \ {Oldest(entries)})
  ELSE entries

(* remove_oldest, where learn calls it: a full cache makes room for one.   *)
WithRoom(entries) ==
  IF Cardinality(DOMAIN entries) >= MaxEntries
  THEN Restrict(entries, DOMAIN entries \ {Oldest(entries)})
  ELSE entries

(* The entries with ip's set: an insertion, or a refresh in place.         *)
Put(entries, ip, entry) ==
  [i \in DOMAIN entries \cup {ip} |-> IF i = ip THEN entry ELSE entries[i]]

(* Mutant: room is made for a mapping that is only refreshed.              *)
LearnedAsNew(entries, ip, mac, now) ==
  Put(WithRoom(Unexpired(entries, now)), ip, [mac |-> mac, learned_at |-> now])

(* What learn leaves in a cache that has any entries at all.               *)
Learned(entries, ip, mac, now) ==
  LET live  == Unexpired(entries, now)
      entry == [mac |-> mac, learned_at |-> now]
  IN  IF ip \in DOMAIN live
      THEN Put(live, ip, entry)
      ELSE Put(WithRoom(live), ip, entry)
--------------------------------------------------------------------------------
CacheInit ==
  /\ ip_to_mac = [ip \in {} |-> {}]
  /\ clock = 0
  /\ found = NoLookup
  /\ latest = [ip \in {} |-> {}]

(* learn_from_packet returns true.                                         *)
LearnsFrom(packet) ==
  packet.operation \in {"Request", "Reply"} /\ MaxEntries # 0

LearnFromPacket(packet, now) ==
  /\ clock' = now
  /\ found' = NoLookup
  /\ IF LearnsFrom(packet)
     THEN /\ ip_to_mac' =
               Learned(ip_to_mac, packet.sender_ip, packet.sender_mac, now)
          /\ latest' = Put(latest, packet.sender_ip,
                           [mac |-> packet.sender_mac, learned_at |-> now])
     ELSE UNCHANGED <<ip_to_mac, latest>>

LookupMac(ip, now) ==
  /\ clock' = now
  /\ ip_to_mac' = Unexpired(ip_to_mac, now)
  /\ found' = LookedUp(ip, IF ip \in DOMAIN ip_to_mac'
                           THEN ip_to_mac'[ip].mac
                           ELSE NoMac)
  /\ UNCHANGED latest

RemoveExpired(now) ==
  /\ clock' = now
  /\ ip_to_mac' = Unexpired(ip_to_mac, now)
  /\ found' = NoLookup
  /\ UNCHANGED latest

CacheNext ==
  \E now \in clock .. Horizon :
    \/ \E packet \in ArpPacket : LearnFromPacket(packet, now)
    \/ \E ip \in Ip : LookupMac(ip, now)
    \/ RemoveExpired(now)

CacheSpec == CacheInit /\ [][CacheNext]_cacheVars
--------------------------------------------------------------------------------
CacheTypeOK ==
  /\ DOMAIN ip_to_mac \subseteq Ip
  /\ \A ip \in DOMAIN ip_to_mac : ip_to_mac[ip] \in CacheEntry
  /\ clock \in Instant
  /\ found \in [ip : Ip \cup {0}, mac : Mac \cup {NoMac}]
  /\ DOMAIN latest \subseteq Ip
  /\ \A ip \in DOMAIN latest : latest[ip] \in CacheEntry

(* The cache never holds more entries than it may, and what it holds is    *)
(* what was learned last about each address, never an older mapping.       *)
EntriesAreLatest ==
  /\ Cardinality(DOMAIN ip_to_mac) <= MaxEntries
  /\ \A ip \in DOMAIN ip_to_mac :
       ip \in DOMAIN latest /\ ip_to_mac[ip] = latest[ip]

(* A mapping that has not expired is missing only if the cache is full of  *)
(* mappings learned no earlier: expired entries never push out a live one, *)
(* a refreshed entry counts as new, and the oldest goes first.             *)
KeepsMostRecent ==
  \A ip \in DOMAIN latest \ DOMAIN ip_to_mac :
    Age(clock, latest[ip].learned_at) < Ttl =>
      /\ Cardinality(DOMAIN ip_to_mac) = MaxEntries
      /\ \A other \in DOMAIN ip_to_mac :
           ip_to_mac[other].learned_at >= latest[ip].learned_at

(* A lookup answers with the last mapping learned, and only while that is  *)
(* younger than the time to live.                                          *)
LookupsAreFresh ==
  found.mac # NoMac =>
    /\ found.ip \in DOMAIN latest
    /\ found.mac = latest[found.ip].mac
    /\ Age(clock, latest[found.ip].learned_at) < Ttl
================================================================================
