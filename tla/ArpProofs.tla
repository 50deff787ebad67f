------------------------------- MODULE ArpProofs -------------------------------
(***************************************************************************)
(* Proofs about ArpCache, for every set of addresses, every size and every *)
(* time to live, none of them too small (0 included).                      *)
(*                                                                         *)
(* The argument: the cache holds what was learned last (EntriesAreLatest), *)
(* nothing was learned after clock (NothingFromTheFuture), and a missing   *)
(* mapping that is still live is older than everything in a full cache     *)
(* (KeepsMostRecent).  The last is inductive only with the other two: a    *)
(* sweep keeps a full cache of younger entries full.                       *)
(***************************************************************************)
EXTENDS ArpResolver, FiniteSetTheorems, WellFoundedInduction, TLAPS

(* A set of natural numbers that is not empty has a least element.         *)
LEMMA LeastNatural ==
  ASSUME NEW T, T \subseteq Nat, T # {}
  PROVE  \E x \in T : \A y \in T : x <= y
<1>1. PICK x \in T : \A y \in T : ~ (<<y, x>> \in OpToRel(<, Nat))
  BY NatLessThanWellFounded, WFMin
<1>2. \A y \in T : ~ (y < x)
  BY <1>1 DEF OpToRel
<1> QED
  BY <1>2

--------------------------------------------------------------------------------
(* Instants and their ages.                                                *)

(* An age grows with the instant it is taken at, and shrinks with the one  *)
(* it is counted from.                                                     *)
LEMMA AgeIsMonotone ==
  ASSUME NEW s \in Nat, NEW t \in Nat, NEW u \in Nat, NEW v \in Nat,
         s <= t, u <= v
  PROVE  /\ Age(s, v) <= Age(t, u)
         /\ Age(s, v) \in Nat
         /\ Age(t, u) \in Nat
BY DEF Age

(* The sweep keeps the entries that are younger than Ttl as they are.      *)
LEMMA UnexpiredFacts ==
  ASSUME NEW entries, NEW now
  PROVE  /\ DOMAIN Unexpired(entries, now) \subseteq DOMAIN entries
         /\ \A ip \in DOMAIN entries :
              ip \in DOMAIN Unexpired(entries, now)
                <=> Age(now, entries[ip].learned_at) < Ttl
         /\ \A ip \in DOMAIN Unexpired(entries, now) :
              Unexpired(entries, now)[ip] = entries[ip]
BY DEF Unexpired, Restrict

(* A cache's entries: learned at some instant, for some addresses.         *)
Entries(entries) ==
  /\ DOMAIN entries \subseteq Ip
  /\ \A ip \in DOMAIN entries : entries[ip] \in CacheEntry
  /\ IsFiniteSet(DOMAIN entries)

(* In entries that are not none, Oldest is one of them, and none of them   *)
(* was learned before it.                                                  *)
LEMMA OldestFacts ==
  ASSUME NEW entries, Entries(entries), DOMAIN entries # {}
  PROVE  /\ Oldest(entries) \in DOMAIN entries
         /\ \A other \in DOMAIN entries :
              entries[Oldest(entries)].learned_at <= entries[other].learned_at
<1> DEFINE times == {entries[ip].learned_at : ip \in DOMAIN entries}
<1>1. \A ip \in DOMAIN entries : ip \in Nat /\ entries[ip].learned_at \in Nat
  <2> TAKE ip \in DOMAIN entries
  <2>1. ip \in Ip /\ entries[ip] \in CacheEntry
    BY DEF Entries
  <2>2. ip \in Nat
    BY <2>1, CacheAssumption
  <2>3. entries[ip].learned_at \in Instant
    BY <2>1 DEF CacheEntry
  <2>4. Instant \subseteq Nat
    BY CacheAssumption DEF Instant
  <2> QED
    BY <2>2, <2>3, <2>4
<1>2. PICK first \in times : \A time \in times : first <= time
  <2>1. times \subseteq Nat
    BY <1>1
  <2>2. times # {}
    OBVIOUS
  <2> HIDE DEF times
  <2> QED
    BY <2>1, <2>2, LeastNatural
<1> DEFINE firsts == {ip \in DOMAIN entries : entries[ip].learned_at = first}
<1>3. PICK least \in firsts : \A ip \in firsts : least <= ip
  <2>1. firsts \subseteq Nat /\ firsts # {}
    BY <1>1, <1>2
  <2> HIDE DEF firsts
  <2> QED
    BY <2>1, LeastNatural
<1>4. \A other \in DOMAIN entries : first <= entries[other].learned_at
  BY <1>2
<1>5. \A other \in DOMAIN entries \ {least} :
        \/ entries[least].learned_at < entries[other].learned_at
        \/ /\ entries[least].learned_at = entries[other].learned_at
           /\ least < other
  <2> TAKE other \in DOMAIN entries \ {least}
  <2>1. CASE other \in firsts
    BY <2>1, <1>1, <1>3
  <2>2. CASE other \notin firsts
    BY <2>2, <1>1, <1>3, <1>4
  <2> QED
    BY <2>1, <2>2
<1>6. /\ Oldest(entries) \in DOMAIN entries
      /\ \A other \in DOMAIN entries \ {Oldest(entries)} :
           \/ entries[Oldest(entries)].learned_at < entries[other].learned_at
           \/ /\ entries[Oldest(entries)].learned_at = entries[other].learned_at
              /\ Oldest(entries) < other
  BY <1>5 DEF Oldest
<1> QED
  BY <1>1, <1>6

--------------------------------------------------------------------------------
(* The types of the cache.                                                 *)

(* The initial cache is well typed.                                        *)
LEMMA CacheInitTypeOK == CacheInit => CacheTypeOK
BY CacheAssumption DEF CacheInit, CacheTypeOK, Instant, NoLookup

(* Room is made by leaving out entries.                                    *)
LEMMA WithRoomFacts ==
  ASSUME NEW entries
  PROVE  /\ DOMAIN WithRoom(entries) \subseteq DOMAIN entries
         /\ \A ip \in DOMAIN WithRoom(entries) : WithRoom(entries)[ip] = entries[ip]
BY DEF WithRoom, Restrict

(* What learn leaves: the new mapping, and of the others those that the    *)
(* sweep keeps, as they were, less the one that makes room.                *)
LEMMA LearnStep ==
  ASSUME NEW packet, NEW now, LearnFromPacket(packet, now), LearnsFrom(packet)
  PROVE  LET ip    == packet.sender_ip
             entry == [mac |-> packet.sender_mac, learned_at |-> now]
             live  == Unexpired(ip_to_mac, now)
         IN  /\ DOMAIN ip_to_mac' = {ip} \cup (IF ip \in DOMAIN live
                                               THEN DOMAIN live
                                               ELSE DOMAIN WithRoom(live))
             /\ ip_to_mac'[ip] = entry
             /\ \A i \in DOMAIN ip_to_mac' \ {ip} :
                  i \in DOMAIN live /\ ip_to_mac'[i] = ip_to_mac[i]
             /\ DOMAIN latest' = DOMAIN latest \cup {ip}
             /\ latest'[ip] = entry
             /\ \A i \in DOMAIN latest \ {ip} : latest'[i] = latest[i]
<1> DEFINE ip    == packet.sender_ip
           entry == [mac |-> packet.sender_mac, learned_at |-> now]
           live  == Unexpired(ip_to_mac, now)
           kept  == IF ip \in DOMAIN live THEN live ELSE WithRoom(live)
<1>1. ip_to_mac' = Put(kept, ip, entry) /\ latest' = Put(latest, ip, entry)
  BY DEF LearnFromPacket, Learned
<1>2. /\ DOMAIN kept \subseteq DOMAIN live
      /\ \A i \in DOMAIN kept : kept[i] = live[i]
  BY WithRoomFacts
<1>3. \A i \in DOMAIN live : live[i] = ip_to_mac[i]
  BY UnexpiredFacts
<1>4. DOMAIN kept = IF ip \in DOMAIN live THEN DOMAIN live ELSE DOMAIN WithRoom(live)
  OBVIOUS
<1> HIDE DEF ip, entry, live, kept
<1>5. /\ DOMAIN ip_to_mac' = DOMAIN kept \cup {ip}
      /\ ip_to_mac'[ip] = entry
      /\ \A i \in DOMAIN kept \ {ip} : ip_to_mac'[i] = kept[i]
  BY <1>1 DEF Put
<1>6. /\ DOMAIN latest' = DOMAIN latest \cup {ip}
      /\ latest'[ip] = entry
      /\ \A i \in DOMAIN latest \ {ip} : latest'[i] = latest[i]
  BY <1>1 DEF Put
<1>7. \A i \in DOMAIN ip_to_mac' \ {ip} :
        i \in DOMAIN live /\ ip_to_mac'[i] = ip_to_mac[i]
  BY <1>2, <1>3, <1>5
<1>8. DOMAIN ip_to_mac' =
        {ip} \cup (IF ip \in DOMAIN live THEN DOMAIN live ELSE DOMAIN WithRoom(live))
  BY <1>4, <1>5
<1> QED
  BY <1>5, <1>6, <1>7, <1>8 DEF ip, entry, live

(* A cache that learns keeps its types.                                    *)
LEMMA LearnTypeOK ==
  ASSUME CacheTypeOK, NEW packet \in ArpPacket, NEW now \in clock .. Horizon,
         LearnFromPacket(packet, now)
  PROVE  CacheTypeOK'
<1>1. clock' \in Instant /\ now \in Instant
  BY CacheAssumption DEF LearnFromPacket, CacheTypeOK, Instant
<1>2. found' \in [ip : Ip \cup {0}, mac : Mac \cup {NoMac}]
  BY DEF LearnFromPacket, NoLookup
<1> DEFINE ip    == packet.sender_ip
           entry == [mac |-> packet.sender_mac, learned_at |-> now]
<1>3. ip \in Ip /\ entry \in CacheEntry
  BY <1>1 DEF ArpPacket, CacheEntry
<1>4. CASE LearnsFrom(packet)
  <2>1. /\ DOMAIN ip_to_mac' \subseteq {ip} \cup DOMAIN ip_to_mac
        /\ ip_to_mac'[ip] = entry
        /\ \A i \in DOMAIN ip_to_mac' \ {ip} :
             i \in DOMAIN ip_to_mac /\ ip_to_mac'[i] = ip_to_mac[i]
    BY <1>4, LearnStep, UnexpiredFacts, WithRoomFacts
  <2>2. /\ DOMAIN latest' = DOMAIN latest \cup {ip}
        /\ latest'[ip] = entry
        /\ \A i \in DOMAIN latest \ {ip} : latest'[i] = latest[i]
    BY <1>4, LearnStep
  <2> HIDE DEF ip, entry
  <2> QED
    BY <1>1, <1>2, <1>3, <2>1, <2>2 DEF CacheTypeOK
<1>5. CASE ~ LearnsFrom(packet)
  BY <1>1, <1>2, <1>5 DEF LearnFromPacket, CacheTypeOK
<1> QED
  BY <1>4, <1>5

(* A cache that is looked up keeps its types.                              *)
LEMMA LookupTypeOK ==
  ASSUME CacheTypeOK, NEW ip \in Ip, NEW now \in clock .. Horizon,
         LookupMac(ip, now)
  PROVE  CacheTypeOK'
<1>1. clock' \in Instant
  BY CacheAssumption DEF LookupMac, CacheTypeOK, Instant
<1>2. /\ DOMAIN ip_to_mac' \subseteq DOMAIN ip_to_mac
      /\ \A i \in DOMAIN ip_to_mac' : ip_to_mac'[i] = ip_to_mac[i]
  BY UnexpiredFacts DEF LookupMac
<1>3. \A i \in DOMAIN ip_to_mac' : ip_to_mac'[i].mac \in Mac
  BY <1>2 DEF CacheTypeOK, CacheEntry
<1>4. found' \in [ip : Ip \cup {0}, mac : Mac \cup {NoMac}]
  BY <1>3 DEF LookupMac, LookedUp
<1> QED
  BY <1>1, <1>2, <1>4 DEF LookupMac, CacheTypeOK

(* A sweep keeps the types.                                                *)
LEMMA SweepTypeOK ==
  ASSUME CacheTypeOK, NEW now \in clock .. Horizon, RemoveExpired(now)
  PROVE  CacheTypeOK'
<1>1. clock' \in Instant
  BY CacheAssumption DEF RemoveExpired, CacheTypeOK, Instant
<1>2. /\ DOMAIN ip_to_mac' \subseteq DOMAIN ip_to_mac
      /\ \A i \in DOMAIN ip_to_mac' : ip_to_mac'[i] = ip_to_mac[i]
  BY UnexpiredFacts DEF RemoveExpired
<1> QED
  BY <1>1, <1>2 DEF RemoveExpired, CacheTypeOK, NoLookup

(* Every call keeps the types.                                             *)
LEMMA CacheNextTypeOK == CacheTypeOK /\ [CacheNext]_cacheVars => CacheTypeOK'
<1> SUFFICES ASSUME CacheTypeOK, [CacheNext]_cacheVars
             PROVE  CacheTypeOK'
  OBVIOUS
<1>1. CASE CacheNext
  BY <1>1, LearnTypeOK, LookupTypeOK, SweepTypeOK DEF CacheNext
<1>2. CASE UNCHANGED cacheVars
  BY <1>2 DEF cacheVars, CacheTypeOK
<1> QED
  BY <1>1, <1>2

(* Addresses, instants and the history have their types, whatever is       *)
(* learned and looked up.                                                  *)
THEOREM CacheTypeCorrect == CacheSpec => []CacheTypeOK
BY CacheInitTypeOK, CacheNextTypeOK, PTL DEF CacheSpec

--------------------------------------------------------------------------------
(* What the cache holds and what it has dropped.                           *)

(* No mapping was learned after the last call.                             *)
NothingFromTheFuture ==
  \A ip \in DOMAIN latest : latest[ip].learned_at <= clock

(* The inductive invariant.                                                *)
CacheInv ==
  /\ CacheTypeOK
  /\ IsFiniteSet(DOMAIN ip_to_mac)
  /\ NothingFromTheFuture
  /\ EntriesAreLatest
  /\ KeepsMostRecent
  /\ LookupsAreFresh

(* Instants and the numbers they are counted with.                         *)
LEMMA LearnedFacts ==
  ASSUME CacheInv, NEW ip \in DOMAIN latest, NEW now \in clock .. Horizon
  PROVE  /\ latest[ip].learned_at \in Nat
         /\ latest[ip].learned_at <= now
         /\ clock \in Nat
         /\ now \in Nat
         /\ clock <= now
BY CacheAssumption DEF CacheInv, CacheTypeOK, NothingFromTheFuture, CacheEntry, Instant

(* What the sweep leaves at now: never an older mapping, never too many,   *)
(* and a live mapping is missing only from a cache full of younger ones.   *)
LEMMA SweepFacts ==
  ASSUME CacheInv, NEW now \in clock .. Horizon
  PROVE  LET live == DOMAIN Unexpired(ip_to_mac, now)
         IN  /\ IsFiniteSet(live)
             /\ Cardinality(live) <= MaxEntries
             /\ \A ip \in live : ip \in DOMAIN latest /\ ip_to_mac[ip] = latest[ip]
             /\ \A ip \in DOMAIN latest \ live :
                  Age(now, latest[ip].learned_at) < Ttl =>
                    /\ Cardinality(live) = MaxEntries
                    /\ \A other \in live :
                         ip_to_mac[other].learned_at >= latest[ip].learned_at
<1> DEFINE live == DOMAIN Unexpired(ip_to_mac, now)
<1>1. /\ live \subseteq DOMAIN ip_to_mac
      /\ \A ip \in DOMAIN ip_to_mac :
           ip \in live <=> Age(now, ip_to_mac[ip].learned_at) < Ttl
  BY UnexpiredFacts
<1> HIDE DEF live
<1>2. IsFiniteSet(live) /\ Cardinality(live) <= Cardinality(DOMAIN ip_to_mac)
  BY <1>1, FS_Subset DEF CacheInv
<1>3. Cardinality(DOMAIN ip_to_mac) \in Nat /\ Cardinality(live) \in Nat
  BY <1>2, FS_CardinalityType DEF CacheInv
<1>4. Cardinality(live) <= MaxEntries
  BY <1>2, <1>3, CacheAssumption DEF CacheInv, EntriesAreLatest
<1>5. \A ip \in DOMAIN ip_to_mac : ip \in DOMAIN latest /\ ip_to_mac[ip] = latest[ip]
  BY DEF CacheInv, EntriesAreLatest
<1>6. ASSUME NEW ip \in DOMAIN latest \ live,
             Age(now, latest[ip].learned_at) < Ttl
      PROVE  /\ Cardinality(live) = MaxEntries
             /\ \A other \in live :
                  ip_to_mac[other].learned_at >= latest[ip].learned_at
  <2>1. ip \notin DOMAIN ip_to_mac
    BY <1>1, <1>5, <1>6
  <2>2. Age(clock, latest[ip].learned_at) < Ttl
    <3>1. /\ Age(clock, latest[ip].learned_at) <= Age(now, latest[ip].learned_at)
          /\ Age(clock, latest[ip].learned_at) \in Nat
          /\ Age(now, latest[ip].learned_at) \in Nat
      BY LearnedFacts DEF Age
    <3> QED
      BY <3>1, <1>6, CacheAssumption
  <2>3. /\ Cardinality(DOMAIN ip_to_mac) = MaxEntries
        /\ \A other \in DOMAIN ip_to_mac :
             ip_to_mac[other].learned_at >= latest[ip].learned_at
    BY <2>1, <2>2 DEF CacheInv, KeepsMostRecent
  <2>4. ASSUME NEW other \in DOMAIN ip_to_mac
        PROVE  other \in live
    <3>1. /\ other \in DOMAIN latest
          /\ ip_to_mac[other].learned_at = latest[other].learned_at
      BY <1>5
    <3>2. latest[other].learned_at >= latest[ip].learned_at
      BY <2>3, <3>1
    <3>3. /\ latest[ip].learned_at \in Nat
          /\ latest[other].learned_at \in Nat
          /\ now \in Nat
      BY <3>1, LearnedFacts
    <3>4. Age(now, latest[other].learned_at) < Ttl
      BY <1>6, <3>2, <3>3, CacheAssumption DEF Age
    <3> QED
      BY <1>1, <3>1, <3>4
  <2>5. live = DOMAIN ip_to_mac
    BY <1>1, <2>4
  <2> QED
    BY <2>3, <2>5
<1> QED
  BY <1>1, <1>2, <1>4, <1>5, <1>6 DEF live

(* Nothing but the sweep: what a lookup and remove_expired leave.          *)
LEMMA SweepKeeps ==
  ASSUME CacheInv, NEW now \in clock .. Horizon,
         clock' = now,
         ip_to_mac' = Unexpired(ip_to_mac, now),
         latest' = latest
  PROVE  /\ IsFiniteSet(DOMAIN ip_to_mac)'
         /\ NothingFromTheFuture'
         /\ EntriesAreLatest'
         /\ KeepsMostRecent'
<1>1. NothingFromTheFuture'
  BY LearnedFacts DEF NothingFromTheFuture
<1>2. \A ip \in DOMAIN ip_to_mac' : ip_to_mac'[ip] = ip_to_mac[ip]
  BY UnexpiredFacts
<1>3. /\ IsFiniteSet(DOMAIN ip_to_mac')
      /\ Cardinality(DOMAIN ip_to_mac') <= MaxEntries
      /\ \A ip \in DOMAIN ip_to_mac' : ip \in DOMAIN latest /\ ip_to_mac[ip] = latest[ip]
      /\ \A ip \in DOMAIN latest \ DOMAIN ip_to_mac' :
           Age(now, latest[ip].learned_at) < Ttl =>
             /\ Cardinality(DOMAIN ip_to_mac') = MaxEntries
             /\ \A other \in DOMAIN ip_to_mac' :
                  ip_to_mac[other].learned_at >= latest[ip].learned_at
  BY SweepFacts
<1>4. EntriesAreLatest'
  BY <1>2, <1>3 DEF EntriesAreLatest
<1>5. KeepsMostRecent'
  BY <1>2, <1>3 DEF KeepsMostRecent
<1> QED
  BY <1>1, <1>3, <1>4, <1>5

(* Room for one more: all of the entries, if they are not too many, or all *)
(* but one that was learned no later than the others.                      *)
LEMMA RoomFacts ==
  ASSUME NEW entries, Entries(entries), MaxEntries # 0,
         Cardinality(DOMAIN entries) <= MaxEntries
  PROVE  LET kept == DOMAIN WithRoom(entries)
         IN  /\ IsFiniteSet(kept)
             /\ \/ /\ kept = DOMAIN entries
                   /\ Cardinality(kept) < MaxEntries
                \/ \E oldest \in DOMAIN entries :
                     /\ kept = DOMAIN entries \ {oldest}
                     /\ Cardinality(DOMAIN entries) = MaxEntries
                     /\ Cardinality(kept) = MaxEntries - 1
                     /\ \A other \in DOMAIN entries :
                          entries[oldest].learned_at <= entries[other].learned_at
<1> DEFINE kept == DOMAIN WithRoom(entries)
<1>1. IsFiniteSet(DOMAIN entries) /\ Cardinality(DOMAIN entries) \in Nat
  BY FS_CardinalityType DEF Entries
<1>2. CASE Cardinality(DOMAIN entries) >= MaxEntries
  <2>1. Cardinality(DOMAIN entries) = MaxEntries
    BY <1>1, <1>2, CacheAssumption
  <2>2. DOMAIN entries # {}
    BY <2>1, FS_EmptySet
  <2>3. /\ Oldest(entries) \in DOMAIN entries
        /\ \A other \in DOMAIN entries :
             entries[Oldest(entries)].learned_at <= entries[other].learned_at
    BY <2>2, OldestFacts
  <2>4. kept = DOMAIN entries \ {Oldest(entries)}
    BY <1>2 DEF WithRoom, Restrict
  <2> HIDE DEF kept
  <2>5. IsFiniteSet(kept) /\ Cardinality(kept) = MaxEntries - 1
    BY <1>1, <2>1, <2>3, <2>4, FS_RemoveElement
  <2> QED
    BY <2>1, <2>3, <2>4, <2>5 DEF kept
<1>3. CASE ~ (Cardinality(DOMAIN entries) >= MaxEntries)
  BY <1>1, <1>3, CacheAssumption DEF WithRoom
<1> QED
  BY <1>2, <1>3

(* Learning makes room by dropping the oldest of a full cache, and only    *)
(* for an address that is not in it.                                       *)
LEMMA LearnKeeps ==
  ASSUME CacheInv, NEW packet \in ArpPacket, NEW now \in clock .. Horizon,
         LearnFromPacket(packet, now), LearnsFrom(packet)
  PROVE  /\ IsFiniteSet(DOMAIN ip_to_mac)'
         /\ NothingFromTheFuture'
         /\ EntriesAreLatest'
         /\ KeepsMostRecent'
<1> DEFINE ip      == packet.sender_ip
           entry   == [mac |-> packet.sender_mac, learned_at |-> now]
           entries == Unexpired(ip_to_mac, now)
           live    == DOMAIN entries
           kept    == IF ip \in live THEN live ELSE DOMAIN WithRoom(entries)
<1>1. /\ DOMAIN ip_to_mac' = {ip} \cup kept
      /\ ip_to_mac'[ip] = entry
      /\ \A i \in DOMAIN ip_to_mac' \ {ip} :
           i \in live /\ ip_to_mac'[i] = ip_to_mac[i]
      /\ DOMAIN latest' = DOMAIN latest \cup {ip}
      /\ latest'[ip] = entry
      /\ \A i \in DOMAIN latest \ {ip} : latest'[i] = latest[i]
  BY LearnStep
<1>2. /\ IsFiniteSet(live)
      /\ Cardinality(live) <= MaxEntries
      /\ \A i \in live : i \in DOMAIN latest /\ ip_to_mac[i] = latest[i]
      /\ \A i \in DOMAIN latest \ live :
           Age(now, latest[i].learned_at) < Ttl =>
             /\ Cardinality(live) = MaxEntries
             /\ \A other \in live :
                  ip_to_mac[other].learned_at >= latest[i].learned_at
  BY SweepFacts
<1>3. live \subseteq DOMAIN ip_to_mac /\ \A i \in live : entries[i] = ip_to_mac[i]
  BY UnexpiredFacts
<1>4. Entries(entries)
  BY <1>2, <1>3 DEF Entries, CacheInv, CacheTypeOK
<1>5. MaxEntries \in Nat \ {0} /\ clock' = now /\ entry.learned_at = now
  BY CacheAssumption DEF LearnsFrom, LearnFromPacket
<1>6. Cardinality(live) \in Nat
  BY <1>2, FS_CardinalityType
<1>7. \/ /\ ip \in live
         /\ kept = live
      \/ /\ ip \notin live
         /\ IsFiniteSet(kept)
         /\ kept = live
         /\ Cardinality(kept) < MaxEntries
      \/ /\ ip \notin live
         /\ IsFiniteSet(kept)
         /\ \E oldest \in live :
              /\ kept = live \ {oldest}
              /\ Cardinality(live) = MaxEntries
              /\ Cardinality(kept) = MaxEntries - 1
              /\ \A other \in live :
                   ip_to_mac[oldest].learned_at <= ip_to_mac[other].learned_at
  <2>1. CASE ip \in live
    BY <2>1
  <2>2. CASE ip \notin live
    <3>1. kept = DOMAIN WithRoom(entries)
      BY <2>2
    <3> HIDE DEF kept, entries
    <3>2. /\ IsFiniteSet(kept)
          /\ \/ kept = live /\ Cardinality(kept) < MaxEntries
             \/ \E oldest \in live :
                  /\ kept = live \ {oldest}
                  /\ Cardinality(live) = MaxEntries
                  /\ Cardinality(kept) = MaxEntries - 1
                  /\ \A other \in live :
                       entries[oldest].learned_at <= entries[other].learned_at
      BY <1>2, <1>4, <1>5, <3>1, RoomFacts
    <3> HIDE DEF live
    <3>3. \A oldest \in live, other \in live :
            /\ entries[oldest].learned_at = ip_to_mac[oldest].learned_at
            /\ entries[other].learned_at = ip_to_mac[other].learned_at
      BY <1>3
    <3> QED
      BY <2>2, <3>2, <3>3
  <2> QED
    BY <2>1, <2>2
<1> HIDE DEF ip, entry, entries, live, kept
<1>8. /\ IsFiniteSet(DOMAIN ip_to_mac')
      /\ Cardinality(DOMAIN ip_to_mac') <= MaxEntries
      /\ kept \subseteq live
  <2>1. CASE ip \in live
    <3>1. kept = live /\ DOMAIN ip_to_mac' = live
      BY <1>1, <1>7, <2>1
    <3> QED
      BY <1>2, <3>1
  <2>2. CASE ip \notin live
    <3>1. /\ IsFiniteSet(kept)
          /\ kept \subseteq live
          /\ Cardinality(kept) < MaxEntries
      BY <1>5, <1>7, <2>2
    <3>2. ip \notin kept /\ DOMAIN ip_to_mac' = kept \cup {ip}
      BY <1>1, <2>2, <3>1
    <3>3. /\ IsFiniteSet(DOMAIN ip_to_mac')
          /\ Cardinality(DOMAIN ip_to_mac') = Cardinality(kept) + 1
      BY <3>1, <3>2, FS_AddElement
    <3>4. Cardinality(kept) \in Nat
      BY <3>1, FS_CardinalityType
    <3> QED
      BY <1>5, <3>1, <3>3, <3>4
  <2> QED
    BY <2>1, <2>2
<1>9. \A i \in DOMAIN latest :
        /\ latest[i].learned_at \in Nat
        /\ latest[i].learned_at <= now
        /\ now \in Nat
  BY LearnedFacts
<1>10. NothingFromTheFuture'
  <2>1. now <= now
    BY CacheAssumption DEF CacheInv, CacheTypeOK, Instant
  <2> QED
    BY <1>1, <1>5, <1>9, <2>1 DEF NothingFromTheFuture
<1>11. EntriesAreLatest'
  BY <1>1, <1>2, <1>8 DEF EntriesAreLatest
<1>12. ASSUME NEW gone \in DOMAIN latest' \ DOMAIN ip_to_mac',
              Age(now, latest'[gone].learned_at) < Ttl
       PROVE  /\ Cardinality(DOMAIN ip_to_mac') = MaxEntries
              /\ \A other \in DOMAIN ip_to_mac' :
                   ip_to_mac'[other].learned_at >= latest'[gone].learned_at
  <2>1. /\ gone # ip
        /\ gone \in DOMAIN latest
        /\ latest'[gone] = latest[gone]
        /\ gone \notin kept
    BY <1>1
  <2>2. /\ Cardinality(DOMAIN ip_to_mac') = MaxEntries
        /\ \A other \in live :
             ip_to_mac[other].learned_at >= latest[gone].learned_at
    <3>1. CASE ip \in live
      <4>1. kept = live /\ DOMAIN ip_to_mac' = live
        BY <1>1, <1>7, <3>1
      <4> QED
        BY <1>2, <1>12, <2>1, <4>1
    <3>2. CASE ip \notin live /\ gone \notin live
      <4>1. /\ Cardinality(live) = MaxEntries
            /\ \A other \in live :
                 ip_to_mac[other].learned_at >= latest[gone].learned_at
        BY <1>2, <1>12, <2>1, <3>2
      <4>2. IsFiniteSet(kept) /\ Cardinality(kept) = MaxEntries - 1
        BY <1>5, <1>7, <3>2, <4>1
      <4>3. ip \notin kept /\ DOMAIN ip_to_mac' = kept \cup {ip}
        BY <1>1, <1>8, <3>2
      <4>4. Cardinality(DOMAIN ip_to_mac') = MaxEntries
        BY <1>5, <4>2, <4>3, FS_AddElement
      <4> QED
        BY <4>1, <4>4
    <3>3. CASE ip \notin live /\ gone \in live
      <4>1. PICK oldest \in live :
              /\ kept = live \ {oldest}
              /\ Cardinality(kept) = MaxEntries - 1
              /\ \A other \in live :
                   ip_to_mac[oldest].learned_at <= ip_to_mac[other].learned_at
        BY <1>7, <2>1, <3>3
      <4>2. oldest = gone /\ ip_to_mac[gone] = latest[gone]
        BY <1>2, <2>1, <3>3, <4>1
      <4>3. \A other \in live :
              ip_to_mac[other].learned_at \in Nat /\ latest[gone].learned_at \in Nat
        BY <1>2, <1>9, <2>1
      <4>4. \A other \in live :
              ip_to_mac[other].learned_at >= latest[gone].learned_at
        BY <4>1, <4>2, <4>3
      <4>5. ip \notin kept /\ DOMAIN ip_to_mac' = kept \cup {ip} /\ IsFiniteSet(kept)
        BY <1>1, <1>7, <1>8, <3>3
      <4>6. Cardinality(kept) = MaxEntries - 1 /\ Cardinality(kept \cup {ip}) = MaxEntries
        <5>1. Cardinality(kept) = MaxEntries - 1
          BY <4>1
        <5> QED
          BY <1>5, <4>5, <5>1, FS_AddElement
      <4> QED
        BY <4>4, <4>5, <4>6
    <3> QED
      BY <3>1, <3>2, <3>3
  <2>3. ip_to_mac'[ip].learned_at >= latest[gone].learned_at
    BY <1>1, <1>5, <1>9, <2>1
  <2>4. \A other \in DOMAIN ip_to_mac' \ {ip} :
          ip_to_mac'[other].learned_at >= latest[gone].learned_at
    BY <1>1, <2>2
  <2> QED
    BY <2>1, <2>2, <2>3, <2>4
<1>13. KeepsMostRecent'
  BY <1>5, <1>12 DEF KeepsMostRecent
<1> QED
  BY <1>8, <1>10, <1>11, <1>13

--------------------------------------------------------------------------------
(* The steps.                                                              *)

(* The empty cache, before anything was learned.                           *)
LEMMA CacheInitInv == CacheInit => CacheInv
<1> SUFFICES ASSUME CacheInit
             PROVE  CacheInv
  OBVIOUS
<1>1. DOMAIN ip_to_mac = {} /\ DOMAIN latest = {} /\ found.mac = NoMac
  BY DEF CacheInit, NoLookup
<1>2. IsFiniteSet(DOMAIN ip_to_mac) /\ Cardinality(DOMAIN ip_to_mac) = 0
  BY <1>1, FS_EmptySet
<1>3. EntriesAreLatest
  BY <1>1, <1>2, CacheAssumption DEF EntriesAreLatest
<1> QED
  BY <1>1, <1>2, <1>3, CacheInitTypeOK
     DEF CacheInv, NothingFromTheFuture, KeepsMostRecent, LookupsAreFresh

(* A packet is learned from, or changes nothing but the clock.             *)
LEMMA LearnInv ==
  ASSUME CacheInv, NEW packet \in ArpPacket, NEW now \in clock .. Horizon,
         LearnFromPacket(packet, now)
  PROVE  CacheInv'
<1>1. CacheTypeOK'
  BY LearnTypeOK DEF CacheInv
<1>2. LookupsAreFresh'
  BY DEF LearnFromPacket, LookupsAreFresh, NoLookup
<1>3. CASE LearnsFrom(packet)
  BY <1>1, <1>2, <1>3, LearnKeeps DEF CacheInv
<1>4. CASE ~ LearnsFrom(packet)
  <2>1. clock' = now /\ ip_to_mac' = ip_to_mac /\ latest' = latest
    BY <1>4 DEF LearnFromPacket
  <2>2. IsFiniteSet(DOMAIN ip_to_mac)' /\ EntriesAreLatest'
    BY <2>1 DEF CacheInv, EntriesAreLatest
  <2>3. NothingFromTheFuture'
    BY <2>1, LearnedFacts DEF NothingFromTheFuture
  <2>4. ASSUME NEW ip \in DOMAIN latest, Age(now, latest[ip].learned_at) < Ttl
        PROVE  Age(clock, latest[ip].learned_at) < Ttl
    BY <2>4, LearnedFacts, CacheAssumption DEF Age
  <2>5. KeepsMostRecent'
    BY <2>1, <2>4 DEF CacheInv, KeepsMostRecent
  <2> QED
    BY <1>1, <1>2, <2>2, <2>3, <2>5 DEF CacheInv
<1> QED
  BY <1>3, <1>4

(* A lookup answers with an entry that its sweep kept.                     *)
LEMMA LookupInv ==
  ASSUME CacheInv, NEW ip \in Ip, NEW now \in clock .. Horizon,
         LookupMac(ip, now)
  PROVE  CacheInv'
<1>1. CacheTypeOK'
  BY LookupTypeOK DEF CacheInv
<1>2. /\ IsFiniteSet(DOMAIN ip_to_mac)'
      /\ NothingFromTheFuture'
      /\ EntriesAreLatest'
      /\ KeepsMostRecent'
  BY SweepKeeps DEF LookupMac
<1>3. LookupsAreFresh'
  <2> SUFFICES ASSUME found'.mac # NoMac
               PROVE  /\ found'.ip \in DOMAIN latest
                      /\ found'.mac = latest[found'.ip].mac
                      /\ Age(now, latest[found'.ip].learned_at) < Ttl
    BY DEF LookupMac, LookupsAreFresh
  <2>1. found'.ip = ip /\ ip \in DOMAIN ip_to_mac' /\ found'.mac = ip_to_mac'[ip].mac
    BY DEF LookupMac, LookedUp
  <2>2. /\ ip \in DOMAIN ip_to_mac
        /\ ip_to_mac'[ip] = ip_to_mac[ip]
        /\ Age(now, ip_to_mac[ip].learned_at) < Ttl
    BY <2>1, UnexpiredFacts DEF LookupMac
  <2>3. ip \in DOMAIN latest /\ ip_to_mac[ip] = latest[ip]
    BY <2>2 DEF CacheInv, EntriesAreLatest
  <2> QED
    BY <2>1, <2>2, <2>3
<1> QED
  BY <1>1, <1>2, <1>3 DEF CacheInv

(* A sweep of its own answers nothing.                                     *)
LEMMA SweepInv ==
  ASSUME CacheInv, NEW now \in clock .. Horizon, RemoveExpired(now)
  PROVE  CacheInv'
<1>1. CacheTypeOK'
  BY SweepTypeOK DEF CacheInv
<1>2. /\ IsFiniteSet(DOMAIN ip_to_mac)'
      /\ NothingFromTheFuture'
      /\ EntriesAreLatest'
      /\ KeepsMostRecent'
  BY SweepKeeps DEF RemoveExpired
<1>3. LookupsAreFresh'
  BY DEF RemoveExpired, LookupsAreFresh, NoLookup
<1> QED
  BY <1>1, <1>2, <1>3 DEF CacheInv

(* Every call keeps the invariant.                                         *)
LEMMA CacheNextInv == CacheInv /\ [CacheNext]_cacheVars => CacheInv'
<1> SUFFICES ASSUME CacheInv, [CacheNext]_cacheVars
             PROVE  CacheInv'
  OBVIOUS
<1>1. CASE CacheNext
  BY <1>1, LearnInv, LookupInv, SweepInv DEF CacheNext
<1>2. CASE UNCHANGED cacheVars
  <2>1. CacheTypeOK'
    BY <1>2 DEF cacheVars, CacheInv, CacheTypeOK
  <2>2. /\ IsFiniteSet(DOMAIN ip_to_mac)'
        /\ NothingFromTheFuture'
        /\ EntriesAreLatest'
    BY <1>2 DEF cacheVars, CacheInv, NothingFromTheFuture, EntriesAreLatest
  <2>3. KeepsMostRecent' /\ LookupsAreFresh'
    BY <1>2 DEF cacheVars, CacheInv, KeepsMostRecent, LookupsAreFresh
  <2> QED
    BY <2>1, <2>2, <2>3 DEF CacheInv
<1> QED
  BY <1>1, <1>2

(* The invariant holds throughout, for every size and time to live.        *)
THEOREM CacheCorrect == CacheSpec => []CacheInv
BY CacheInitInv, CacheNextInv, PTL DEF CacheSpec

(* The cache never exceeds its size, and never holds a mapping that a later *)
(* ARP packet replaced.                                                    *)
THEOREM CacheHoldsLatest == CacheSpec => []EntriesAreLatest
<1>1. CacheInv => EntriesAreLatest
  BY DEF CacheInv
<1> QED
  BY <1>1, CacheCorrect, PTL

(* A mapping that has not expired is dropped only from a cache full of     *)
(* mappings learned no earlier.                                            *)
THEOREM CacheKeepsMostRecent == CacheSpec => []KeepsMostRecent
<1>1. CacheInv => KeepsMostRecent
  BY DEF CacheInv
<1> QED
  BY <1>1, CacheCorrect, PTL

(* A lookup never answers with a replaced or an expired mapping.           *)
THEOREM CacheLookupsAreFresh == CacheSpec => []LookupsAreFresh
<1>1. CacheInv => LookupsAreFresh
  BY DEF CacheInv
<1> QED
  BY <1>1, CacheCorrect, PTL
--------------------------------------------------------------------------------
(***************************************************************************)
(* Proofs about ArpResolver, for every set of addresses, every cache,      *)
(* every retry interval and every number of attempts, 0 included.          *)
(*                                                                         *)
(* The resolver only uses the operations of its cache, so that it inherits *)
(* what is proved of them.  That an address being resolved is not cached   *)
(* (PendingNotCached) makes the cache's answers end nothing, and with it   *)
(* the deadlines follow from the requests (Deadlines): an address that is  *)
(* not being resolved any more has waited out its last request.            *)
(***************************************************************************)

(* The resolver as a user of its cache: every call makes one call of the   *)
(* cache, at the same instant.                                             *)
LEMMA NextIsCacheNext == [Next]_vars => [CacheNext]_cacheVars
<1>1. ASSUME NEW now \in clock .. Horizon, NEW ip \in Ip,
             Resolve(ip, now) \/ CachedMac(ip, now)
      PROVE  CacheNext
  BY <1>1 DEF Resolve, CachedMac, CacheNext
<1>2. ASSUME NEW now \in clock .. Horizon, NEW packet \in ArpPacket,
             Observe(packet, now)
      PROVE  CacheNext
  BY <1>2 DEF Observe, CacheNext
<1>3. Next => CacheNext
  BY <1>1, <1>2 DEF Next
<1>4. UNCHANGED vars => UNCHANGED cacheVars
  BY DEF vars
<1> QED
  BY <1>3, <1>4

(* Whatever the resolver does, its cache behaves as a cache does.          *)
THEOREM ResolverUsesCache == Spec => CacheSpec
<1>1. Init => CacheInit
  BY DEF Init
<1> QED
  BY <1>1, NextIsCacheNext, PTL DEF Spec, CacheSpec

--------------------------------------------------------------------------------
(* The open resolutions and their deadlines.                               *)

(* The deadline of an open resolution is that of its last request, and a   *)
(* request whose resolution is over was waited for.                        *)
Deadlines ==
  /\ \A ip \in DOMAIN pending :
       /\ ip \in DOMAIN last_request
       /\ pending[ip].next_retry_at = NextRetryAt(last_request[ip])
  /\ \A ip \in DOMAIN last_request \ DOMAIN pending :
       last_request[ip] + RetryInterval <= InstantMax =>
         clock >= last_request[ip] + RetryInterval

(* The inductive invariant.                                                *)
Inv ==
  /\ CacheInv
  /\ TypeOK
  /\ PendingNotCached
  /\ AttemptsAreCounted
  /\ Deadlines

(* Deadlines and instants are instants.                                    *)
LEMMA NextRetryAtType ==
  ASSUME Inv, NEW now \in clock .. Horizon
  PROVE  /\ now \in Instant
         /\ now \in Nat /\ clock \in Nat /\ clock <= now
         /\ NextRetryAt(now) \in 0 .. InstantMax
<1>1. clock \in Instant
  BY DEF Inv, CacheInv, CacheTypeOK
<1> QED
  BY <1>1, CacheAssumption, ResolverAssumption DEF NextRetryAt, Instant

(* A request keeps the invariant if it is the next one of its address,     *)
(* which the cache does not hold.                                          *)
LEMMA SendRequestInv ==
  ASSUME Inv, NEW ip \in Ip, NEW now \in clock .. Horizon,
         NEW attempts \in 1 .. MaxAttempts,
         attempts = unanswered[ip] + 1,
         CacheInv',
         DOMAIN ip_to_mac' \subseteq DOMAIN ip_to_mac \ {ip},
         clock' = now,
         SendRequest(ip, attempts, now)
  PROVE  Inv'
<1>1. /\ DOMAIN pending' = DOMAIN pending \cup {ip}
      /\ pending'[ip] = [attempts_sent |-> attempts,
                         next_retry_at |-> NextRetryAt(now)]
      /\ \A other \in DOMAIN pending \ {ip} : pending'[other] = pending[other]
      /\ DOMAIN last_request' = DOMAIN last_request \cup {ip}
      /\ last_request'[ip] = now
      /\ \A other \in DOMAIN last_request \ {ip} :
           last_request'[other] = last_request[other]
      /\ unanswered' = [unanswered EXCEPT ![ip] = @ + 1]
      /\ outcome' = Outcome(ip, "SendRequest")
  BY DEF SendRequest, Put
<1>2. /\ now \in Instant
      /\ now \in Nat /\ clock \in Nat /\ clock <= now
      /\ NextRetryAt(now) \in 0 .. InstantMax
  BY NextRetryAtType
<1>3. unanswered \in [Ip -> 0 .. MaxAttempts]
  BY DEF Inv, TypeOK
<1>4. TypeOK'
  <2>1. pending'[ip] \in PendingResolution
    BY <1>1, <1>2 DEF PendingResolution
  <2>2. /\ DOMAIN pending' \subseteq Ip
        /\ \A other \in DOMAIN pending' : pending'[other] \in PendingResolution
    BY <1>1, <2>1 DEF Inv, TypeOK
  <2>3. unanswered' \in [Ip -> 0 .. MaxAttempts]
    BY <1>1, <1>3
  <2>4. outcome' \in [ip : Ip, result : Result]
    BY <1>1 DEF Outcome, Result
  <2>5. /\ DOMAIN last_request' \subseteq Ip
        /\ \A other \in DOMAIN last_request' : last_request'[other] \in Instant
    BY <1>1, <1>2 DEF Inv, TypeOK
  <2> QED
    BY <2>2, <2>3, <2>4, <2>5 DEF TypeOK, CacheInv
<1>5. PendingNotCached'
  BY <1>1 DEF Inv, PendingNotCached
<1>6. AttemptsAreCounted'
  <2> SUFFICES ASSUME NEW other \in Ip
               PROVE  /\ unanswered'[other] <= MaxAttempts
                      /\ unanswered'[other] = IF other \in DOMAIN pending'
                                              THEN pending'[other].attempts_sent
                                              ELSE 0
    BY DEF AttemptsAreCounted
  <2>1. CASE other = ip
    BY <1>1, <1>3, <2>1
  <2>2. CASE other # ip
    BY <1>1, <1>3, <2>2 DEF Inv, AttemptsAreCounted
  <2> QED
    BY <2>1, <2>2
<1>7. Deadlines'
  <2>1. ASSUME NEW other \in DOMAIN pending'
        PROVE  /\ other \in DOMAIN last_request'
               /\ pending'[other].next_retry_at = NextRetryAt(last_request'[other])
    <3>1. CASE other = ip
      BY <1>1, <3>1
    <3>2. CASE other # ip
      BY <1>1, <3>2 DEF Inv, Deadlines
    <3> QED
      BY <3>1, <3>2
  <2>2. ASSUME NEW other \in DOMAIN last_request' \ DOMAIN pending',
               last_request'[other] + RetryInterval <= InstantMax
        PROVE  now >= last_request'[other] + RetryInterval
    <3>1. /\ other \in DOMAIN last_request \ DOMAIN pending
          /\ last_request'[other] = last_request[other]
      BY <1>1
    <3>2. last_request[other] \in Nat
      BY <3>1, CacheAssumption DEF Inv, TypeOK, Instant
    <3>3. clock >= last_request[other] + RetryInterval
      BY <2>2, <3>1 DEF Inv, Deadlines
    <3> QED
      BY <1>2, <3>1, <3>2, <3>3, ResolverAssumption
  <2> QED
    BY <2>1, <2>2 DEF Deadlines
<1> QED
  BY <1>4, <1>5, <1>6, <1>7 DEF Inv

(* What does not ask keeps what was asked: a resolution that ends does so  *)
(* with its address learned, or after its deadline.                        *)
LEMMA EndInv ==
  ASSUME Inv, NEW ip \in Ip, NEW now \in clock .. Horizon,
         CacheInv',
         DOMAIN ip_to_mac' \subseteq DOMAIN ip_to_mac,
         clock' = now,
         ip \in DOMAIN last_request /\ last_request[ip] + RetryInterval <= InstantMax
           => now >= last_request[ip] + RetryInterval,
         Fail(ip)
  PROVE  Inv'
<1>1. /\ DOMAIN pending' = DOMAIN pending \ {ip}
      /\ \A other \in DOMAIN pending' : pending'[other] = pending[other]
      /\ unanswered' = [unanswered EXCEPT ![ip] = 0]
      /\ outcome' = Outcome(ip, "Failed")
      /\ last_request' = last_request
  BY DEF Fail, Without, Restrict
<1>2. /\ unanswered \in [Ip -> 0 .. MaxAttempts]
      /\ now \in Nat /\ clock \in Nat /\ clock <= now
  BY NextRetryAtType DEF Inv, TypeOK
<1>3. TypeOK'
  <2>1. /\ DOMAIN pending' \subseteq Ip
        /\ \A other \in DOMAIN pending' : pending'[other] \in PendingResolution
    BY <1>1 DEF Inv, TypeOK
  <2>2. unanswered' \in [Ip -> 0 .. MaxAttempts]
    BY <1>1, <1>2, ResolverAssumption
  <2>3. outcome' \in [ip : Ip, result : Result]
    BY <1>1 DEF Outcome, Result
  <2> QED
    BY <1>1, <2>1, <2>2, <2>3 DEF TypeOK, CacheInv, Inv
<1>4. PendingNotCached'
  BY <1>1 DEF Inv, PendingNotCached
<1>5. AttemptsAreCounted'
  <2> SUFFICES ASSUME NEW other \in Ip
               PROVE  /\ unanswered'[other] <= MaxAttempts
                      /\ unanswered'[other] = IF other \in DOMAIN pending'
                                              THEN pending'[other].attempts_sent
                                              ELSE 0
    BY DEF AttemptsAreCounted
  <2>1. CASE other = ip
    BY <1>1, <1>2, <2>1, ResolverAssumption
  <2>2. CASE other # ip
    BY <1>1, <1>2, <2>2 DEF Inv, AttemptsAreCounted
  <2> QED
    BY <2>1, <2>2
<1>6. Deadlines'
  <2>1. \A other \in DOMAIN pending' :
          /\ other \in DOMAIN last_request'
          /\ pending'[other].next_retry_at = NextRetryAt(last_request'[other])
    BY <1>1 DEF Inv, Deadlines
  <2>2. ASSUME NEW other \in DOMAIN last_request \ DOMAIN pending',
               last_request[other] + RetryInterval <= InstantMax
        PROVE  now >= last_request[other] + RetryInterval
    <3>1. CASE other = ip
      BY <2>2, <3>1
    <3>2. CASE other # ip
      <4>1. clock >= last_request[other] + RetryInterval
        BY <1>1, <2>2, <3>2 DEF Inv, Deadlines
      <4>2. last_request[other] \in Nat
        BY <2>2, CacheAssumption DEF Inv, TypeOK, Instant
      <4> QED
        BY <1>2, <4>1, <4>2, ResolverAssumption
    <3> QED
      BY <3>1, <3>2
  <2> QED
    BY <1>1, <2>1, <2>2 DEF Deadlines
<1> QED
  BY <1>3, <1>4, <1>5, <1>6 DEF Inv

(* A call that neither asks nor fails nor learns keeps the invariant.      *)
LEMMA WaitInv ==
  ASSUME Inv, NEW now \in clock .. Horizon,
         CacheInv',
         DOMAIN ip_to_mac' \subseteq DOMAIN ip_to_mac,
         clock' = now,
         outcome' \in [ip : Ip, result : Result] \cup {NoOutcome},
         DOMAIN pending' = DOMAIN pending,
         \A ip \in DOMAIN pending : pending'[ip] = pending[ip],
         UNCHANGED <<unanswered, last_request>>
  PROVE  Inv'
<1>1. now \in Nat /\ clock \in Nat /\ clock <= now
  BY NextRetryAtType
<1>2. TypeOK' /\ PendingNotCached' /\ AttemptsAreCounted'
  BY DEF Inv, TypeOK, PendingNotCached, AttemptsAreCounted, CacheInv
<1>3. Deadlines'
  <2>1. ASSUME NEW ip \in DOMAIN last_request \ DOMAIN pending,
               last_request[ip] + RetryInterval <= InstantMax
        PROVE  now >= last_request[ip] + RetryInterval
    <3>1. clock >= last_request[ip] + RetryInterval
      BY <2>1 DEF Inv, Deadlines
    <3>2. last_request[ip] \in Nat
      BY <2>1, CacheAssumption DEF Inv, TypeOK, Instant
    <3> QED
      BY <1>1, <3>1, <3>2, ResolverAssumption
  <2> QED
    BY <2>1 DEF Inv, Deadlines
<1> QED
  BY <1>2, <1>3 DEF Inv

(* Learning a mapping ends the resolution of its address, and forgets what *)
(* was asked for it.                                                       *)
LEMMA ObserveInv ==
  ASSUME Inv, NEW packet \in ArpPacket, NEW now \in clock .. Horizon,
         Observe(packet, now)
  PROVE  Inv'
<1>1. CacheInv' /\ clock' = now
  BY LearnInv DEF Inv, Observe, LearnFromPacket
<1>2. now \in Nat /\ clock \in Nat /\ clock <= now
  BY NextRetryAtType
<1>3. CASE ~ LearnsFrom(packet)
  <2>1. /\ ip_to_mac' = ip_to_mac
        /\ outcome' = NoOutcome
        /\ pending' = pending
        /\ UNCHANGED <<unanswered, last_request>>
    BY <1>3 DEF Observe, LearnFromPacket
  <2> QED
    BY <1>1, <2>1, WaitInv
<1>4. CASE LearnsFrom(packet)
  <2> DEFINE ip == packet.sender_ip
  <2>1. ip \in Ip
    BY DEF ArpPacket
  <2>2. /\ DOMAIN pending' = DOMAIN pending \ {ip}
        /\ \A other \in DOMAIN pending' : pending'[other] = pending[other]
        /\ unanswered' = [unanswered EXCEPT ![ip] = 0]
        /\ DOMAIN last_request' = DOMAIN last_request \ {ip}
        /\ \A other \in DOMAIN last_request' : last_request'[other] = last_request[other]
        /\ outcome' = NoOutcome
    BY <1>4 DEF Observe, Without, Restrict
  <2>3. DOMAIN ip_to_mac' \subseteq DOMAIN ip_to_mac \cup {ip}
    <3>1. LearnFromPacket(packet, now)
      BY DEF Observe
    <3> QED
      BY <1>4, <3>1, LearnStep, UnexpiredFacts
  <2> HIDE DEF ip
  <2>4. unanswered \in [Ip -> 0 .. MaxAttempts]
    BY DEF Inv, TypeOK
  <2>5. TypeOK'
    <3>1. unanswered' \in [Ip -> 0 .. MaxAttempts]
      BY <2>1, <2>2, <2>4, ResolverAssumption
    <3>2. /\ DOMAIN pending' \subseteq Ip
          /\ \A other \in DOMAIN pending' : pending'[other] \in PendingResolution
          /\ DOMAIN last_request' \subseteq Ip
          /\ \A other \in DOMAIN last_request' : last_request'[other] \in Instant
      BY <2>2 DEF Inv, TypeOK
    <3> QED
      BY <1>1, <2>2, <3>1, <3>2 DEF TypeOK, CacheInv
  <2>6. PendingNotCached'
    BY <2>2, <2>3 DEF Inv, PendingNotCached
  <2>7. AttemptsAreCounted'
    <3> SUFFICES ASSUME NEW other \in Ip
                 PROVE  /\ unanswered'[other] <= MaxAttempts
                        /\ unanswered'[other] = IF other \in DOMAIN pending'
                                                THEN pending'[other].attempts_sent
                                                ELSE 0
      BY DEF AttemptsAreCounted
    <3>1. CASE other = ip
      BY <2>2, <2>4, <3>1, ResolverAssumption
    <3>2. CASE other # ip
      BY <2>2, <2>4, <3>2 DEF Inv, AttemptsAreCounted
    <3> QED
      BY <3>1, <3>2
  <2>8. Deadlines'
    <3>1. \A other \in DOMAIN pending' :
            /\ other \in DOMAIN last_request'
            /\ pending'[other].next_retry_at = NextRetryAt(last_request'[other])
      BY <2>2 DEF Inv, Deadlines
    <3>2. ASSUME NEW other \in DOMAIN last_request' \ DOMAIN pending',
                 last_request'[other] + RetryInterval <= InstantMax
          PROVE  now >= last_request'[other] + RetryInterval
      <4>1. /\ other \in DOMAIN last_request \ DOMAIN pending
            /\ last_request'[other] = last_request[other]
        BY <2>2
      <4>2. clock >= last_request[other] + RetryInterval
        BY <3>2, <4>1 DEF Inv, Deadlines
      <4>3. last_request[other] \in Nat
        BY <4>1, CacheAssumption DEF Inv, TypeOK, Instant
      <4> QED
        BY <1>2, <4>1, <4>2, <4>3, ResolverAssumption
    <3> QED
      BY <1>1, <3>1, <3>2 DEF Deadlines
  <2> QED
    BY <1>1, <2>5, <2>6, <2>7, <2>8 DEF Inv
<1> QED
  BY <1>3, <1>4

--------------------------------------------------------------------------------
(* The calls of resolve.                                                   *)

(* A resolution starts with a lookup: the cache only loses entries, and    *)
(* the address is one of those left exactly when it is answered.           *)
LEMMA ResolveLooksUp ==
  ASSUME Inv, NEW ip \in Ip, NEW now \in clock .. Horizon, LookupMac(ip, now)
  PROVE  /\ CacheInv'
         /\ clock' = now
         /\ DOMAIN ip_to_mac' \subseteq DOMAIN ip_to_mac
         /\ found'.mac # NoMac <=> ip \in DOMAIN ip_to_mac'
<1>1. CacheInv'
  BY LookupInv DEF Inv
<1>2. clock' = now /\ DOMAIN ip_to_mac' \subseteq DOMAIN ip_to_mac
  BY UnexpiredFacts DEF LookupMac
<1>3. \A i \in DOMAIN ip_to_mac' : ip_to_mac'[i].mac # NoMac
  <2>1. \A i \in DOMAIN ip_to_mac' : ip_to_mac'[i].mac \in Mac
    BY <1>1 DEF CacheInv, CacheTypeOK, CacheEntry
  <2> QED
    BY <2>1, CacheAssumption
<1>4. found'.mac = IF ip \in DOMAIN ip_to_mac' THEN ip_to_mac'[ip].mac ELSE NoMac
  BY DEF LookupMac, LookedUp
<1> QED
  BY <1>1, <1>2, <1>3, <1>4

(* No deadline is open where no request may be sent.                       *)
LEMMA NoAttemptsNoDeadline ==
  ASSUME Inv, MaxAttempts = 0
  PROVE  DOMAIN pending = {}
<1>1. \A ip \in DOMAIN pending : pending[ip].attempts_sent \in 1 .. MaxAttempts
  BY DEF Inv, TypeOK, PendingResolution
<1>2. 1 .. MaxAttempts = {}
  OBVIOUS
<1> QED
  BY <1>1, <1>2

(* A deadline that has come: the retry interval of the last request is     *)
(* over, if an instant could hold its end.                                 *)
LEMMA DeadlinePassed ==
  ASSUME Inv, NEW ip \in DOMAIN pending, NEW now \in clock .. Horizon,
         now >= pending[ip].next_retry_at
  PROVE  HasDeadline(ip) => now >= last_request[ip] + RetryInterval
<1>1. pending[ip].next_retry_at = NextRetryAt(last_request[ip])
  BY DEF Inv, Deadlines
<1> QED
  BY <1>1 DEF NextRetryAt, HasDeadline

(* An address that is not being resolved has no request to wait for.       *)
LEMMA NothingToWaitFor ==
  ASSUME Inv, NEW ip \in Ip \ DOMAIN pending, NEW now \in clock .. Horizon
  PROVE  HasDeadline(ip) => now >= last_request[ip] + RetryInterval
<1> SUFFICES ASSUME HasDeadline(ip)
             PROVE  now >= last_request[ip] + RetryInterval
  OBVIOUS
<1>1. clock >= last_request[ip] + RetryInterval
  BY DEF Inv, Deadlines, HasDeadline
<1>2. last_request[ip] \in Nat
  BY CacheAssumption DEF Inv, TypeOK, Instant, HasDeadline
<1> QED
  BY <1>1, <1>2, NextRetryAtType, ResolverAssumption

(* A resolution that fails has sent every request, and waited.             *)
LEMMA FailureEarned ==
  ASSUME Inv, NEW ip \in Ip, NEW now \in clock .. Horizon,
         RefuseToAsk(ip) \/ GiveUp(ip, now)
  PROVE  /\ unanswered[ip] = MaxAttempts
         /\ HasDeadline(ip) => now >= last_request[ip] + RetryInterval
<1>1. unanswered[ip] = IF ip \in DOMAIN pending THEN pending[ip].attempts_sent ELSE 0
  BY DEF Inv, AttemptsAreCounted
<1>2. CASE RefuseToAsk(ip)
  <2>1. MaxAttempts = 0 /\ ip \notin DOMAIN pending
    BY <1>2, NoAttemptsNoDeadline DEF RefuseToAsk
  <2> QED
    BY <1>1, <2>1, NothingToWaitFor
<1>3. CASE GiveUp(ip, now)
  <2>1. /\ ip \in DOMAIN pending
        /\ now >= pending[ip].next_retry_at
        /\ pending[ip].attempts_sent >= MaxAttempts
    BY <1>3 DEF GiveUp
  <2>2. pending[ip].attempts_sent \in 1 .. MaxAttempts
    BY <2>1 DEF Inv, TypeOK, PendingResolution
  <2>3. unanswered[ip] = MaxAttempts
    BY <1>1, <2>1, <2>2, ResolverAssumption
  <2> QED
    BY <2>1, <2>3, DeadlinePassed
<1> QED
  BY <1>2, <1>3

(* A request is the next one of its address, and not too early.            *)
LEMMA RequestSpaced ==
  ASSUME Inv, NEW ip \in Ip, NEW now \in clock .. Horizon,
         AskFirst(ip, now) \/ AskAgain(ip, now)
  PROVE  /\ HasDeadline(ip) => now >= last_request[ip] + RetryInterval
         /\ unanswered[ip] + 1 \in 1 .. MaxAttempts
         /\ SendRequest(ip, unanswered[ip] + 1, now)
<1>1. unanswered[ip] = IF ip \in DOMAIN pending THEN pending[ip].attempts_sent ELSE 0
  BY DEF Inv, AttemptsAreCounted
<1>2. CASE AskFirst(ip, now)
  <2>1. ip \notin DOMAIN pending /\ MaxAttempts # 0 /\ SendRequest(ip, 1, now)
    BY <1>2 DEF AskFirst
  <2>2. unanswered[ip] + 1 = 1
    BY <1>1, <2>1
  <2> QED
    BY <2>1, <2>2, NothingToWaitFor, ResolverAssumption
<1>3. CASE AskAgain(ip, now)
  <2>1. /\ ip \in DOMAIN pending
        /\ now >= pending[ip].next_retry_at
        /\ pending[ip].attempts_sent < MaxAttempts
        /\ SendRequest(ip, pending[ip].attempts_sent + 1, now)
    BY <1>3 DEF AskAgain
  <2>2. pending[ip].attempts_sent \in 1 .. MaxAttempts
    BY <2>1 DEF Inv, TypeOK, PendingResolution
  <2>3. unanswered[ip] + 1 \in 1 .. MaxAttempts
    BY <1>1, <2>1, <2>2, ResolverAssumption
  <2>4. SendRequest(ip, unanswered[ip] + 1, now)
    BY <1>1, <2>1
  <2> QED
    BY <2>1, <2>3, <2>4, DeadlinePassed
<1> QED
  BY <1>2, <1>3

(* resolve keeps the invariant.                                            *)
LEMMA ResolveInv ==
  ASSUME Inv, NEW ip \in Ip, NEW now \in clock .. Horizon, Resolve(ip, now)
  PROVE  Inv'
<1>1. /\ CacheInv'
      /\ clock' = now
      /\ DOMAIN ip_to_mac' \subseteq DOMAIN ip_to_mac
      /\ found'.mac # NoMac <=> ip \in DOMAIN ip_to_mac'
  BY ResolveLooksUp DEF Resolve
<1>2. CASE ResolveFromCache(ip)
  <2>1. ip \notin DOMAIN pending
    BY <1>1, <1>2 DEF ResolveFromCache, Inv, PendingNotCached
  <2>2. /\ DOMAIN pending' = DOMAIN pending
        /\ \A other \in DOMAIN pending : pending'[other] = pending[other]
    BY <1>2, <2>1 DEF ResolveFromCache, Without, Restrict
  <2>3. outcome' \in [ip : Ip, result : Result]
    BY <1>2 DEF ResolveFromCache, Outcome, Result
  <2>4. UNCHANGED <<unanswered, last_request>>
    BY <1>2 DEF ResolveFromCache
  <2> QED
    BY <1>1, <2>2, <2>3, <2>4, WaitInv
<1>3. CASE RefuseToAsk(ip) \/ GiveUp(ip, now)
  <2>1. Fail(ip)
    BY <1>3 DEF RefuseToAsk, GiveUp
  <2>2. HasDeadline(ip) => now >= last_request[ip] + RetryInterval
    BY <1>3, FailureEarned
  <2> QED
    BY <1>1, <2>1, <2>2, EndInv DEF HasDeadline
<1>4. CASE found'.mac = NoMac /\ (AskFirst(ip, now) \/ AskAgain(ip, now))
  <2> DEFINE attempts == unanswered[ip] + 1
  <2>1. attempts \in 1 .. MaxAttempts /\ SendRequest(ip, attempts, now)
    BY <1>4, RequestSpaced
  <2>2. DOMAIN ip_to_mac' \subseteq DOMAIN ip_to_mac \ {ip}
    BY <1>1, <1>4
  <2>3. attempts = unanswered[ip] + 1
    OBVIOUS
  <2> HIDE DEF attempts
  <2> QED
    BY <1>1, <2>1, <2>2, <2>3, SendRequestInv
<1>5. CASE KeepWaiting(ip, now)
  <2>1. outcome' \in [ip : Ip, result : Result]
    BY <1>5 DEF KeepWaiting, Outcome, Result
  <2> QED
    BY <1>1, <1>5, <2>1, WaitInv DEF KeepWaiting
<1> QED
  BY <1>2, <1>3, <1>4, <1>5 DEF Resolve

(* cached_mac keeps the invariant.                                         *)
LEMMA CachedMacInv ==
  ASSUME Inv, NEW ip \in Ip, NEW now \in clock .. Horizon, CachedMac(ip, now)
  PROVE  Inv'
<1>1. CacheInv' /\ clock' = now /\ DOMAIN ip_to_mac' \subseteq DOMAIN ip_to_mac
  BY ResolveLooksUp DEF CachedMac
<1> QED
  BY <1>1, WaitInv DEF CachedMac

(* At first nothing is cached, asked or resolved.                          *)
LEMMA InitInv == Init => Inv
<1> SUFFICES ASSUME Init
             PROVE  Inv
  OBVIOUS
<1>1. CacheInv /\ CacheTypeOK
  BY CacheInitInv DEF Init, CacheInv
<1>2. TypeOK
  BY <1>1, ResolverAssumption DEF Init, TypeOK
<1>3. PendingNotCached /\ AttemptsAreCounted /\ Deadlines
  BY ResolverAssumption DEF Init, PendingNotCached, AttemptsAreCounted, Deadlines
<1> QED
  BY <1>1, <1>2, <1>3 DEF Inv

(* Every call keeps the invariant.                                         *)
LEMMA NextInv == Inv /\ [Next]_vars => Inv'
<1> SUFFICES ASSUME Inv, [Next]_vars
             PROVE  Inv'
  OBVIOUS
<1>1. CASE Next
  BY <1>1, ResolveInv, CachedMacInv, ObserveInv DEF Next
<1>2. CASE UNCHANGED vars
  <2>1. CacheInv'
    BY <1>2, CacheNextInv DEF vars, Inv
  <2>2. UNCHANGED cacheVars /\ UNCHANGED resolverVars
    BY <1>2 DEF vars
  <2>3. TypeOK'
    BY <2>1, <2>2 DEF resolverVars, Inv, TypeOK, CacheInv
  <2>4. PendingNotCached' /\ AttemptsAreCounted' /\ Deadlines'
    BY <2>2 DEF cacheVars, resolverVars, Inv, PendingNotCached,
                AttemptsAreCounted, Deadlines
  <2> QED
    BY <2>1, <2>3, <2>4 DEF Inv
<1> QED
  BY <1>1, <1>2

(* The invariant holds throughout.                                         *)
THEOREM ResolverInvariant == Spec => []Inv
BY InitInv, NextInv, PTL DEF Spec

(* Open resolutions, outcomes and the histories have their types.          *)
THEOREM ResolverTypeCorrect == Spec => []TypeOK
<1>1. Inv => TypeOK
  BY DEF Inv
<1> QED
  BY <1>1, ResolverInvariant, PTL

(* An address is never both cached and being resolved, whatever expires,   *)
(* is evicted or is learned.                                               *)
THEOREM PendingIsNeverCached == Spec => []PendingNotCached
<1>1. Inv => PendingNotCached
  BY DEF Inv
<1> QED
  BY <1>1, ResolverInvariant, PTL

(* The attempts counted are the requests sent since the last mapping or    *)
(* failure, and never more than MaxAttempts.                               *)
THEOREM AttemptsAreAlwaysCounted == Spec => []AttemptsAreCounted
<1>1. Inv => AttemptsAreCounted
  BY DEF Inv
<1> QED
  BY <1>1, ResolverInvariant, PTL

--------------------------------------------------------------------------------
(* What a step may never do.                                               *)

(* What a call returns tells which of its branches it took.                *)
LEMMA OutcomeTells ==
  ASSUME Inv, NEW now \in clock .. Horizon, NEW ip \in Ip, NEW other \in Ip,
         Resolve(other, now)
  PROVE  /\ clock' = now
         /\ outcome' = Outcome(ip, "Failed") =>
              RefuseToAsk(ip) \/ GiveUp(ip, now)
         /\ outcome' = Outcome(ip, "SendRequest") =>
              AskFirst(ip, now) \/ AskAgain(ip, now)
<1>1. clock' = now
  BY DEF Resolve, LookupMac
<1>2. ASSUME NEW a, NEW b, NEW c, NEW d, Outcome(a, b) = Outcome(c, d)
      PROVE  a = c /\ b = d
  <2>1. Outcome(a, b).ip = a /\ Outcome(a, b).result = b
    BY DEF Outcome
  <2>2. Outcome(c, d).ip = c /\ Outcome(c, d).result = d
    BY DEF Outcome
  <2> QED
    BY <1>2, <2>1, <2>2
<1>3. CASE ResolveFromCache(other)
  BY <1>1, <1>2, <1>3 DEF ResolveFromCache
<1>4. CASE RefuseToAsk(other) \/ GiveUp(other, now)
  <2>1. outcome' = Outcome(other, "Failed")
    BY <1>4 DEF RefuseToAsk, GiveUp, Fail
  <2> QED
    BY <1>1, <1>2, <1>4, <2>1
<1>5. CASE AskFirst(other, now) \/ AskAgain(other, now)
  <2>1. outcome' = Outcome(other, "SendRequest")
    BY <1>5 DEF AskFirst, AskAgain, SendRequest
  <2> QED
    BY <1>1, <1>2, <1>5, <2>1
<1>6. CASE KeepWaiting(other, now)
  BY <1>1, <1>2, <1>6 DEF KeepWaiting
<1> QED
  BY <1>3, <1>4, <1>5, <1>6 DEF Resolve

(* Only resolve fails or asks.                                             *)
LEMMA OthersReturnNothing ==
  ASSUME NEW ip \in Ip, outcome' = NoOutcome
  PROVE  outcome' # Outcome(ip, "Failed") /\ outcome' # Outcome(ip, "SendRequest")
BY DEF NoOutcome, Outcome

(* A step that is a call of resolve, or returns nothing.                   *)
LEMMA StepFacts ==
  ASSUME Inv, Next, NEW ip \in Ip
  PROVE  /\ outcome' = Outcome(ip, "Failed") =>
              /\ unanswered[ip] = MaxAttempts
              /\ HasDeadline(ip) => clock' >= last_request[ip] + RetryInterval
         /\ outcome' = Outcome(ip, "SendRequest") /\ HasDeadline(ip) =>
              clock' >= last_request[ip] + RetryInterval
<1>1. PICK now \in clock .. Horizon :
        \/ \E other \in Ip : Resolve(other, now) \/ CachedMac(other, now)
        \/ \E packet \in ArpPacket : Observe(packet, now)
  BY DEF Next
<1>2. CASE \E other \in Ip : Resolve(other, now)
  BY <1>2, OutcomeTells, FailureEarned, RequestSpaced
<1>3. CASE \/ \E other \in Ip : CachedMac(other, now)
           \/ \E packet \in ArpPacket : Observe(packet, now)
  <2>1. outcome' = NoOutcome
    BY <1>3 DEF CachedMac, Observe
  <2> QED
    BY <2>1, OthersReturnNothing
<1> QED
  BY <1>1, <1>2, <1>3

(* No resolution fails before MaxAttempts requests went unanswered, the    *)
(* last of them for a whole retry interval.                                *)
THEOREM FailuresAreAlwaysEarned == Spec => FailuresAreEarned
<1>1. Inv /\ [Next]_vars =>
        [\A ip \in Ip :
           outcome' = Outcome(ip, "Failed") =>
             /\ unanswered[ip] = MaxAttempts
             /\ HasDeadline(ip) => clock' >= last_request[ip] + RetryInterval]_vars
  BY StepFacts
<1> QED
  BY <1>1, ResolverInvariant, PTL DEF Spec, FailuresAreEarned

(* Requests for an address are never closer than a retry interval, as long *)
(* as no mapping is learned for it.                                        *)
THEOREM RequestsAreAlwaysSpaced == Spec => RequestsAreSpaced
<1>1. Inv /\ [Next]_vars =>
        [\A ip \in Ip :
           outcome' = Outcome(ip, "SendRequest") /\ HasDeadline(ip) =>
             clock' >= last_request[ip] + RetryInterval]_vars
  BY StepFacts
<1> QED
  BY <1>1, ResolverInvariant, PTL DEF Spec, RequestsAreSpaced
================================================================================
