# Verification of tcpip-rs

TLA+ models of a small user-space TCP/IP stack, from the device to the TCP
listener, the TLC runs that check them, and TLAPS proofs about all of them.
Everything is translated from the Rust source; line numbers are in
`PROJECT.json` under `map`.

## The system

| part | source | state | operations |
|---|---|---|---|
| TCP listener | `tcp/listener.rs` | connection table, next initial sequence number | `receive_segment` |
| ARP cache | `arp/cache.rs` | IP → (MAC, instant learned) | `learn_from_packet`, `lookup_mac`, `remove_expired` |
| ARP resolver | `arp/resolver.rs` | its cache, pending resolutions | `resolve`, `observe`, `cached_mac` |
| network interface | `interface.rs` | a resolver, a listener, the next IPv4 identification | `process_frame_at`, `cached_mac` |
| run loop | `runtime.rs` | a receive buffer | `run_once`, `run_once_at`, `run_with_observer` |
| TAP device | `device.rs`, `device/tap.rs` | a file, its name | `open`, `receive`, `transmit` |
| codecs | `lib.rs`, `arp.rs`, `ipv4.rs`, `icmp.rs`, `udp.rs`, `tcp.rs` | none | parse, validate, serialise |
| checksum | `checksum.rs` | none | `checksum` |
| executable | `main.rs` | none | opens the device, runs the loop |

The program has one thread. The run loop blocks in `receive`, hands each frame
to the interface, which calls the resolver for ARP and the listener for TCP
(ICMP and UDP echo keep no state but the identification counter), and
transmits the one reply a frame may have. What is hard in it is therefore not
threads but everything around the thread: the network (late, repeated, lost,
cut and damaged messages), the peers (which give up and come back under new
numbers), time (which passes while the loop blocks), the device (partial
writes, interrupted calls), the limits of tables, buffers and length fields,
wrap-around, and a restart of the program, which forgets everything and counts
from the same number again. `PROJECT.json` lists these as `hazards`, each at
its line with the properties that watch it.

What makes each part correct:

- *listener*: a connection is established only by its own peer's
  acknowledgement of its own numbers (one from before a restart cannot be told
  apart); numbers are distinct and consistent; the
  table stays within its capacity; repeated SYNs get the same answer; a peer
  that repeats its SYN is served unless the table's state rules it out.
- *cache*: it holds the latest mapping of each address, drops a live one only
  for want of room and then the oldest, and never answers with an expired one.
- *resolver*: requests are spaced; a resolution fails only after all its
  attempts went unanswered; nothing is both cached and pending.
- *codecs*: what one side writes the other reads, padded or not; a part of a
  message is never taken for the whole; damage is noticed as far as the
  checksums of the Internet can.
- *checksum*: it ends, does not overflow, and is the one's-complement checksum.
- *interface*: a SYN-ACK leaves for the peer the table holds, with its numbers;
  answers do not draw answers; no buffer for a reply is too small and no reply
  too long; an error leaves no trace.
- *run loop*: it uses the resolver within the rules the resolver relies on, and
  mappings live as long as they should.
- *device and program*: the device is the one that was asked for; the interface
  sees the bytes of one frame only; one reply is one frame; no frame is left
  behind.

## The modules

| module | models | kind |
|---|---|---|
| `PassiveOpen` | what the listener promises, without segments or tables | abstract specification |
| `TcpListener` | `TcpListener` | component |
| `Handshake` | the listener, its peers, the network, restarts | composition |
| `ArpCache` | `ArpCache` | component |
| `ArpResolver` | `ArpResolver`, on top of `ArpCache` | component |
| `NetworkInterface` | `NetworkInterface` on abstract frames; INSTANCEs resolver and listener | composition |
| `Runtime` | the run loop around `NetworkInterface`, and time | composition |
| `OnesComplement` | sums of 16-bit words | operators |
| `Checksum` | the loop of `checksum` | component |
| `EthernetCodec`, `ArpCodec`, `Ipv4Codec`, `IcmpCodec`, `UdpCodec`, `TcpCodec` | one format each | operators |
| `Codecs` | the formats and `InterfaceError` together | operators |
| `Link` | a sender, a wire, a receiver | composition of codecs |
| `WireInterface` | `process_frame_at` on frames with lengths and checksums | composition; implements `NetworkInterface` |
| `Host` | `main`, the TAP device, the loop with its buffer and observer | composition |
| `CodecLemmas` | what a serialiser writes and its parser reads, and sums | lemmas |
| `TcpProofs`, `ArpProofs`, `ChecksumProofs`, `LinkProofs`, `WireInterfaceProofs`, `RuntimeProofs`, `HostProofs` | | theorems |
| `MC*` | values for the constants | model checking |

**TcpListener.** `connections`, `next_initial_sequence` are the fields of the
struct and `action` is the `TcpAction` returned. Each way through
`receive_segment` is an action: `OpenConnection` and `ResendSynAck`
(`receive_initial_syn`), `CompleteHandshake`, and `IgnoreSegment` for every
early return. Sequence numbers wrap at `SeqMod` (2^32). Left out: the two
local fields of the key, which are the same in every key, the constant window,
and the bytes of a payload beyond whether there are any.

**Handshake.** The peers are external: they open connections as any TCP does.
Messages are sets, never consumed, so that each is delivered late, in any
order and any number of times; `LosingNext` also removes them. `Deliver` is
one call of `receive_segment` together with the transmission of its answer; an
answer that `transmit` fails to send is one that the network loses. `Restart`
is a new `NetworkInterface`. The history variables `offered` and `acked` record
what was sent and what a peer has acknowledged.

**ArpCache, ArpResolver.** Each call carries its instant, as in the code; the
model's `clock` is the last one, and instants never go back (this assumption is
discharged in `Runtime`). `learn` is one step: sweep, refresh or make room,
insert. `resolve` is one step with one disjunct per branch, in the order of the
code's checks. `next_retry_at` overflows at `InstantMax`. History variables:
`latest` (what each address was last learned as), `unanswered` and
`last_request` (the requests since then).

**NetworkInterface.** A frame is what the parsers make of its bytes: the fields
the stack reads and, per layer, whether parser and checksum accept it (`ok`).
`result` is the value of `process_frame_at`. Every parser and checksum runs
before any state changes, so a refused frame changes nothing (`Refuse`).

**Runtime.** `pc` is the place in the loop, `time` the clock, `now` the
argument of `run_once_at`, read in `CallRunOnce` before `ReceiveFrame`. The
device is external: any frame at any time, and any failure. A lookup through
the public `cached_mac` may happen between two calls of `run_once`. `heard`
records when the frame that last taught an address arrived.

**Checksum.** One action per turn of a loop: `AddWord`, `AddRemainder`,
`FoldCarries`, `Return`. `total` is a history variable, the plain sum of the
words. The codecs do not run the loop: they use `ChecksumOf` and `Validates` on
plain sums, which is what `ResultIsChecksum` shows it computes.

**Codecs.** Bytes are a record of the header fields as they are on the wire,
with `len` the length of the slice; a payload nobody reads is one byte value
repeated (`Bytes`). A shorter slice of the same message has the same fields and
another `len`, and the parsers look at `len` before they look at a field, as
the code does. For each format there are `…Refuses` (the error of the parser,
or `None`; the first failing check decides, in the order of the code), `Parse…`,
`…WriteRefuses` and `Write…`; UDP and TCP also have `…Invalid`, with the
pseudo-header. Bit fields are packed and unpacked by arithmetic.

**Link.** One message: `Send` writes it from the inside out in the order of
`interface.rs`, the wire carries, pads, cuts or damages it, `Receive` reads it
from the outside in. A message that a serialiser refuses is not sent
(`Serialises`); `IsMessage` says what the callers of the serialisers may hand
them, of any length and over any MAC addresses (`Macs`).

**WireInterface.** The same handlers as `NetworkInterface`, but on frames in
the form of the codecs. Every `?` of `process_frame_at` is a way out with its
error, those of the serialisers too, and the order of listener, serialisers and
identification counter is the one of the code. `Abstraction` maps a frame to
what `NetworkInterface` knows of it; it is the refinement mapping of
`ImplementsInterface`, for the frames that arrive and for the replies.

**Host.** `stage` goes from `main` through `TapDevice::open` to the loop. A
byte carries the number of its frame, so that what is left in the shared buffer
of an earlier frame is visible. `Receive`, `NoReply`, `HasReply`, `Transmit`
and their failures and interruptions are the ways through `run_once_at` and
`run_with_observer`. An outcome carries, as a history, the number of its frame.
What the interface answers is left open, within what
`WireInterface!RepliesFit` allows. `OpenFails` joins the three errors of
`open`. External: how the kernel reads and writes the name in an `ifreq`, and
that one `read` or `write` is one frame.

Operators introduced by a comment that begins with "Mutant" change a
definition the way a plausible bug would. No specification uses them;
`PROJECT.json` says which property notices which.

## The runs

| run | module / cfg | bounds | checks |
|---|---|---|---|
| `tcp_listener` | `MCTcpListener` | 4 keys, 3 entries, 3 sequence numbers | `TypeOK`, `ConsistentNumbers`, `DistinctInitialSequences`, `IssuedInOrder`, `AnswersMatchTable`, `ImplementsPassiveOpen` |
| `handshake` | `MCHandshake` | 2 peers, 2 entries, 2 connects each, 1 restart | `HTypeOK`, `EstablishedWasAcknowledged`, `PeersAgree`, `OneOfferPerPeer` |
| `handshake_service` | `MCHandshake` / `MCService` | 2 peers, 1 entry, losses | `WaitingPeerIsServed` |
| `arp_cache` | `MCArpResolver` / `MCArpCache` | 3 addresses, 2 MACs, 2 entries, time to live 3, instants 0..5, 0 attempts | `TypeOK`, `EntriesAreLatest`, `KeepsMostRecent`, `LookupsAreFresh` |
| `arp_resolver` | `MCArpResolver` | 2 addresses, 1 entry, interval 2, 2 attempts, instants 0..6 | `PendingNotCached`, `AttemptsAreCounted`, `FailuresAreEarned`, `RequestsAreSpaced` |
| `network_interface` | `MCNetworkInterface` | 2 addresses, 2 MACs, every frame | `TypeOK`, `SynAcksMatchTable`, `AnswersDrawNoAnswer` |
| `run_loop` | `MCRuntime` | 12 frames, time 0..4, time to live 2 | `MappingsExpireInTime`, `LoopIsResolver` |
| `checksum` | `MCChecksum` | bytes 0, 1 and 255, up to 7 of them | `SumFits`, `ResultIsChecksum`, `Terminates` |
| `link` | `MCLink` | messages of every kind, padding 1 and 18, every cut, 7 values for every word | `RoundTrip`, `TruncationIsRefused`, `DamageIsNoticed`, `UdpIsChecksummed` |
| `wire_interface` | `MCWireInterface` | one frame for each way through parsers and handlers | `SerialisingNeverFails`, `RepliesFit`, `ImplementsInterface`, `ErrorsChangeNothing` |
| `host` | `MCHost` | names of 0 to 4 characters for a field of 3, 3 frames of length 1, 2 or 4, a buffer of 3, 1 signal | `DeviceIsTheOneAskedFor`, `NoStaleBytes`, `OneFramePerReply`, `ReportsAreTruthful`, `FramesAreRead` |
| `mapping_age` | `MCRuntime` / `MCMappingAge` | time 0..3, time to live 2 | `MappingsLastTheirTime`: violated |

Why the bounds are enough to be interesting:

- *Listener.* Three sequence numbers, counted from the last, make the counter
  wrap at the second connection, and a table of three uses all of them: the
  case where distinctness is tight. A fourth key finds the table full. Keys
  share addresses and ports. Flag sets are the two accepted forms, one of them
  with the flags the code does not look at, and each spoiled by a flag it
  rejects.
- *Handshake.* Two connects per peer are enough for a stale SYN, SYN-ACK and
  ACK of one attempt to meet the next; after a restart the same number goes to
  another peer. A full table refuses a peer in `handshake_service`, with one
  entry for two peers, and in `tcp_listener`.
- *ARP.* Three addresses for two entries make the cache evict, and five
  instants with a time to live of three let an entry be refreshed, evicted and
  expire in one behaviour; with no attempts allowed the resolver around it must
  neither ask nor leave anything pending. One cache entry for two addresses in
  `arp_resolver` evicts a mapping while the other is wanted, and the last two
  deadlines overflow.
- *Loop.* Four instants allow one wait as long as the time to live, and a
  lookup after it.
- *Checksum.* 0, 1 and 255 make words that add no carry, one, and a carry of a
  carry; seven bytes are three words and a byte left over.
- *Link.* Payloads of even and odd length and none, IPv4 and TCP options up to
  their limit of 40 bytes, an unknown ICMP type and an unknown ARP operation,
  and a datagram and an echo reply whose words add up to all ones, so that
  their checksum comes out as 0. Cuts are made at every length from 0. A
  damaged word becomes 0, 1, all ones or a value with one half filled: the two
  forms of zero are among them.
- *Wire interface.* At least one frame for each refusal of each parser, the
  largest echo request and datagram that fit in a packet, options, a datagram
  shorter than its packet, padding, fragments, foreign addresses, and a
  handshake with a second SYN and a wrong ACK. `SeqMod` is 2^31 − 1 there,
  since TLC's integers end at 2^31 − 1; wrap-around is left to the other runs.
- *Host.* Names shorter than, as long as and longer than the field, names with
  a NUL; a frame longer than the buffer, and a short one after a longer one.

`SYMMETRY` is used on peers and MAC addresses in runs without liveness; the
models compare none of them. `CHECK_DEADLOCK FALSE` is set only where the
system may stop: the loop and the program end on an error, the checksum
returns, the one frame of the link is read, and in `handshake_service` every
peer may have given up for good.

## Fairness

- `WaitingPeerIsServed` (`FairSpec`). A waiting peer goes on repeating its SYN
  (weak fairness; any TCP does). A SYN that is sent again and again is
  delivered at some time, and so is a SYN-ACK (strong fairness, since a lossy
  network may remove each copy first: it loses any number of messages but not
  every one). The run loop handles each frame it receives, one at a time, so
  that nothing in the program itself delays a delivery for ever (`FramesAreRead`
  of `Host`). The listener gets no fairness of its own: it has no timer and
  acts only when a segment arrives. The property excuses a peer that gives up
  and one that is `Blocked`: table full, established already, or held under
  another number. The code never leaves these states, for it removes no
  connection.
- `Terminates`. Weak fairness of `Next` in `Checksum`: a function that is
  called runs on. That the loop of carries ends is what is checked.
- `FramesAreRead`. Weak fairness of `Progress` in `Host`: the program's only
  thread runs on while it need not wait, and it waits in `read` alone, as long
  as no frame is there. Failures and signals are not in `Progress`: they need
  not happen, and only boundedly many signals do.

## What the violated run shows

`mapping_age`: `run_once` takes `Instant::now()` and then blocks in `receive`.
A mapping learned after a long wait carries an instant from before it, and is
expired when it is learned.

## The proofs

All theorems are of the specifications, for every value of the constants, from
the named assumptions on them only:

- listener: `SeqMod >= 2` and `InitialSequence` below it, `Capacity` a natural
  number not above `SeqMod` (64 and 2^32 in the code), flag sets that are sets
  of flags; for the peers, initial numbers that are sequence numbers, and that
  a bare SYN and a bare ACK exist;
- ARP: natural numbers for instants, limits and addresses, and a `NoMac` that is
  no MAC address;
- interface: that frames are frames (`FramesAssumption`), and what its parts
  assume (`PartsAssumption`);
- on the wire: that frames have the fields the stack reads, each in the range of
  its bytes (`WireAssumption`), and that this host's address, port, initial
  sequence number and identifications fit in theirs (`OwnAssumption`);
- checksum: that bytes are bytes;
- link: that messages are messages (`LinkAssumption`);
- program: that names are made of characters other than NUL, except perhaps the
  one asked for, that sizes are not 0, and that the kernel grants a name that
  fits (`HostAssumption`).

*Listener* (`TcpProofs`). `TypeCorrect` is inductive by itself. That
initial numbers are distinct is not: nothing in two connections with distinct
numbers says that the next number differs from both. `TableInv` adds
`IssuedInOrder`: the numbers given so far lie, counted from the first and
around the wrap, below the number of entries, and the next one is exactly that
far. With room left in the table, and the table no larger than the number of
sequence numbers, the next number is new. This needs that entries are never
removed, which is what the code does; a listener that forgot connections would
lose the invariant, and with it the argument. Capacity, consistency of
numbers and the answers follow from the same invariant, and so does the
refinement: `OpenConnection` maps to `Accept`, `CompleteHandshake` to
`Confirm`, everything else to a stutter. That the table respects its capacity
(`CapacityIsRespected`) is proved and not run separately.

*Handshake* (`TcpProofs`), over the specification with losses and
restarts (`HSpec` implies it). `HInv` adds to the property about established
connections what is true of messages on their way: every ACK repeats numbers
its sender acknowledged (`AcksWereSent`), a connected peer has acknowledged what
it believes (`PeerHasAcked`), and every SYN-ACK sent since the last restart
still offers what the table holds (`OffersMatchTable`). `PeersAgree` and
`OneOfferPerPeer` are conjuncts that follow step by step.

*ARP cache* (`ArpProofs`). `KeepsMostRecent` is inductive only together
with `EntriesAreLatest` and the fact that no mapping is learned after the last
call (`NothingFromTheFuture`). A sweep: if a live mapping is missing
afterwards, it was missing before, so the cache was full of younger ones, all
of which the sweep keeps. A refresh keeps the set of entries and makes one
younger. An insertion either finds room, so that nothing live was missing, or
finds the cache full after the sweep, drops an entry that `OldestFacts` shows
to be no younger than any other, and leaves it full again. That a finite cache
has an oldest entry rests on the well-foundedness of the naturals
(`LeastNatural`).

*ARP resolver* (`ArpProofs`). Every call of the resolver is a call of
its cache at the same instant (`ResolverUsesCache`), so that the theorems on
the cache hold of it. `Inv` adds `Deadlines`: the deadline of an open
resolution is that of its last request, and a request whose resolution has
ended without a mapping was waited for. `PendingNotCached` is what makes it
inductive: an answer from the cache ends no resolution, because none is open
for a cached address, so only a passed deadline or a learned mapping does. The
two action properties follow by looking at the branch that an outcome tells.
`HasDeadline` leaves out the requests whose deadline an `Instant` cannot hold;
for those the code makes the deadline immediate.

*Checksum* (`ChecksumProofs`, `CodecLemmas`). The loop keeps its sum
congruent to the plain sum of the words modulo 2^16 − 1, and 0 only while every
word is 0 (`SumsAgree`); a carry folded in is 2^16 taken away and 1 added.
Those two facts determine the result among the 16-bit numbers
(`ReducedIsUnique`), zero having two forms. The bound on the sum is inductive
because a word is added to a sum that was just folded. The data may be of any
length.

*Link* (`LinkProofs`). The inductive invariant says what the receiver makes of a
frame from what the wire did to it; each case rests on lemmas of `CodecLemmas`,
one per format. *Round trip*: bit fields are packed and unpacked without loss,
lengths written are the lengths read, padding is cut off by the length fields,
and a checksum field makes its sum a multiple of 2^16 − 1 other than 0. *Cuts*:
some length in the frame then exceeds what is left of it. *Damage*: a changed
header word changes the sum by the difference of the two words, which is a multiple of
2^16 − 1 only for the two forms of 0; the IPv4 header and the fields of the
pseudo-header are covered where the code covers them, and a UDP checksum that
becomes 0 switches the check off, which the property excuses. A message whose
checksum comes out as 0 is sent with the other form, so that
`UdpIsChecksummed` holds.

*Interface on the wire* (`WireInterfaceProofs`). The properties of the replies
need no inductive invariant: each call is decided by the lengths of the frame it
is given. `AcceptedPacket` says what an accepted IPv4 header bounds (the payload
lies within the frame and leaves room for a header of 20 bytes in 65535), each
handler's reply is no longer than the payload it answers (the SYN-ACK has the
20 bytes of the smallest segment), and so every serialiser finds its buffer
large enough and its lengths in range. An error is then always one of a parser,
all of which run before anything changes.

That the interface on bytes implements the one on what parsers make of them
(`WireImplementsInterface`) goes down the same layers, one lemma per handler.
What decides a call is the same on both sides (`FrameMaps`, `Ipv4Maps`), and so
are the resolver and the listener (`SameObserve`, `SameReceiveSegment`). A reply
has to be read back: the lemmas of `CodecLemmas` say that each serialiser's
bytes pass the parser and the checksum of their receiver with the fields they
were given, from the inside out (`SynAckIsRead`, `PacketIsRead`,
`SealedIsRead`). They ask for fields that fit, and some fields come from the
state: `Ranges` is the invariant that the identification stays below `IdMod` and
that the connection table holds numbers. That no serialiser fails is what lets
the step be one of `NetworkInterface`, where serialising cannot fail.

*Interface and run loop* (`RuntimeProofs`). What a reply contains is decided by
the handler that puts it together; for a SYN-ACK, `ListenerAnswer` says that
the listener's answer is the entry it has just made or found. The loop needs
`LoopInv`: the resolver's clock is not past the instant of the call in
progress, which is not past the time (`InstantsInOrder`), and every entry bears
an instant no later than the arrival of the frame that taught it
(`StampedEarly`). The stale instant of `mapping_age` thus errs on one side
only: mappings expire early, never late. From the order of the instants it
follows that the loop is a behaviour of `ArpResolver` (`LoopUsesResolver`), and
from what the parsers let through that it is one of `TcpListener`
(`LoopUsesListener`): under the assumptions of those modules, every theorem on
resolver, cache and listener holds in the loop.

The type invariant of the interface (`InterfaceTypeCorrect`) and what holds of
the parts *inside* the loop (`CacheHoldsInLoop`, `TableHoldsInLoop`) are theorems
of `ArpProofs` and `TcpProofs` taken through `INSTANCE`: a step of the interface
is a step of the resolver or leaves it alone, and the same for the listener;
`PartsAssumption` gives the assumptions under which the instances hold.

*Program and device* (`HostProofs`). A name with room for its NUL is read back
as it was written, so the kernel sees exactly the name that was asked for, and the
program holds the name that the kernel granted, which may be another. For the loop, `HostInv` numbers the
frames as they arrive: those that wait follow the current one without a gap,
every byte of the slice the interface sees is of the current frame, what is on
the link is of earlier frames but for the reply in progress, and an outcome
that tells of a reply names the frame it answers and the length that was sent.
That an outcome also carries the length received is modelled, and no property
or proof is about it. The
shared buffer may hold bytes of older frames at any time; the count that `read`
returned is what keeps them out.

*Model-checked only*: liveness (`WaitingPeerIsServed`, `Terminates`,
`FramesAreRead`), which is beyond this prover.

## Not modelled

- The text of errors and other output, accessors that only read,
  `fragment_offset_bytes` (which nothing calls), and the program for systems
  other than Linux, which does nothing.
- The bytes inside a payload or an option, beyond their length and sum. TCP
  and IPv4 options are carried and checksummed, never interpreted, as in the
  code.
- In `Link`, damage to what decides how much a checksum covers or how it is
  read: the first byte of an IPv4 header, the UDP length, the data offset of TCP,
  and the type of an ICMP message; damage to a word of options or of a payload,
  whose bytes are not told apart; and damage to ARP and Ethernet, which have no
  checksum in this code. `DamageIsNoticed` and its theorem are about the other
  header fields only. Numbers of 2^31 and more do not occur in the runs.
- Closing or resetting connections, and data transfer: the code has none.
- Some hazards have no property, because the code does not guard against them
  and promises nothing about them; the models do contain them:
  - a table that filled up refuses every new peer for good
    (`tcp/listener.rs:113`), and a half-open connection that its peer gave up
    keeps that peer out under any other number (`tcp/listener.rs:105`).
    `WaitingPeerIsServed` excuses both (`Blocked`);
  - after a lost final ACK the peer is connected and the listener half open, and
    the listener asks for nothing (`tcp/listener.rs:137`). `PeersAgree` shows
    only that the numbers agree then;
  - a restart issues the same initial numbers (`interface.rs:39`), so that an ACK
    from before it completes a connection that has the same numbers.
    `EstablishedWasAcknowledged` keeps what was acknowledged before a restart,
    and accepts it; with other numbers such an ACK is refused;
  - a deadline that an `Instant` cannot hold becomes immediate
    (`arp/resolver.rs:108`): the two properties on spacing exempt such requests;
  - a resolution whose caller never asks again stays pending for good
    (`arp/resolver.rs:61`): no bound is stated anywhere, and only tests call
    `resolve`.

## Plan

1. *Done*: listener, its abstract specification and proofs; handshake and
   proofs; ARP cache, resolver and proofs; interface; run loop and proofs.
2. *Done*: checksum and proofs; codecs and the link between two of them; the
   interface on the wire, as an implementation of the abstract one, and the
   proofs on its replies; the program and its device.
3. *Left*: two whole stacks that exchange frames, with ARP learned on both
   sides and the UDP exchange between echo ports.
4. *Done*: the proofs on the link, the program and the type invariant of
   `NetworkInterface`, and that `WireInterface` implements `NetworkInterface`.
