-------------------------------- MODULE Runtime --------------------------------
(***************************************************************************)
(* The run loop: run_once reads the clock, blocks until the device has a   *)
(* frame, hands it to the interface with the instant it read, and          *)
(* transmits the reply; run_with_observer calls it again until an error    *)
(* other than Interrupted ends it.  Between two calls of run_once the      *)
(* program that owns the interface may look up an address in it.           *)
(*                                                                         *)
(* The device is external: it delivers any frame at any time, and fails at *)
(* any time.                                                               *)
(***************************************************************************)
EXTENDS NetworkInterface

VARIABLES
  pc,      \* where the loop is
  time,    \* what Instant::now() returns
  now,     \* the instant run_once was called at, its argument to run_once_at
  heard    \* history: when the frame that last taught an address arrived

loopVars == <<pc, time, now, heard>>
rVars == <<ifVars, loopVars>>
--------------------------------------------------------------------------------
RInit ==
  /\ Init
  /\ pc = "Idle"
  /\ time = 0
  /\ now = 0
  /\ heard = [ip \in {} |-> 0]

(* Time passes wherever the loop is, and most of it in receive.            *)
TimePasses ==
  /\ pc # "Stopped"
  /\ time < Horizon
  /\ time' = time + 1
  /\ UNCHANGED <<ifVars, pc, now, heard>>

(* Mutant: the instant is the one of the first call.                       *)
CallAgainAtOnce ==
  /\ pc = "Idle"
  /\ pc' = "Receiving"
  /\ UNCHANGED <<ifVars, time, now, heard>>

(* run_once takes Instant::now() and then calls run_once_at.               *)
CallRunOnce ==
  /\ pc = "Idle"
  /\ now' = time
  /\ pc' = "Receiving"
  /\ UNCHANGED <<ifVars, time, heard>>

Teaches(f) ==
  /\ f.payload.type = "Arp" /\ IsAddressed(f) /\ f.payload.ok
  /\ Resolver!LearnsFrom(f.payload)

(* receive returns a frame and the interface processes it: run_once_at     *)
(* returns Ignored or MalformedFrame, or goes on to transmit.              *)
ReceiveFrame(f) ==
  /\ pc = "Receiving"
  /\ ProcessFrame(f, now)
  /\ pc' = IF result'.kind = "Reply" THEN "Transmitting" ELSE "Idle"
  /\ heard' = IF Teaches(f)
              THEN Resolver!Put(heard, f.payload.sender_ip, time)
              ELSE heard
  /\ UNCHANGED <<time, now>>

(* receive fails, returns no byte, or claims more than the buffer holds.   *)
ReceiveFails ==
  /\ pc = "Receiving"
  /\ \E interrupted \in BOOLEAN : pc' = IF interrupted THEN "Idle" ELSE "Stopped"
  /\ UNCHANGED <<ifVars, time, now, heard>>

(* transmit succeeds or is interrupted, in which case the reply is lost    *)
(* and the loop goes on; or it fails and the loop ends.                    *)
Transmit ==
  /\ pc = "Transmitting"
  /\ \E failed \in BOOLEAN : pc' = IF failed THEN "Stopped" ELSE "Idle"
  /\ UNCHANGED <<ifVars, time, now, heard>>

LookUp(ip) ==
  /\ pc = "Idle"
  /\ CachedMac(ip, time)
  /\ UNCHANGED loopVars

RNext ==
  \/ TimePasses
  \/ CallRunOnce
  \/ \E f \in Frames : ReceiveFrame(f)
  \/ ReceiveFails
  \/ Transmit
  \/ \E ip \in Ip : LookUp(ip)

RSpec == RInit /\ [][RNext]_rVars
--------------------------------------------------------------------------------
(* The instants that one run of the loop hands to the resolver never go    *)
(* backwards, although each is read before a wait of any length, and the   *)
(* loop uses the resolver as ArpResolver says it may be used.              *)
LoopIsResolver == Resolver!Spec

(* A mapping is never used longer than its time to live after the frame    *)
(* that taught it arrived.                                                 *)
MappingsExpireInTime ==
  found.mac # NoMac =>
    /\ found.ip \in DOMAIN heard
    /\ clock - heard[found.ip] < Ttl

(* A mapping can be used until its time to live is over: a lookup finds it *)
(* right after the frame that taught it was processed, and as long as      *)
(* nothing else was learned in its place.                                  *)
MappingsLastTheirTime ==
  \A ip \in DOMAIN heard :
    /\ found = Resolver!LookedUp(ip, NoMac)
    /\ Cardinality(Ip) <= MaxEntries
    => clock - heard[ip] >= Ttl
================================================================================
