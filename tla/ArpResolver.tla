------------------------------ MODULE ArpResolver ------------------------------
(***************************************************************************)
(* ArpResolver: it answers from its ArpCache, asks for the addresses the   *)
(* cache does not hold, repeats the request when the answer is late, and   *)
(* gives up after MaxAttempts requests.  It has no timer: time passes      *)
(* between calls, and only a call to resolve notices a passed deadline.    *)
(***************************************************************************)
EXTENDS ArpCache

CONSTANTS
  RetryInterval,   \* how long a request is waited for
  MaxAttempts,     \* how many requests one resolution sends
  InstantMax       \* the last instant an Instant can hold

ASSUME ResolverAssumption ==
  /\ RetryInterval \in Nat
  /\ MaxAttempts \in Nat
  /\ InstantMax \in Nat
  /\ Horizon <= InstantMax

VARIABLES
  pending,        \* HashMap<Ipv4Addr, PendingResolution>
  outcome,        \* the ResolveOutcome of the last call, if it was resolve
  unanswered,     \* history: requests for each address since the last mapping
                  \* learned for it or the last failure
  last_request    \* history: the instant of the last request for each address
                  \* since the last mapping learned for it

resolverVars == <<pending, outcome, unanswered, last_request>>
vars == <<cacheVars, resolverVars>>
--------------------------------------------------------------------------------
PendingResolution == [attempts_sent : 1 .. MaxAttempts, next_retry_at : 0 .. InstantMax]

Result == {"Resolved", "SendRequest", "Pending", "Failed"}

NoOutcome == [ip |-> 0, result |-> "None"]
Outcome(ip, result) == [ip |-> ip, result |-> result]

(* next_retry_at: a deadline that an Instant cannot hold is now.           *)
NextRetryAt(now) ==
  IF now + RetryInterval <= InstantMax THEN now + RetryInterval ELSE now

Without(f, ip) == Restrict(f, DOMAIN f \ {ip})
--------------------------------------------------------------------------------
Init ==
  /\ CacheInit
  /\ pending = [ip \in {} |-> {}]
  /\ outcome = NoOutcome
  /\ unanswered = [ip \in Ip |-> 0]
  /\ last_request = [ip \in {} |-> {}]

(* The request that resolve returns is the attempts-th of its resolution.  *)
SendRequest(ip, attempts, now) ==
  /\ pending' = Put(pending, ip, [attempts_sent |-> attempts,
                                  next_retry_at |-> NextRetryAt(now)])
  /\ outcome' = Outcome(ip, "SendRequest")
  /\ unanswered' = [unanswered EXCEPT ![ip] = @ + 1]
  /\ last_request' = Put(last_request, ip, now)

Fail(ip) ==
  /\ pending' = Without(pending, ip)
  /\ outcome' = Outcome(ip, "Failed")
  /\ unanswered' = [unanswered EXCEPT ![ip] = 0]
  /\ UNCHANGED last_request

(* resolve, once lookup_mac has found the address ...                      *)
ResolveFromCache(ip) ==
  /\ found'.mac # NoMac
  /\ pending' = Without(pending, ip)
  /\ outcome' = Outcome(ip, "Resolved")
  /\ UNCHANGED <<unanswered, last_request>>

(* ... and what it does, in the order it checks, once it has not.          *)
RefuseToAsk(ip) ==
  /\ MaxAttempts = 0
  /\ Fail(ip)

(* Mutant: MaxAttempts = 0 is not looked at.                               *)
AskFirstAlways(ip, now) ==
  /\ ip \notin DOMAIN pending
  /\ SendRequest(ip, 1, now)

AskFirst(ip, now) ==
  /\ MaxAttempts # 0
  /\ ip \notin DOMAIN pending
  /\ SendRequest(ip, 1, now)

KeepWaiting(ip, now) ==
  /\ MaxAttempts # 0
  /\ ip \in DOMAIN pending
  /\ now < pending[ip].next_retry_at
  /\ outcome' = Outcome(ip, "Pending")
  /\ UNCHANGED <<pending, unanswered, last_request>>

(* Mutant: the last attempt is not made.                                   *)
GiveUpTooSoon(ip, now) ==
  /\ MaxAttempts # 0
  /\ ip \in DOMAIN pending
  /\ now >= pending[ip].next_retry_at
  /\ pending[ip].attempts_sent + 1 >= MaxAttempts
  /\ Fail(ip)

GiveUp(ip, now) ==
  /\ MaxAttempts # 0
  /\ ip \in DOMAIN pending
  /\ now >= pending[ip].next_retry_at
  /\ pending[ip].attempts_sent >= MaxAttempts
  /\ Fail(ip)

(* Mutants of AskAgain: attempts that are not counted, and no wait.        *)
AskUncounted(ip, now) ==
  /\ MaxAttempts # 0
  /\ ip \in DOMAIN pending
  /\ now >= pending[ip].next_retry_at
  /\ pending[ip].attempts_sent < MaxAttempts
  /\ SendRequest(ip, pending[ip].attempts_sent, now)

AskAtOnce(ip, now) ==
  /\ MaxAttempts # 0
  /\ ip \in DOMAIN pending
  /\ pending[ip].attempts_sent < MaxAttempts
  /\ SendRequest(ip, pending[ip].attempts_sent + 1, now)

AskAgain(ip, now) ==
  /\ MaxAttempts # 0
  /\ ip \in DOMAIN pending
  /\ now >= pending[ip].next_retry_at
  /\ pending[ip].attempts_sent < MaxAttempts
  /\ SendRequest(ip, pending[ip].attempts_sent + 1, now)

Resolve(ip, now) ==
  /\ LookupMac(ip, now)
  /\ \/ ResolveFromCache(ip)
     \/ /\ found'.mac = NoMac
        /\ \/ RefuseToAsk(ip)
           \/ AskFirst(ip, now)
           \/ KeepWaiting(ip, now)
           \/ GiveUp(ip, now)
           \/ AskAgain(ip, now)

(* Mutant: the resolution is left open.                                    *)
ObserveOnly(packet, now) ==
  /\ LearnFromPacket(packet, now)
  /\ outcome' = NoOutcome
  /\ UNCHANGED <<pending, unanswered, last_request>>

(* An ARP packet arrives: what it teaches ends the resolution it answers.  *)
Observe(packet, now) ==
  /\ LearnFromPacket(packet, now)
  /\ outcome' = NoOutcome
  /\ IF LearnsFrom(packet)
     THEN /\ pending' = Without(pending, packet.sender_ip)
          /\ unanswered' = [unanswered EXCEPT ![packet.sender_ip] = 0]
          /\ last_request' = Without(last_request, packet.sender_ip)
     ELSE UNCHANGED <<pending, unanswered, last_request>>

CachedMac(ip, now) ==
  /\ LookupMac(ip, now)
  /\ outcome' = NoOutcome
  /\ UNCHANGED <<pending, unanswered, last_request>>

Next ==
  \E now \in clock .. Horizon :
    \/ \E ip \in Ip : Resolve(ip, now) \/ CachedMac(ip, now)
    \/ \E packet \in ArpPacket : Observe(packet, now)

Spec == Init /\ [][Next]_vars
--------------------------------------------------------------------------------
TypeOK ==
  /\ CacheTypeOK
  /\ DOMAIN pending \subseteq Ip
  /\ \A ip \in DOMAIN pending : pending[ip] \in PendingResolution
  /\ outcome \in [ip : Ip, result : Result] \cup {NoOutcome}
  /\ unanswered \in [Ip -> 0 .. MaxAttempts]
  /\ DOMAIN last_request \subseteq Ip
  /\ \A ip \in DOMAIN last_request : last_request[ip] \in Instant

(* No address is both in the cache and being resolved, whatever expires,   *)
(* is evicted or learned in between: so that a mapping never coexists with *)
(* an attempt count that would make a later resolution fail early.         *)
PendingNotCached == DOMAIN pending \cap DOMAIN ip_to_mac = {}

(* The attempts a resolution counts are the requests sent since the last   *)
(* mapping learned for the address or the last failure, never more than    *)
(* MaxAttempts, and an address that is not being resolved has none open.   *)
AttemptsAreCounted ==
  \A ip \in Ip :
    /\ unanswered[ip] <= MaxAttempts
    /\ unanswered[ip] = IF ip \in DOMAIN pending
                        THEN pending[ip].attempts_sent
                        ELSE 0

(* A request was sent, and its answer can be waited for, before the last   *)
(* instant an Instant holds.                                               *)
HasDeadline(ip) ==
  /\ ip \in DOMAIN last_request
  /\ last_request[ip] + RetryInterval <= InstantMax

(* resolve fails only when MaxAttempts requests for the address have gone  *)
(* unanswered, the last of them for a whole retry interval: no mapping     *)
(* learned in between, not even one that has since expired or been         *)
(* evicted, leaves attempts behind that count towards the failure.         *)
FailuresAreEarned ==
  [][\A ip \in Ip :
       outcome' = Outcome(ip, "Failed") =>
         /\ unanswered[ip] = MaxAttempts
         /\ HasDeadline(ip) => clock' >= last_request[ip] + RetryInterval]_vars

(* Two requests for an address that no mapping was learned for in between  *)
(* are a retry interval apart, also when the first resolution failed and   *)
(* another one began.                                                      *)
RequestsAreSpaced ==
  [][\A ip \in Ip :
       outcome' = Outcome(ip, "SendRequest") /\ HasDeadline(ip) =>
         clock' >= last_request[ip] + RetryInterval]_vars
================================================================================
