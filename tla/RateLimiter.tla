----------------------------- MODULE RateLimiter -----------------------------
(***************************************************************************)
(* The per-address rate limiter of the HTTP server (rateLimiter in          *)
(* server/server.go): allow is called by every request, and cleanup by a    *)
(* ticker.  allow holds the mutex throughout; cleanup takes it once for the *)
(* list of addresses and once for each of them, with a clock reading in     *)
(* between, so that requests come in the middle of it.                      *)
(*                                                                          *)
(* A slice of timestamps is a set of admissions, numbered because several   *)
(* may have the same time.                                                  *)
(***************************************************************************)
EXTENDS Integers, FiniteSets

CONSTANTS
  IPs,
  Limit,       \* rl.limit, requests per window
  MaxIPs,      \* rl.maxIPs, 0 for no cap
  Second,      \* ticks of the clock in a second
  Window,      \* a minute, in ticks
  MaxTime,     \* bound: the clock
  MaxAdmitted  \* bound: admissions

ASSUME LimitAssumption == Limit \in Nat \ {0} /\ MaxIPs \in Nat
ASSUME ClockAssumption == Window \in Nat \ {0} /\ MaxTime \in Nat
ASSUME SecondAssumption == Second \in Nat \ {0} /\ Window % Second = 0
ASSUME AdmittedAssumption == MaxAdmitted \in Nat

VARIABLES
  now,        \* the clock
  requests,   \* rl.requests: the recent admissions of each address in the map
  keys,       \* the addresses cleanup has still to look at
  since,      \* windowStart of cleanup
  sweep,      \* where cleanup is
  count,      \* history: the number of admissions
  admitted,   \* history: every admission of each address
  told        \* history: when each rejected address was told to come back

vars == <<now, requests, keys, since, sweep, count, admitted, told>>

Admission == [n : Nat, at : Nat]

Tracked == DOMAIN requests
Entry(ip) == IF ip \in Tracked THEN requests[ip] ELSE {}

Free == -1    \* told: nothing

MapOK ==
  /\ now \in Nat
  /\ Tracked \subseteq IPs
  /\ \A ip \in Tracked : requests[ip] \subseteq Admission /\ requests[ip] # {}
  /\ keys \subseteq IPs
  /\ since \in Int
  /\ sweep \in {"idle", "clock", "evict"}
  /\ count \in Nat
  /\ admitted \in [IPs -> SUBSET Admission]
  /\ \A ip \in Tracked : requests[ip] \subseteq admitted[ip]

TypeOK == MapOK /\ told \in [IPs -> Int]

-----------------------------------------------------------------------------
(* allow                                                                    *)

\* Mutant: !t.Before(windowStart)
ValidInclusive(times, start) == {x \in times : x.at >= start}

\* t.After(windowStart)
Valid(times, start) == {x \in times : x.at > start}

\* The time at which the oldest of these admissions expires.
Expiry(times) == (CHOOSE x \in times : \A y \in times : x.at <= y.at).at + Window

\* Mutant: int(result.retryAfter.Seconds())
Truncated(wait) == wait \div Second

\* The header Retry-After, in seconds: int(result.retryAfter.Seconds()+0.5)
RetryAfter(wait) == (2 * wait + Second) \div (2 * Second)

\* The client is told to wait for a number of seconds.
Reject(ip, wait) == told' = [told EXCEPT ![ip] = now + RetryAfter(wait) * Second]

\* Mutant: the cap is checked with > .
CappedLate(ip) == ip \notin Tracked /\ MaxIPs > 0 /\ Cardinality(Tracked) > MaxIPs

\* A new address finds the map full.
Capped(ip) == ip \notin Tracked /\ MaxIPs > 0 /\ Cardinality(Tracked) >= MaxIPs

With(ip, times) == [a \in Tracked \cup {ip} |-> IF a = ip THEN times ELSE requests[a]]

\* The address has used up its window.  The clock has not moved when time.Until
\* reads it again.
RejectLimit(ip) ==
  LET valid == Valid(Entry(ip), now - Window) IN
  /\ Cardinality(valid) >= Limit
  /\ requests' = With(ip, valid)
  /\ Reject(ip, Expiry(valid) - now)
  /\ UNCHANGED <<now, keys, since, sweep, count, admitted>>

RejectCap(ip) ==
  /\ Cardinality(Valid(Entry(ip), now - Window)) < Limit
  /\ Capped(ip)
  /\ Reject(ip, Window)
  /\ UNCHANGED <<now, requests, keys, since, sweep, count, admitted>>

Admit(ip) ==
  LET valid == Valid(Entry(ip), now - Window)
      this  == [n |-> count + 1, at |-> now] IN
  /\ Cardinality(valid) < Limit
  /\ ~Capped(ip)
  /\ count < MaxAdmitted /\ count' = count + 1
  /\ requests' = With(ip, valid \cup {this})
  /\ admitted' = [admitted EXCEPT ![ip] = @ \cup {this}]
  /\ told' = [told EXCEPT ![ip] = Free]
  /\ UNCHANGED <<now, keys, since, sweep>>

-----------------------------------------------------------------------------
(* cleanup                                                                  *)

SnapshotKeys ==
  /\ sweep = "idle" /\ Tracked # {}
  /\ keys' = Tracked
  /\ sweep' = "clock"
  /\ UNCHANGED <<now, requests, since, count, admitted, told>>

ReadClock ==
  /\ sweep = "clock"
  /\ since' = now - Window
  /\ sweep' = "evict"
  /\ UNCHANGED <<now, requests, keys, count, admitted, told>>

Without(ip) == [a \in Tracked \ {ip} |-> requests[a]]

\* Mutant: an empty entry stays in the map.
EvictedKept(ip) == IF ip \notin Tracked THEN requests ELSE With(ip, Valid(Entry(ip), since))

\* Mutant: the entries listed are removed without another look.
EvictedBlind(ip) == Without(ip)

\* The map after the entry of ip is looked at again, under the mutex.
Evicted(ip) ==
  LET valid == Valid(Entry(ip), since)
  IN  IF ip \notin Tracked THEN requests
      ELSE IF valid = {} THEN Without(ip)
      ELSE With(ip, valid)

EvictKey ==
  /\ sweep = "evict"
  /\ \E ip \in keys :
       /\ requests' = Evicted(ip)
       /\ keys' = keys \ {ip}
       /\ sweep' = IF keys' = {} THEN "idle" ELSE "evict"
  /\ UNCHANGED <<now, since, count, admitted, told>>

Tick ==
  /\ now < MaxTime
  /\ now' = now + 1
  /\ UNCHANGED <<requests, keys, since, sweep, count, admitted, told>>

-----------------------------------------------------------------------------
Init ==
  /\ now = 0
  /\ requests = [ip \in {} |-> {}]
  /\ keys = {} /\ since = 0 /\ sweep = "idle"
  /\ count = 0 /\ admitted = [ip \in IPs |-> {}]
  /\ told = [ip \in IPs |-> Free]

Cleanup == SnapshotKeys \/ ReadClock \/ EvictKey

Next ==
  \/ Tick
  \/ \E ip \in IPs : RejectLimit(ip) \/ RejectCap(ip) \/ Admit(ip)
  \/ Cleanup

Spec == Init /\ [][Next]_vars

-----------------------------------------------------------------------------
(* Properties                                                               *)

(***************************************************************************)
(* The limit is that of a sliding window: in no minute, wherever it starts, *)
(* is an address admitted more than Limit times, although cleanup works on  *)
(* an old list of addresses and with an old clock reading.                  *)
(***************************************************************************)
WindowLimit ==
  \A ip \in IPs : \A start \in 0..now :
    Cardinality({x \in admitted[ip] : start <= x.at /\ x.at < start + Window}) <= Limit

(* The map never tracks more addresses than the cap. *)
CapHolds == MaxIPs > 0 => Cardinality(Tracked) <= MaxIPs

\* allow would not reject ip for the requests it has made.
HasRoom(ip) == Cardinality(Valid(Entry(ip), now - Window)) < Limit

(***************************************************************************)
(* The time that a rejected client is told is the "seconds until next       *)
(* request is allowed" (server.go:130), rounded (rateLimitMiddleware): it   *)
(* may be too short, by less than half a second.  An address that has       *)
(* waited that much longer than Retry-After said is not rejected for its    *)
(* own requests again, whatever others do and whenever cleanup runs.        *)
(***************************************************************************)
WaitNearlySuffices ==
  \A ip \in IPs : told[ip] # Free /\ 2 * (now - told[ip]) >= Second - 1 => HasRoom(ip)

Expired(ip) == ip \in Tracked /\ Valid(requests[ip], now - Window) = {}

-----------------------------------------------------------------------------
(***************************************************************************)
(* The inductive invariant behind WindowLimit: the map holds every          *)
(* admission that a window ending now can still count.                      *)
(***************************************************************************)
Remembered ==
  \A ip \in IPs : Valid(admitted[ip], now - Window) \subseteq Entry(ip)

NotAhead ==
  /\ \A ip \in IPs : \A x \in admitted[ip] : x.at <= now
  /\ sweep = "evict" => since <= now - Window

Finite == IsFiniteSet(Tracked) /\ \A ip \in IPs : IsFiniteSet(admitted[ip])

IInv == MapOK /\ Finite /\ Remembered /\ NotAhead /\ WindowLimit /\ CapHolds
=============================================================================
