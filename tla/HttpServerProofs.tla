-------------------------- MODULE HttpServerProofs --------------------------
(***************************************************************************)
(* The rate limiter within the server: the limit of a sliding window and    *)
(* the cap on the map, for every number of addresses, limit, cap and length *)
(* of the window; and the life of the server, which is that of              *)
(* ServerLifecycle.                                                         *)
(*                                                                          *)
(* The argument: an admission that some window ending now can still count   *)
(* is in the map (Remembered), because allow and cleanup evict only what is *)
(* a whole window old, cleanup by a clock reading that is never ahead. A    *)
(* new admission therefore brings no window above the limit.                *)
(*                                                                          *)
(* An entry that is full has exactly Limit admissions, so the expiry of the *)
(* oldest makes room (WaitInv): a rejected client waits as long as told, or *)
(* less than half a second more, which is what rounding may cost.           *)
(*                                                                          *)
(* closeCh is closed once if one goroutine calls Close and listening does   *)
(* not fail (LifeInv): whoever has closed it is done, and ListenAndServe    *)
(* leaves the channel alone when it has been shut down.                     *)
(***************************************************************************)
EXTENDS HttpServer, FiniteSetTheorems, WellFoundedInduction, TLAPS

USE LimitAssumption, ClockAssumption, AdmittedAssumption

LEMMA InitInv == Init => IInv
<1> SUFFICES ASSUME Init PROVE IInv
  OBVIOUS
<1>1. Tracked = {}
  BY DEF Init, Tracked
<1>2. IsFiniteSet({}) /\ Cardinality({}) = 0
  BY FS_EmptySet
<1>3. MapOK
  BY <1>1 DEF Init, MapOK, Tracked
<1>4. Finite
  BY <1>1, <1>2 DEF Init, Finite
<1>5. Remembered /\ NotAhead
  BY DEF Init, Remembered, NotAhead, Valid
<1>6. WindowLimit
  <2> SUFFICES ASSUME NEW ip \in IPs, NEW start \in 0..now
               PROVE Cardinality({x \in admitted[ip] : start <= x.at /\ x.at < start + Window}) <= Limit
    BY DEF WindowLimit
  <2>1. {x \in admitted[ip] : start <= x.at /\ x.at < start + Window} = {}
    BY DEF Init
  <2> QED
    BY <2>1, <1>2
<1>7. CapHolds
  BY <1>1, <1>2 DEF CapHolds
<1> QED
  BY <1>3, <1>4, <1>5, <1>6, <1>7 DEF IInv

(* A window of no new admission keeps its limit; only the clock moves on.   *)
LEMMA QuietWindow ==
  ASSUME IInv, admitted' = admitted, now' \in Nat
  PROVE  WindowLimit'
<1> SUFFICES ASSUME NEW ip \in IPs, NEW start \in 0..now'
             PROVE Cardinality({x \in admitted[ip] : start <= x.at /\ x.at < start + Window}) <= Limit
  BY DEF WindowLimit
<1>1. CASE start \in 0..now
  BY <1>1 DEF IInv, WindowLimit
<1>2. CASE start > now
  <2>1. \A x \in admitted[ip] : x.at \in Nat /\ x.at <= now
    BY DEF IInv, NotAhead, MapOK, Admission
  <2>2. {x \in admitted[ip] : start <= x.at /\ x.at < start + Window} = {}
    BY <1>2, <2>1 DEF IInv, MapOK
  <2>3. Cardinality({x \in admitted[ip] : start <= x.at /\ x.at < start + Window}) = 0
    BY <2>2, FS_EmptySet, Zenon
  <2> QED
    BY <2>3
<1> QED
  BY <1>1, <1>2 DEF IInv, MapOK

(* The map after an entry is replaced or removed.                            *)
LEMMA WithEntry ==
  ASSUME NEW ip \in IPs, NEW times, requests' = With(ip, times)
  PROVE  /\ Tracked' = Tracked \cup {ip}
         /\ requests'[ip] = times
         /\ \A a \in Tracked \ {ip} : requests'[a] = requests[a]
         /\ \A a \in IPs : Entry(a)' = IF a = ip THEN times ELSE Entry(a)
BY DEF With, Tracked, Entry

LEMMA WithoutEntry ==
  ASSUME NEW ip \in IPs, requests' = Without(ip)
  PROVE  /\ Tracked' = Tracked \ {ip}
         /\ \A a \in Tracked \ {ip} : requests'[a] = requests[a]
         /\ \A a \in IPs : Entry(a)' = IF a = ip THEN {} ELSE Entry(a)
BY DEF Without, Tracked, Entry

(* A map of as many entries or fewer respects the cap.                       *)
LEMMA Shrink ==
  ASSUME Finite, CapHolds, Tracked' \subseteq Tracked
  PROVE  IsFiniteSet(Tracked') /\ CapHolds'
<1>1. IsFiniteSet(Tracked') /\ Cardinality(Tracked') <= Cardinality(Tracked)
  BY FS_Subset DEF Finite
<1>2. Cardinality(Tracked) \in Nat /\ Cardinality(Tracked') \in Nat
  BY <1>1, FS_CardinalityType DEF Finite
<1> QED
  BY <1>1, <1>2 DEF CapHolds

(* What every action that admits nobody preserves, if it forgets nothing.    *)
LEMMA NoAdmission ==
  ASSUME IInv, UNCHANGED <<now, count, admitted>>,
         IsFiniteSet(Tracked'), CapHolds', MapOK', NotAhead',
         \A a \in IPs : Valid(Entry(a), now - Window) \subseteq Entry(a)'
  PROVE  IInv'
<1>1. Remembered'
  <2> SUFFICES ASSUME NEW a \in IPs
               PROVE  Valid(admitted[a], now - Window) \subseteq Entry(a)'
    BY DEF Remembered
  <2>1. Valid(admitted[a], now - Window) \subseteq Valid(Entry(a), now - Window)
    BY DEF IInv, Remembered, Valid
  <2> QED
    BY <2>1
<1>2. WindowLimit'
  BY QuietWindow DEF IInv, MapOK
<1>3. Finite'
  BY DEF IInv, Finite
<1> QED
  BY <1>1, <1>2, <1>3 DEF IInv

LEMMA RejectLimitInv ==
  ASSUME IInv, NEW ip \in IPs, RejectLimit(ip)
  PROVE  IInv'
<1> DEFINE valid == Valid(Entry(ip), now - Window)
<1>1. /\ Cardinality(valid) >= Limit
      /\ requests' = With(ip, valid)
      /\ UNCHANGED <<now, keys, since, sweep, count, admitted>>
  BY DEF RejectLimit
<1>2. valid # {}
  BY <1>1, FS_EmptySet
<1>3. ip \in Tracked
  BY <1>2 DEF Entry, Valid
<1>4. valid \subseteq requests[ip]
  BY <1>3 DEF Entry, Valid
<1>5. \A a \in IPs : Valid(Entry(a), now - Window) \subseteq IF a = ip THEN valid ELSE Entry(a)
  BY DEF Valid
<1> HIDE DEF valid
<1>6. /\ Tracked' = Tracked
      /\ requests'[ip] = valid
      /\ \A a \in Tracked \ {ip} : requests'[a] = requests[a]
      /\ \A a \in IPs : Entry(a)' = IF a = ip THEN valid ELSE Entry(a)
  BY <1>1, <1>3, WithEntry
<1>7. MapOK'
  BY <1>1, <1>2, <1>4, <1>6 DEF IInv, MapOK
<1>8. NotAhead'
  BY <1>1 DEF IInv, NotAhead
<1>9. IsFiniteSet(Tracked') /\ CapHolds'
  BY <1>6 DEF IInv, Finite, CapHolds
<1> QED
  BY <1>1, <1>5, <1>6, <1>7, <1>8, <1>9, NoAdmission

LEMMA RejectCapInv ==
  ASSUME IInv, NEW ip \in IPs, RejectCap(ip)
  PROVE  IInv'
<1>1. UNCHANGED <<now, requests, keys, since, sweep, count, admitted>>
  BY DEF RejectCap
<1>2. MapOK' /\ Finite' /\ NotAhead' /\ CapHolds' /\ Tracked' = Tracked
  BY <1>1 DEF IInv, MapOK, Finite, NotAhead, CapHolds, Tracked
<1>3. \A a \in IPs : Valid(Entry(a), now - Window) \subseteq Entry(a)'
  BY <1>1 DEF Valid, Entry, Tracked
<1> QED
  BY <1>1, <1>2, <1>3, NoAdmission DEF Finite

LEMMA AdmitInv ==
  ASSUME IInv, NEW ip \in IPs, Admit(ip)
  PROVE  IInv'
<1> DEFINE valid == Valid(Entry(ip), now - Window)
           this == [n |-> count + 1, at |-> now]
<1>1. /\ Cardinality(valid) < Limit
      /\ ~Capped(ip)
      /\ count' = count + 1
      /\ requests' = With(ip, valid \cup {this})
      /\ admitted' = [admitted EXCEPT ![ip] = @ \cup {this}]
      /\ UNCHANGED <<now, keys, since, sweep>>
  BY DEF Admit
<1>2. /\ now \in Nat /\ this \in Admission
      /\ Entry(ip) \subseteq admitted[ip] /\ valid \subseteq Entry(ip)
      /\ admitted[ip] \subseteq Admission
  BY DEF IInv, MapOK, Entry, Valid, Admission
<1>3. IsFiniteSet(valid) /\ Cardinality(valid) \in Nat
  BY <1>2, FS_Subset, FS_CardinalityType DEF IInv, Finite
<1>4. \A x \in admitted[ip] : x.at > now - Window => x \in valid
  BY DEF IInv, Remembered, Valid
<1>5. this.at = now
  OBVIOUS
<1> HIDE DEF valid, this
<1>6. /\ Tracked' = Tracked \cup {ip}
      /\ requests'[ip] = valid \cup {this}
      /\ \A a \in Tracked \ {ip} : requests'[a] = requests[a]
      /\ \A a \in IPs : Entry(a)' = IF a = ip THEN valid \cup {this} ELSE Entry(a)
  BY <1>1, WithEntry
<1>7. /\ admitted'[ip] = admitted[ip] \cup {this}
      /\ \A a \in IPs \ {ip} : admitted'[a] = admitted[a]
  BY <1>1 DEF IInv, MapOK
<1>8. MapOK'
  <2>1. valid \cup {this} \subseteq Admission /\ valid \cup {this} # {}
    BY <1>2
  <2>2. \A a \in Tracked' : requests'[a] \subseteq Admission /\ requests'[a] # {}
    BY <1>6, <2>1 DEF IInv, MapOK
  <2>3. admitted' \in [IPs -> SUBSET Admission]
    BY <1>1, <1>2 DEF IInv, MapOK
  <2>4. \A a \in Tracked' : requests'[a] \subseteq admitted'[a]
    <3> TAKE a \in Tracked'
    <3>1. CASE a = ip
      BY <3>1, <1>2, <1>6, <1>7
    <3>2. CASE a # ip
      <4>1. a \in Tracked \ {ip} /\ a \in IPs
        BY <3>2, <1>6 DEF IInv, MapOK
      <4> QED
        BY <4>1, <1>6, <1>7 DEF IInv, MapOK
    <3> QED
      BY <3>1, <3>2
  <2>5. Tracked' \subseteq IPs
    BY <1>6 DEF IInv, MapOK
  <2>6. now' \in Nat /\ keys' \subseteq IPs /\ since' \in Int /\ count' \in Nat
        /\ sweep' \in {"idle", "clock", "evict"}
    BY <1>1 DEF IInv, MapOK
  <2> QED
    BY <2>2, <2>3, <2>4, <2>5, <2>6 DEF MapOK
<1>9. Finite'
  <2>1. IsFiniteSet(Tracked')
    BY <1>6, FS_AddElement DEF IInv, Finite
  <2>2. IsFiniteSet(admitted'[ip])
    BY <1>7, FS_AddElement DEF IInv, Finite
  <2> QED
    BY <2>1, <2>2, <1>7 DEF IInv, Finite
<1>10. Remembered'
  <2> SUFFICES ASSUME NEW a \in IPs, NEW x \in admitted'[a], x.at > now - Window
               PROVE  x \in Entry(a)'
    BY <1>1 DEF Remembered, Valid
  <2>1. CASE a = ip
    BY <2>1, <1>4, <1>6, <1>7
  <2>2. CASE a # ip
    BY <2>2, <1>6, <1>7 DEF IInv, Remembered, Valid
  <2> QED
    BY <2>1, <2>2
<1>11. NotAhead'
  <2>1. \A a \in IPs : \A x \in admitted'[a] : x.at <= now
    BY <1>5, <1>7, <1>2 DEF IInv, NotAhead
  <2> QED
    BY <2>1, <1>1 DEF IInv, NotAhead
<1>12. WindowLimit'
  <2> SUFFICES ASSUME NEW a \in IPs, NEW start \in 0..now
               PROVE Cardinality({x \in admitted'[a] : start <= x.at /\ x.at < start + Window}) <= Limit
    BY <1>1 DEF WindowLimit
  <2>1. CASE a # ip
    BY <2>1, <1>7 DEF IInv, WindowLimit
  <2>2. CASE a = ip /\ now >= start + Window
    <3>1. {x \in admitted'[a] : start <= x.at /\ x.at < start + Window}
            = {x \in admitted[a] : start <= x.at /\ x.at < start + Window}
      BY <2>2, <1>2, <1>5, <1>7
    <3> QED
      BY <3>1 DEF IInv, WindowLimit
  <2>3. CASE a = ip /\ now < start + Window
    <3>1. {x \in admitted'[a] : start <= x.at /\ x.at < start + Window} \subseteq valid \cup {this}
      <4> SUFFICES ASSUME NEW x \in admitted[ip], start <= x.at
                   PROVE  x \in valid
        BY <2>3, <1>7
      <4>1. x.at \in Nat /\ start \in Nat
        BY <1>2 DEF Admission
      <4>2. x.at > now - Window
        BY <4>1, <1>2, <2>3
      <4> QED
        BY <4>2, <1>4
    <3>2. IsFiniteSet(valid \cup {this}) /\ Cardinality(valid \cup {this}) <= Cardinality(valid) + 1
      <4>1. /\ IsFiniteSet(valid \cup {this})
            /\ Cardinality(valid \cup {this})
                 = IF this \in valid THEN Cardinality(valid) ELSE Cardinality(valid) + 1
        BY <1>3, FS_AddElement, Zenon
      <4> QED
        BY <4>1, <1>3
    <3>3. Cardinality({x \in admitted'[a] : start <= x.at /\ x.at < start + Window})
            <= Cardinality(valid \cup {this})
      BY <3>1, <3>2, FS_Subset
    <3>4. /\ Cardinality({x \in admitted'[a] : start <= x.at /\ x.at < start + Window}) \in Nat
          /\ Cardinality(valid \cup {this}) \in Nat
      BY <3>1, <3>2, FS_Subset, FS_CardinalityType
    <3> QED
      BY <1>1, <1>3, <3>2, <3>3, <3>4
  <2> QED
    BY <2>1, <2>2, <2>3, <1>2
<1>13. CapHolds'
  <2>1. CASE ip \in Tracked
    <3>1. Tracked' = Tracked
      BY <2>1, <1>6
    <3> QED
      BY <3>1 DEF IInv, CapHolds
  <2>2. CASE ip \notin Tracked
    <3>1. Cardinality(Tracked') = Cardinality(Tracked) + 1 /\ Cardinality(Tracked) \in Nat
      BY <2>2, <1>6, FS_AddElement, FS_CardinalityType DEF IInv, Finite
    <3> QED
      BY <3>1, <2>2, <1>1 DEF Capped, CapHolds
  <2> QED
    BY <2>1, <2>2
<1> QED
  BY <1>8, <1>9, <1>10, <1>11, <1>12, <1>13 DEF IInv

LEMMA EvictKeyInv ==
  ASSUME IInv, EvictKey
  PROVE  IInv'
<1>1. /\ sweep = "evict"
      /\ UNCHANGED <<now, since, count, admitted, told>>
      /\ sweep' \in {"idle", "evict"}
  BY DEF EvictKey
<1>2. PICK ip \in keys : requests' = Evicted(ip) /\ keys' = keys \ {ip}
  BY DEF EvictKey
<1>3. ip \in IPs /\ keys' \subseteq IPs
  BY <1>2 DEF IInv, MapOK
<1>4. now \in Nat /\ since \in Int /\ since <= now - Window
  BY <1>1 DEF IInv, MapOK, NotAhead
<1>5. \A a \in IPs : \A x \in Entry(a) : x.at \in Nat
  BY DEF IInv, MapOK, Entry, Admission
<1>6. NotAhead'
  BY <1>1 DEF IInv, NotAhead
<1> DEFINE valid == Valid(Entry(ip), since)
<1>7. valid \subseteq Entry(ip) /\ Valid(Entry(ip), now - Window) \subseteq valid
  BY <1>3, <1>4, <1>5 DEF Valid
<1>8. \A a \in IPs : Valid(Entry(a), now - Window) \subseteq Entry(a)
  BY DEF Valid
<1> HIDE DEF valid
<1>9. CASE ip \notin Tracked
  <2>1. requests' = requests
    BY <1>2, <1>9 DEF Evicted
  <2>2. MapOK' /\ Tracked' = Tracked /\ \A a \in IPs : Entry(a)' = Entry(a)
    BY <2>1, <1>1, <1>3 DEF IInv, MapOK, Tracked, Entry
  <2>3. IsFiniteSet(Tracked') /\ CapHolds'
    BY <2>2, Shrink DEF IInv
  <2> QED
    BY <1>1, <1>6, <1>8, <2>2, <2>3, NoAdmission
<1>10. CASE ip \in Tracked /\ valid = {}
  <2>1. requests' = Without(ip)
    BY <1>2, <1>10 DEF Evicted, valid
  <2>2. /\ Tracked' = Tracked \ {ip}
        /\ \A a \in Tracked \ {ip} : requests'[a] = requests[a]
        /\ \A a \in IPs : Entry(a)' = IF a = ip THEN {} ELSE Entry(a)
    BY <2>1, <1>3, WithoutEntry
  <2>3. MapOK'
    BY <2>2, <1>1, <1>3 DEF IInv, MapOK
  <2>4. IsFiniteSet(Tracked') /\ CapHolds'
    BY <2>2, Shrink DEF IInv
  <2>5. \A a \in IPs : Valid(Entry(a), now - Window) \subseteq Entry(a)'
    BY <2>2, <1>7, <1>8, <1>10
  <2> QED
    BY <1>1, <1>6, <2>3, <2>4, <2>5, NoAdmission
<1>11. CASE ip \in Tracked /\ valid # {}
  <2>1. requests' = With(ip, valid)
    BY <1>2, <1>11 DEF Evicted, valid
  <2>2. /\ Tracked' = Tracked
        /\ requests'[ip] = valid
        /\ \A a \in Tracked \ {ip} : requests'[a] = requests[a]
        /\ \A a \in IPs : Entry(a)' = IF a = ip THEN valid ELSE Entry(a)
    BY <2>1, <1>3, <1>11, WithEntry
  <2>3. valid \subseteq requests[ip]
    BY <1>7, <1>11 DEF Entry
  <2>4. MapOK'
    BY <2>2, <2>3, <1>1, <1>3, <1>11 DEF IInv, MapOK
  <2>5. IsFiniteSet(Tracked') /\ CapHolds'
    BY <2>2, Shrink DEF IInv
  <2>6. \A a \in IPs : Valid(Entry(a), now - Window) \subseteq Entry(a)'
    BY <2>2, <1>7, <1>8
  <2> QED
    BY <1>1, <1>6, <2>4, <2>5, <2>6, NoAdmission
<1> QED
  BY <1>9, <1>10, <1>11

(* Steps that touch neither the map nor the admissions.                      *)
LEMMA SameMap ==
  ASSUME IInv, UNCHANGED <<requests, count, admitted>>
  PROVE  /\ Tracked' = Tracked /\ \A a \in IPs : Entry(a)' = Entry(a)
         /\ Finite' /\ CapHolds'
BY DEF IInv, Tracked, Entry, Finite, CapHolds

LEMMA SweepInv ==
  ASSUME IInv, SnapshotKeys \/ ReadClock
  PROVE  IInv'
<1>1. UNCHANGED <<now, requests, count, admitted, told>>
  BY DEF SnapshotKeys, ReadClock
<1>2. \A a \in IPs : Valid(Entry(a), now - Window) \subseteq Entry(a)'
  BY <1>1, SameMap DEF Valid
<1>3. CASE SnapshotKeys
  <2>1. MapOK' /\ NotAhead'
    BY <1>3, <1>1 DEF SnapshotKeys, IInv, MapOK, NotAhead, Tracked
  <2> QED
    BY <2>1, <1>1, <1>2, SameMap, NoAdmission DEF Finite
<1>4. CASE ReadClock
  <2>1. MapOK' /\ NotAhead'
    BY <1>4, <1>1 DEF ReadClock, IInv, MapOK, NotAhead, Tracked
  <2> QED
    BY <2>1, <1>1, <1>2, SameMap, NoAdmission DEF Finite
<1> QED
  BY <1>3, <1>4

LEMMA TickInv ==
  ASSUME IInv, Tick
  PROVE  IInv'
<1>1. now' = now + 1 /\ UNCHANGED <<requests, keys, since, sweep, count, admitted, told>>
  BY DEF Tick
<1>2. now \in Nat /\ now' \in Nat /\ since \in Int
  BY <1>1 DEF IInv, MapOK
<1>3. \A a \in IPs : \A x \in admitted[a] : x.at \in Nat
  BY DEF IInv, MapOK, Admission
<1>4. MapOK'
  BY <1>1 DEF IInv, MapOK, Tracked
<1>5. NotAhead'
  <2>1. \A a \in IPs : \A x \in admitted[a] : x.at <= now'
    BY <1>1, <1>2, <1>3 DEF IInv, NotAhead
  <2>2. sweep = "evict" => since <= now' - Window
    BY <1>1, <1>2 DEF IInv, NotAhead
  <2> QED
    BY <2>1, <2>2, <1>1 DEF NotAhead
<1>6. Remembered'
  <2> SUFFICES ASSUME NEW a \in IPs, NEW x \in admitted[a], x.at > now' - Window
               PROVE  x \in Entry(a)
    BY <1>1, SameMap DEF Remembered, Valid
  <2>1. x.at > now - Window
    BY <1>1, <1>2, <1>3
  <2> QED
    BY <2>1 DEF IInv, Remembered, Valid
<1> QED
  BY <1>1, <1>2, <1>4, <1>5, <1>6, SameMap, QuietWindow DEF IInv

LEMMA StutterInv ==
  ASSUME IInv, UNCHANGED vars
  PROVE  IInv'
<1>1. UNCHANGED <<now, requests, keys, since, sweep, count, admitted>>
  BY DEF vars
<1>2. MapOK' /\ NotAhead'
  BY <1>1 DEF IInv, MapOK, NotAhead, Tracked
<1>3. \A a \in IPs : Valid(Entry(a), now - Window) \subseteq Entry(a)'
  BY <1>1, SameMap DEF Valid
<1> QED
  BY <1>1, <1>2, <1>3, SameMap, NoAdmission DEF Finite

(* IInv holds initially and every step preserves it. *)
THEOREM InductiveInvariant == Spec => []IInv
<1>1. IInv /\ [Next]_vars => IInv'
  <2> SUFFICES ASSUME IInv, [Next]_vars PROVE IInv'
    OBVIOUS
  <2>1. CASE Tick
    BY <2>1, TickInv
  <2>2. ASSUME NEW ip \in IPs, RejectLimit(ip) PROVE IInv'
    BY <2>2, RejectLimitInv
  <2>3. ASSUME NEW ip \in IPs, RejectCap(ip) PROVE IInv'
    BY <2>3, RejectCapInv
  <2>4. ASSUME NEW ip \in IPs, Admit(ip) PROVE IInv'
    BY <2>4, AdmitInv
  <2>5. CASE SnapshotKeys \/ ReadClock
    BY <2>5, SweepInv
  <2>6. CASE EvictKey
    BY <2>6, EvictKeyInv
  <2>7. CASE UNCHANGED vars
    BY <2>7, StutterInv
  <2> QED
    BY <2>1, <2>2, <2>3, <2>4, <2>5, <2>6, <2>7 DEF Next, Cleanup
<1> QED
  BY InitInv, <1>1, PTL DEF Spec

(***************************************************************************)
(* rateLimiter: no sliding window of a minute ever sees more than Limit     *)
(* requests of one address admitted, however cleanup interleaves with allow.*)
(***************************************************************************)
THEOREM LimitHolds == Spec => []WindowLimit
<1>1. IInv => WindowLimit
  BY DEF IInv
<1> QED
  BY <1>1, InductiveInvariant, PTL

(***************************************************************************)
(* rateLimiter: the map never tracks more addresses than maxIPs.            *)
(***************************************************************************)
THEOREM MapBounded == Spec => []CapHolds
<1>1. IInv => CapHolds
  BY DEF IInv
<1> QED
  BY <1>1, InductiveInvariant, PTL

-----------------------------------------------------------------------------
(* retryAfter                                                               *)

\* Whoever is told to wait until a time has less than a window's worth of
\* admissions left when the one that expires first is gone, which is so at that
\* time or less than half a second later.
Waiting(entry, until) ==
  \E x \in Admission :
    2 * (x.at + Window) <= 2 * until + Second - 1 /\ Cardinality(entry \ {x}) < Limit

\* The header is less than half a second short.
LEMMA Rounding ==
  ASSUME NEW wait \in Int
  PROVE  /\ RetryAfter(wait) * Second \in Int
         /\ 2 * wait <= 2 * (RetryAfter(wait) * Second) + Second - 1
<1> DEFINE k == RetryAfter(wait)
           r == (2 * wait + Second) % (2 * Second)
<1>1. Second \in Nat /\ 2 * Second > 0
  BY SecondAssumption
<1>2. k \in Int /\ r \in Int /\ r <= 2 * Second - 1
      /\ 2 * wait + Second = (2 * Second) * k + r
  BY <1>1 DEF RetryAfter
<1> HIDE DEF k, r
<1>3. k * Second \in Int /\ (2 * Second) * k = 2 * (k * Second)
  BY <1>1, <1>2
<1> DEFINE m == k * Second
           q == (2 * Second) * k
<1>4. m \in Int /\ q = 2 * m /\ 2 * wait + Second = q + r
  BY <1>2, <1>3
<1> HIDE DEF m, q
<1>5. 2 * wait <= 2 * m + Second - 1
  BY <1>1, <1>2, <1>4
<1> QED
  BY <1>3, <1>5 DEF k, m

WaitInv ==
  /\ told \in [IPs -> Int]
  /\ \A ip \in IPs : told[ip] # Free => Waiting(Entry(ip), told[ip])

\* The admission that RejectLimit looks for is there.
LEMMA OldestFound ==
  ASSUME NEW times \in SUBSET Admission, times # {}
  PROVE  \E x \in times : Expiry(times) = x.at + Window
<1> DEFINE T == {x.at : x \in times}
<1>1. T \in SUBSET Nat /\ T # {}
  BY DEF Admission
<1>2. \E t \in T : \A u \in T : ~(<<u, t>> \in OpToRel(<, Nat))
  BY <1>1, NatLessThanWellFounded, WFMin
<1>3. \A t, u \in T : ~(<<u, t>> \in OpToRel(<, Nat)) => t <= u
  BY <1>1 DEF OpToRel
<1>4. \E x \in times : \A y \in times : x.at <= y.at
  BY <1>2, <1>3
<1> DEFINE oldest == CHOOSE x \in times : \A y \in times : x.at <= y.at
<1>5. oldest \in times
  BY <1>4
<1> QED
  BY <1>5 DEF Expiry

LEMMA EntryType ==
  ASSUME IInv, NEW ip \in IPs
  PROVE  /\ Entry(ip) \subseteq admitted[ip] /\ Entry(ip) \in SUBSET Admission
         /\ \A S \in SUBSET Entry(ip) : IsFiniteSet(S) /\ Cardinality(S) \in Nat
<1>1. Entry(ip) \subseteq admitted[ip] /\ Entry(ip) \in SUBSET Admission
  BY DEF IInv, MapOK, Entry
<1>2. IsFiniteSet(admitted[ip])
  BY DEF IInv, Finite
<1> QED
  BY <1>1, <1>2, FS_Subset, FS_CardinalityType

\* An address that waits goes on waiting while its entry only shrinks.
LEMMA WaitingLess ==
  ASSUME IInv, NEW ip \in IPs, NEW entry \in SUBSET Entry(ip), NEW until \in Int,
         Waiting(Entry(ip), until)
  PROVE  Waiting(entry, until)
<1>1. PICK x \in Admission : /\ 2 * (x.at + Window) <= 2 * until + Second - 1
                             /\ Cardinality(Entry(ip) \ {x}) < Limit
  BY DEF Waiting
<1>2. /\ IsFiniteSet(Entry(ip) \ {x}) /\ Cardinality(Entry(ip) \ {x}) \in Nat
      /\ entry \ {x} \in SUBSET (Entry(ip) \ {x})
  BY EntryType
<1>3. Cardinality(entry \ {x}) <= Cardinality(Entry(ip) \ {x}) /\ Cardinality(entry \ {x}) \in Nat
  BY <1>2, FS_Subset, FS_CardinalityType
<1>4. ASSUME NEW m \in Nat, NEW n \in Nat, m <= n, n < Limit PROVE m < Limit
  BY <1>4
<1>5. Cardinality(entry \ {x}) < Limit
  BY <1>1, <1>2, <1>3, <1>4, Zenon
<1> QED
  BY <1>1, <1>5 DEF Waiting

LEMMA WaitShrinks ==
  ASSUME IInv, WaitInv, told' = told,
         \A ip \in IPs : Entry(ip)' \subseteq Entry(ip)
  PROVE  WaitInv'
<1> SUFFICES ASSUME NEW ip \in IPs, told[ip] # Free
             PROVE  Waiting(Entry(ip)', told[ip])
  BY DEF WaitInv, Waiting
<1>1. Waiting(Entry(ip), told[ip]) /\ told[ip] \in Int
  BY DEF WaitInv
<1> QED
  BY <1>1, WaitingLess

\* A full window is exactly full: a request is not admitted when it is.
LEMMA NoMoreThanLimit ==
  ASSUME IInv, NEW ip \in IPs
  PROVE  LET valid == Valid(Entry(ip), now - Window)
         IN  IsFiniteSet(valid) /\ Cardinality(valid) \in Nat /\ Cardinality(valid) <= Limit
<1> DEFINE valid == Valid(Entry(ip), now - Window)
           start == IF now < Window THEN 0 ELSE now - Window + 1
           counted == {x \in admitted[ip] : start <= x.at /\ x.at < start + Window}
<1>1. now \in Nat /\ start \in 0..now
  BY DEF IInv, MapOK
<1>2. Cardinality(counted) <= Limit
  BY <1>1 DEF IInv, WindowLimit
<1>3. \A x \in admitted[ip] : x.at \in Nat /\ x.at <= now
  BY DEF IInv, MapOK, NotAhead, Admission
<1>4. valid \in SUBSET counted
  BY <1>1, <1>3, EntryType DEF Valid
<1>5. IsFiniteSet(counted)
  BY FS_Subset DEF IInv, Finite
<1> HIDE DEF valid, counted
<1>6. IsFiniteSet(valid) /\ Cardinality(valid) <= Cardinality(counted)
  BY <1>4, <1>5, FS_Subset
<1>7. Cardinality(valid) \in Nat /\ Cardinality(counted) \in Nat
  BY <1>5, <1>6, FS_CardinalityType
<1>8. Cardinality(valid) <= Limit
  BY <1>2, <1>6, <1>7
<1> QED
  BY <1>6, <1>7, <1>8 DEF valid

LEMMA WaitKept ==
  ASSUME IInv, WaitInv, [Next]_vars
  PROVE  WaitInv'
<1>1. CASE Tick \/ SnapshotKeys \/ ReadClock \/ UNCHANGED vars
  <2>1. UNCHANGED <<requests, told>>
    BY <1>1 DEF Tick, SnapshotKeys, ReadClock, vars
  <2>2. \A ip \in IPs : Entry(ip)' = Entry(ip)
    BY <2>1 DEF Entry, Tracked
  <2> QED
    BY <2>1, <2>2, WaitShrinks
<1>2. CASE EvictKey
  <2>1. told' = told
    BY <1>2 DEF EvictKey
  <2>2. PICK ip \in IPs : requests' = Evicted(ip)
    BY <1>2 DEF EvictKey, IInv, MapOK
  <2>3. Valid(Entry(ip), since) \subseteq Entry(ip)
    BY DEF Valid
  <2>4. \A a \in IPs : Entry(a)' \subseteq Entry(a)
    <3>1. CASE requests' = requests
      BY <3>1 DEF Entry, Tracked
    <3>2. CASE requests' = Without(ip)
      BY <3>2, WithoutEntry
    <3>3. CASE requests' = With(ip, Valid(Entry(ip), since))
      BY <2>3, <3>3, WithEntry
    <3> QED
      BY <2>2, <3>1, <3>2, <3>3 DEF Evicted
  <2> QED
    BY <2>1, <2>4, WaitShrinks
<1>3. ASSUME NEW ip \in IPs, RejectLimit(ip) PROVE WaitInv'
  <2> DEFINE valid == Valid(Entry(ip), now - Window)
             until == Expiry(valid)
  <2>1. /\ Cardinality(valid) >= Limit /\ requests' = With(ip, valid)
        /\ told' = [told EXCEPT ![ip] = now + RetryAfter(until - now) * Second]
    BY <1>3 DEF RejectLimit, Reject
  <2>2. /\ valid \subseteq Entry(ip) /\ valid \in SUBSET Admission /\ valid # {}
        /\ IsFiniteSet(valid) /\ Cardinality(valid) = Limit
    BY <2>1, EntryType, NoMoreThanLimit, FS_EmptySet DEF Valid
  <2> HIDE DEF valid
  <2>3. PICK x \in valid : until = x.at + Window
    BY <2>2, OldestFound
  <2>4. x \in Admission /\ x.at \in Nat /\ until \in Int /\ now \in Nat
    BY <2>2, <2>3 DEF Admission, IInv, MapOK
  <2>5. Cardinality(valid \ {x}) = Cardinality(valid) - 1
    BY <2>2, <2>3, FS_RemoveElement
  <2> HIDE DEF until
  <2> DEFINE back == now + RetryAfter(until - now) * Second
  <2>8. back \in Int /\ 2 * until <= 2 * back + Second - 1
    <3> DEFINE rounded == RetryAfter(until - now) * Second
    <3>1. until - now \in Int
      BY <2>4
    <3>2. rounded \in Int /\ 2 * (until - now) <= 2 * rounded + Second - 1
      BY <3>1, Rounding
    <3> HIDE DEF rounded
    <3>3. now + rounded \in Int /\ 2 * until <= 2 * (now + rounded) + Second - 1
      BY <2>4, <3>2, SecondAssumption
    <3> QED
      BY <3>3 DEF rounded
  <2>a. Limit - 1 < Limit /\ 2 * (x.at + Window) <= 2 * back + Second - 1
    BY <2>3, <2>8
  <2>b. Cardinality(valid \ {x}) < Limit
    BY <2>2, <2>5, <2>a, Zenon
  <2>6. Waiting(valid, back)
    BY <2>4, <2>a, <2>b, Zenon DEF Waiting
  <2>7. \A a \in IPs : Entry(a)' = IF a = ip THEN valid ELSE Entry(a)
    BY <2>1, WithEntry
  <2>9. told' = [told EXCEPT ![ip] = back]
    BY <2>1
  <2> HIDE DEF back
  <2> QED
    BY <2>6, <2>7, <2>8, <2>9 DEF WaitInv
<1>4. ASSUME NEW ip \in IPs, RejectCap(ip) PROVE WaitInv'
  <2>1. /\ Capped(ip) /\ requests' = requests
        /\ told' = [told EXCEPT ![ip] = now + RetryAfter(Window) * Second]
    BY <1>4 DEF RejectCap, Reject
  <2>2. Entry(ip) = {} /\ \A a \in IPs : Entry(a)' = Entry(a)
    BY <2>1 DEF Capped, Entry, Tracked
  <2>3. now \in Nat
    BY DEF IInv, MapOK
  <2> DEFINE x == [n |-> 0, at |-> now]
         rounded == RetryAfter(Window) * Second
         back == now + rounded
  <2>r. rounded \in Int /\ 2 * Window <= 2 * rounded + Second - 1
    BY Rounding
  <2> HIDE DEF rounded
  <2>4. /\ x \in Admission /\ back \in Int
        /\ 2 * (x.at + Window) <= 2 * back + Second - 1
    BY <2>3, <2>r, SecondAssumption DEF Admission
  <2>5. {} \ {x} = {} /\ Cardinality({}) = 0
    BY FS_EmptySet
  <2> HIDE DEF back
  <2>6. Waiting({}, back)
    BY <2>4, <2>5 DEF Waiting
  <2>7. told' = [told EXCEPT ![ip] = back]
    BY <2>1 DEF back, rounded
  <2> QED
    BY <2>2, <2>4, <2>6, <2>7 DEF WaitInv
<1>5. ASSUME NEW ip \in IPs, Admit(ip) PROVE WaitInv'
  <2>1. /\ told' = [told EXCEPT ![ip] = Free]
        /\ \E times : requests' = With(ip, times)
    BY <1>5 DEF Admit
  <2>2. \A a \in IPs \ {ip} : Entry(a)' = Entry(a)
    BY <2>1, WithEntry
  <2> QED
    BY <2>1, <2>2 DEF WaitInv, Free
<1> QED
  BY <1>1, <1>2, <1>3, <1>4, <1>5 DEF Next, Cleanup

(***************************************************************************)
(* Retry-After is right to within half a second (rateLimitMiddleware):      *)
(* whoever has waited just that much longer than it said finds his window   *)
(* with room, for every limit, window and length of the second, although    *)
(* allow of other addresses and cleanup have come in between.               *)
(***************************************************************************)
THEOREM WaitingNearlySuffices == Spec => []WaitNearlySuffices
<1>1. Init => WaitInv
  BY DEF Init, WaitInv, Free
<1>2. IInv /\ WaitInv => WaitNearlySuffices
  <2> SUFFICES ASSUME IInv, WaitInv, NEW ip \in IPs, told[ip] # Free,
                      2 * (now - told[ip]) >= Second - 1
               PROVE  Cardinality(Valid(Entry(ip), now - Window)) < Limit
    BY DEF WaitNearlySuffices, HasRoom
  <2>1. told[ip] \in Int /\ now \in Nat
    BY DEF WaitInv, IInv, MapOK
  <2>2. PICK x \in Admission : /\ 2 * (x.at + Window) <= 2 * told[ip] + Second - 1
                               /\ Cardinality(Entry(ip) \ {x}) < Limit
    BY DEF WaitInv, Waiting
  <2>3. x.at \in Nat /\ ~(x.at > now - Window)
    BY <2>1, <2>2, SecondAssumption DEF Admission
  <2> DEFINE valid == Valid(Entry(ip), now - Window)
             rest == Entry(ip) \ {x}
  <2>4. valid \in SUBSET rest
    BY <2>3 DEF Valid
  <2>5. IsFiniteSet(rest) /\ Cardinality(rest) \in Nat
    BY EntryType
  <2> HIDE DEF valid, rest
  <2>6. Cardinality(valid) <= Cardinality(rest) /\ Cardinality(valid) \in Nat
    BY <2>4, <2>5, FS_Subset, FS_CardinalityType
  <2>7. Cardinality(valid) < Limit
    BY <2>2, <2>5, <2>6 DEF rest
  <2> QED
    BY <2>7 DEF valid
<1>3. IInv /\ WaitInv /\ [Next]_vars => WaitInv'
  BY WaitKept
<1> QED
  BY <1>1, <1>2, <1>3, InductiveInvariant, PTL DEF Spec

-----------------------------------------------------------------------------
(* Within the life of the server                                            *)

(***************************************************************************)
(* The rate limiter of a server that is started and closed (HttpServer) is  *)
(* one: ListenAndServe and Close only decide when it is called.             *)
(***************************************************************************)
THEOREM ServerImplementsLimiter == ServerSpec => Spec
<1>1. ServerInit => Init
  BY DEF ServerInit
<1>2. ASSUME [ServerNext]_serverVars PROVE [Next]_vars
  <2>1. CASE Tick
    BY <2>1 DEF Next
  <2>2. ASSUME NEW ip \in IPs, Request(ip) PROVE Next
    BY <2>2 DEF Request, Next
  <2>3. CASE CleanUp
    BY <2>3 DEF CleanUp, Next
  <2>4. CASE LifeStep
    BY <2>4 DEF LifeStep, limiterVars
  <2>5. CASE UNCHANGED serverVars
    BY <2>5 DEF serverVars, limiterVars
  <2> QED
    BY <1>2, <2>1, <2>2, <2>3, <2>4, <2>5 DEF ServerNext
<1>3. ServerSpec => ServerInit /\ [][ServerNext]_serverVars
  BY PTL DEF ServerSpec
<1> QED
  BY <1>1, <1>2, <1>3, PTL DEF Spec

(***************************************************************************)
(* So the limit, the cap and the waiting time are those of the server, also *)
(* when it has been closed and its cleanup has ended.                       *)
(***************************************************************************)
THEOREM ServerLimits == ServerSpec => [](WindowLimit /\ CapHolds /\ WaitNearlySuffices)
  BY ServerImplementsLimiter, LimitHolds, MapBounded, WaitingNearlySuffices, PTL

-----------------------------------------------------------------------------
(* ListenAndServe and Close                                                 *)

(***************************************************************************)
(* The rate limiter does not disturb the server's life: HttpServer is also  *)
(* a server that starts, stops and cleans as ServerLifecycle says.          *)
(***************************************************************************)
THEOREM ServerImplementsLife == ServerSpec => Life!Spec
<1>1. ServerInit => Life!Init
  BY DEF ServerInit
<1>2. ASSUME [ServerNext]_serverVars PROVE [Life!Next]_(Life!vars)
  <2>1. CASE ServerNext /\ ~LifeStep
    <3>1. UNCHANGED lifeVars
      BY <2>1 DEF ServerNext, Request, CleanUp
    <3> QED
      BY <3>1 DEF lifeVars, Life!vars
  <2>2. CASE LifeStep
    BY <2>2 DEF LifeStep
  <2>3. CASE UNCHANGED serverVars
    BY <2>3 DEF serverVars, lifeVars, Life!vars
  <2> QED
    BY <1>2, <2>1, <2>2, <2>3
<1>3. ServerSpec => ServerInit /\ [][ServerNext]_serverVars
  BY PTL DEF ServerSpec
<1> QED
  BY <1>1, <1>2, <1>3, PTL DEF Life!Spec

\* Nobody calls Close, or one goroutine does and listening does not fail by
\* itself.
OneCloser == Closers = {} \/ (~ListenFails /\ \E g : Closers = {g})

\* A closed channel has been closed by the one who will not do it again, and
\* ListenAndServe leaves the channel alone once it has been shut down.
LifeInv ==
  /\ Life!TypeOK
  /\ ~panicked
  /\ \A g \in Closers : closed <=> pc[g] \in {"shutdown", "returned"}
  /\ Closers # {} /\ pc["serve"] \in {"test", "close", "returned"} => httpServer = "shutdown"
  /\ Closers = {} /\ closed => pc["serve"] = "returned"
  /\ httpServer = "shutdown" => \E g \in Closers : pc[g] = "returned"
  /\ Closers # {} => pc["serve"] # "close"

LEMMA LifeInductive ==
  ASSUME OneCloser, LifeInv, [Life!Next]_(Life!vars)
  PROVE  LifeInv'
<1>0. /\ pc \in [Life!Goroutines -> Life!ServeSteps \cup Life!CloseSteps]
      /\ pc["serve"] \in Life!ServeSteps /\ "serve" \notin Closers
      /\ Life!Goroutines = Closers \cup {"serve"}
      /\ \A g, h \in Closers : g = h
  BY ClosersAssumption DEF LifeInv, Life!TypeOK, Life!Goroutines, OneCloser
<1>1. CASE Life!StartCleaner
  BY <1>0, <1>1 DEF Life!StartCleaner, Life!Go, LifeInv, Life!TypeOK, Life!ServeSteps, Life!CloseSteps
<1>2. CASE Life!StoreServer
  BY <1>0, <1>2 DEF Life!StoreServer, Life!Go, LifeInv, Life!TypeOK, Life!ServeSteps, Life!CloseSteps
<1>3. CASE Life!Listen
  BY <1>0, <1>3 DEF Life!Listen, Life!AfterListen, Life!Go, LifeInv, Life!TypeOK, Life!ServeSteps, Life!CloseSteps
<1>4. CASE Life!ListenEnds
  BY <1>0, <1>4 DEF Life!ListenEnds, Life!AfterListen, Life!Go, LifeInv, Life!TypeOK, Life!ServeSteps, Life!CloseSteps
<1>5. CASE Life!ListenFail
  <2>1. Closers = {}
    BY <1>5 DEF Life!ListenFail, OneCloser
  <2> QED
    BY <1>0, <1>5, <2>1 DEF Life!ListenFail, Life!AfterListen, Life!Go, LifeInv, Life!TypeOK,
       Life!ServeSteps, Life!CloseSteps
<1>6. ASSUME NEW g \in Life!Goroutines, Life!CallClose(g) PROVE LifeInv'
  BY <1>0, <1>6 DEF Life!CallClose, Life!Go, LifeInv, Life!TypeOK, Life!ServeSteps, Life!CloseSteps
<1>7. ASSUME NEW g \in Life!Goroutines, Life!TestCloseCh(g) PROVE LifeInv'
  <2>1. CASE g = "serve"
    BY <1>0, <1>7, <2>1 DEF Life!TestCloseCh, Life!AfterClose, Life!Go, LifeInv, Life!TypeOK,
       Life!ServeSteps, Life!CloseSteps
  <2>2. CASE g \in Closers
    BY <1>0, <1>7, <2>2 DEF Life!TestCloseCh, Life!AfterClose, Life!Go, LifeInv, Life!TypeOK,
       Life!ServeSteps, Life!CloseSteps
  <2> QED
    BY <1>0, <2>1, <2>2
<1>8. ASSUME NEW g \in Life!Goroutines, Life!CloseCloseCh(g) PROVE LifeInv'
  <2>1. CASE g = "serve"
    BY <1>0, <1>8, <2>1 DEF Life!CloseCloseCh, Life!AfterClose, Life!Go, LifeInv, Life!TypeOK,
       Life!ServeSteps, Life!CloseSteps
  <2>2. CASE g \in Closers
    BY <1>0, <1>8, <2>2 DEF Life!CloseCloseCh, Life!AfterClose, Life!Go, LifeInv, Life!TypeOK,
       Life!ServeSteps, Life!CloseSteps
  <2> QED
    BY <1>0, <2>1, <2>2
<1>9. ASSUME NEW g \in Life!Goroutines, Life!Shutdown(g) PROVE LifeInv'
  BY <1>0, <1>9 DEF Life!Shutdown, Life!Go, LifeInv, Life!TypeOK, Life!ServeSteps, Life!CloseSteps
<1>10. CASE Life!StopCleaner
  BY <1>0, <1>10 DEF Life!StopCleaner, LifeInv, Life!TypeOK, Life!ServeSteps, Life!CloseSteps
<1>11. CASE UNCHANGED Life!vars
  BY <1>11 DEF Life!vars, LifeInv, Life!TypeOK, Life!Goroutines
<1> QED
  BY <1>1, <1>2, <1>3, <1>4, <1>5, <1>6, <1>7, <1>8, <1>9, <1>10, <1>11
     DEF Life!Next, Life!Serve, Life!Closing

(***************************************************************************)
(* When closeCh is not closed twice (ListenAndServe and Close, server.go):  *)
(* nobody calls Close, or one goroutine does and listening does not fail by *)
(* itself.  With a second call, or a failing listener and a call, it may be *)
(* (MCLifecyclePanic).                                                      *)
(***************************************************************************)
THEOREM OneCloserNoPanic ==
  ASSUME OneCloser
  PROVE  ServerSpec => []Life!NoPanic
<1>1. Life!Init => LifeInv
  BY ClosersAssumption, "serve" \in {"serve"}
     DEF Life!Init, LifeInv, Life!TypeOK, Life!Goroutines, Life!ServeSteps, Life!CloseSteps
<1>2. LifeInv => Life!NoPanic
  BY DEF LifeInv, Life!NoPanic
<1>3. LifeInv /\ [Life!Next]_(Life!vars) => LifeInv'
  BY LifeInductive
<1> QED
  BY <1>1, <1>2, <1>3, ServerImplementsLife, PTL DEF Life!Spec

=============================================================================
