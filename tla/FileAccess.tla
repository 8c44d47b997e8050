----------------------------- MODULE FileAccess -----------------------------
(***************************************************************************)
(* What the server's locks promise: the requests that change a collection,  *)
(* replace its file or send it away use the file one at a time.             *)
(***************************************************************************)
CONSTANTS Requests, Paths, Nobody

VARIABLE user   \* for every file, the request that uses it, or Nobody

Init == user = [p \in Paths |-> Nobody]

Acquire(r, p) == user[p] = Nobody /\ user' = [user EXCEPT ![p] = r]
Release(r, p) == user[p] = r /\ user' = [user EXCEPT ![p] = Nobody]

Next == \E r \in Requests, p \in Paths : Acquire(r, p) \/ Release(r, p)

Spec == Init /\ [][Next]_user
=============================================================================
