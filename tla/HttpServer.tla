----------------------------- MODULE HttpServer -----------------------------
(***************************************************************************)
(* The rate limiter within the life of the server (server/server.go):       *)
(* requests reach it once the server listens, and cleanup runs in the       *)
(* goroutine that ListenAndServe starts, which looks at closeCh only        *)
(* between two cleanups.  Nothing runs after a panic.                       *)
(***************************************************************************)
EXTENDS RateLimiter

CONSTANTS Closers, ListenFails

ASSUME ListenAssumption == ListenFails \in BOOLEAN
ASSUME ClosersAssumption == "serve" \notin Closers

VARIABLES pc, closed, httpServer, cleaner, panicked

limiterVars == vars
lifeVars == <<pc, closed, httpServer, cleaner, panicked>>
serverVars == <<limiterVars, lifeVars>>

Life == INSTANCE ServerLifecycle WITH Limiter <- TRUE

ServerInit == Init /\ Life!Init

\* A request, also one on a connection that is left when the server shuts down.
Request(ip) ==
  /\ ~panicked /\ pc["serve"] \in {"serving", "test", "close", "returned"}
  /\ RejectLimit(ip) \/ RejectCap(ip) \/ Admit(ip)
  /\ UNCHANGED lifeVars

CleanUp ==
  /\ ~panicked /\ cleaner = "running"
  /\ Cleanup
  /\ UNCHANGED lifeVars

BetweenCleanups == sweep = "idle"

LifeStep ==
  /\ Life!Next
  /\ cleaner = "running" /\ cleaner' = "done" => BetweenCleanups
  /\ UNCHANGED limiterVars

ServerNext ==
  \/ Tick /\ UNCHANGED lifeVars
  \/ \E ip \in IPs : Request(ip)
  \/ CleanUp
  \/ LifeStep

StopsBetween == BetweenCleanups /\ Life!StopCleaner /\ UNCHANGED limiterVars

\* The ticker fires again and again, and goroutines run; nobody has to call
\* Close and nothing has to break.  A select takes either of two ready cases,
\* so closeCh, once closed, is seen sooner or later.
ServerSpec ==
  /\ ServerInit /\ [][ServerNext]_serverVars
  /\ WF_serverVars(CleanUp) /\ SF_serverVars(StopsBetween)
  /\ WF_serverVars(Life!Serve /\ UNCHANGED limiterVars)
  /\ \A g \in Closers \cup {"serve"} : WF_serverVars(Life!Closing(g) /\ UNCHANGED limiterVars)

-----------------------------------------------------------------------------
(* Properties, besides those of RateLimiter                                 *)

(***************************************************************************)
(* Addresses that have gone quiet are forgotten, so that the map does not   *)
(* fill up, as long as the server has not been told to close.               *)
(***************************************************************************)
Forgets == \A ip \in IPs : Expired(ip) ~> ~Expired(ip) \/ closed

(***************************************************************************)
(* "Close shuts down the server gracefully" (server.go:609): after a call   *)
(* that finds a server stored ListenAndServe returns, whatever other calls  *)
(* and a failing listener do.  An earlier call leaves the server alone.     *)
(***************************************************************************)
CloseStops == Life!CloseStops

(***************************************************************************)
(* "The goroutine stops when closeCh is signaled, which happens on both     *)
(* graceful shutdown (Close) and startup failure (port in use)"             *)
(* (server.go:570): it does not outlive ListenAndServe, also when a cleanup *)
(* is on its way.                                                           *)
(***************************************************************************)
CleanerStops == Life!CleanerStops
=============================================================================
