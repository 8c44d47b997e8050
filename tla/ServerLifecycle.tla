--------------------------- MODULE ServerLifecycle ---------------------------
(***************************************************************************)
(* Starting and stopping the HTTP server (ListenAndServe and Close in       *)
(* server/server.go): one goroutine serves, others call Close, and the      *)
(* goroutine that cleans the rate limiter runs until closeCh is closed.     *)
(*                                                                          *)
(* Both functions close closeCh "if it is not closed yet", a test and a     *)
(* close that no lock holds together; closing it twice panics.  Close shuts *)
(* down the http.Server it finds, which ListenAndServe stores on its way.   *)
(* http.Server is the standard library's (external): Shutdown makes its     *)
(* ListenAndServe return at once, or as soon as it is called.               *)
(***************************************************************************)
EXTENDS Integers

CONSTANTS
  Closers,      \* the goroutines that call Close
  ListenFails,  \* TRUE: listening may fail (the port is in use, the listener breaks)
  Limiter       \* TRUE: there is a rate limiter to clean

VARIABLES
  pc,           \* where each goroutine is; "serve" runs ListenAndServe
  closed,       \* closeCh is closed
  httpServer,   \* s.httpServer: "nil", "set", or "shutdown" after Shutdown
  cleaner,      \* the goroutine of the ticker: "none", "running", "done"
  panicked

vars == <<pc, closed, httpServer, cleaner, panicked>>

Goroutines == Closers \cup {"serve"}

ServeSteps == {"start", "store", "listen", "serving", "test", "close", "returned"}
CloseSteps == {"start", "test", "close", "shutdown", "returned"}

TypeOK ==
  /\ pc \in [Goroutines -> ServeSteps \cup CloseSteps]
  /\ pc["serve"] \in ServeSteps /\ \A g \in Closers : pc[g] \in CloseSteps
  /\ closed \in BOOLEAN /\ panicked \in BOOLEAN
  /\ httpServer \in {"nil", "set", "shutdown"}
  /\ cleaner \in {"none", "running", "done"}

\* Goroutine g goes on; after a panic there is no process any more.
Go(g, step) == ~panicked /\ pc' = [pc EXCEPT ![g] = step]

-----------------------------------------------------------------------------
(* ListenAndServe                                                           *)

StartCleaner ==
  /\ pc["serve"] = "start"
  /\ cleaner' = IF Limiter THEN "running" ELSE cleaner
  /\ Go("serve", "store")
  /\ UNCHANGED <<closed, httpServer, panicked>>

StoreServer ==
  /\ pc["serve"] = "store"
  /\ httpServer' = "set"
  /\ Go("serve", "listen")
  /\ UNCHANGED <<closed, cleaner, panicked>>

\* Mutant: a failure to listen returns at once.
AfterListenFail == "returned"

\* After the call of http.Server.ListenAndServe, however it ends.
AfterListen == "test"

\* The call of http.Server.ListenAndServe, which a shutdown makes return at once.
Listen ==
  /\ pc["serve"] = "listen"
  /\ Go("serve", IF httpServer = "shutdown" THEN AfterListen ELSE "serving")
  /\ UNCHANGED <<closed, httpServer, cleaner, panicked>>

ListenEnds ==
  /\ pc["serve"] = "serving"
  /\ httpServer = "shutdown"
  /\ Go("serve", AfterListen)
  /\ UNCHANGED <<closed, httpServer, cleaner, panicked>>

ListenFail ==
  /\ ListenFails
  /\ pc["serve"] \in {"listen", "serving"}
  /\ Go("serve", AfterListen)
  /\ UNCHANGED <<closed, httpServer, cleaner, panicked>>

-----------------------------------------------------------------------------
(* Close                                                                    *)

\* Mutant: Close leaves the server alone.
AfterCloseNothing(g) == "returned"

AfterClose(g) == IF g = "serve" THEN "returned" ELSE "shutdown"

CallClose(g) ==
  /\ g \in Closers
  /\ pc[g] = "start"
  /\ Go(g, "test")
  /\ UNCHANGED <<closed, httpServer, cleaner, panicked>>

\* The select of both functions: closeCh is closed already, or not yet.
TestCloseCh(g) ==
  /\ pc[g] = "test"
  /\ Go(g, IF closed THEN AfterClose(g) ELSE "close")
  /\ UNCHANGED <<closed, httpServer, cleaner, panicked>>

CloseCloseCh(g) ==
  /\ pc[g] = "close"
  /\ closed' = TRUE
  /\ panicked' = (panicked \/ closed)
  /\ Go(g, AfterClose(g))
  /\ UNCHANGED <<httpServer, cleaner>>

\* Close shuts down the server it finds, if any.
Shutdown(g) ==
  /\ g \in Closers
  /\ pc[g] = "shutdown"
  /\ httpServer' = IF httpServer = "nil" THEN "nil" ELSE "shutdown"
  /\ Go(g, "returned")
  /\ UNCHANGED <<closed, cleaner, panicked>>

-----------------------------------------------------------------------------
(* The goroutine of the ticker                                              *)

StopCleaner ==
  /\ cleaner = "running" /\ closed /\ ~panicked
  /\ cleaner' = "done"
  /\ UNCHANGED <<pc, closed, httpServer, panicked>>

-----------------------------------------------------------------------------
Init ==
  /\ pc = [g \in Goroutines |-> "start"]
  /\ closed = FALSE /\ panicked = FALSE
  /\ httpServer = "nil" /\ cleaner = "none"

Serve == StartCleaner \/ StoreServer \/ Listen \/ ListenEnds
Closing(g) == TestCloseCh(g) \/ CloseCloseCh(g) \/ Shutdown(g)

Next ==
  \/ Serve \/ ListenFail
  \/ \E g \in Goroutines : CallClose(g) \/ Closing(g)
  \/ StopCleaner

Spec == Init /\ [][Next]_vars

-----------------------------------------------------------------------------
(* Properties                                                               *)

(***************************************************************************)
(* "Close shuts down the server gracefully" (server.go:609): stopping does  *)
(* not end in a panic.                                                      *)
(***************************************************************************)
NoPanic == ~panicked

(***************************************************************************)
(* "Close shuts down the server gracefully" (server.go:609): after a call   *)
(* that finds a server stored ListenAndServe returns, whatever other calls  *)
(* and a failing listener do.  An earlier call leaves the server alone.     *)
(***************************************************************************)
CloseStops ==
  (\E g \in Closers : pc[g] = "test" /\ httpServer # "nil")
    ~> pc["serve"] = "returned" \/ panicked

(***************************************************************************)
(* "The goroutine stops when closeCh is signaled, which happens on both     *)
(* graceful shutdown (Close) and startup failure (port in use)"             *)
(* (server.go:570): it does not outlive ListenAndServe.                     *)
(***************************************************************************)
CleanerStops == pc["serve"] = "returned" ~> cleaner # "running" \/ panicked
==============================================================================
