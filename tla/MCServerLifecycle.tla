-------------------------- MODULE MCServerLifecycle --------------------------
(* ServerLifecycle with two goroutines that call Close.                       *)
EXTENDS ServerLifecycle

CONSTANTS a, b

Two == {a, b}
==============================================================================
