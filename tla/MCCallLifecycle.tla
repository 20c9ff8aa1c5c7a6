-------------------------- MODULE MCCallLifecycle ---------------------------
(* One call, and listeners that come and go at every await: two that hear  *)
(* both events, one that only hears the after-event.  Calls share nothing  *)
(* but the listener array, which changes here in every way another call's  *)
(* handlers could change it.                                               *)
EXTENDS CallLifecycle

CONSTANTS c1, both, other, afterOnly

MCCalls     == {c1}
MCListeners == {both, other, afterOnly}
MCHasBefore == {both, other}
MCHasAfter  == {both, other, afterOnly}
=============================================================================
