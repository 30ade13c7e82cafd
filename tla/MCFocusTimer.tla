----------------------------- MODULE MCFocusTimer -----------------------------
(* Two timers: an old one whose callbacks are late, and a new one.  Every mode  *)
(* and every kind of turn takes part.                                           *)
EXTENDS FocusTimer
=============================================================================
