--------------------------- MODULE MCSynthesisQueue ---------------------------
(* A cfg gives the sets their members: one text, which the prefetch thread and *)
(* speak() both ask for, and two job objects, so that a finished job is        *)
(* replaced while an older entry of it is still queued or in the worker's      *)
(* hands.  Texts share only the queue and the two threads; the proofs hold     *)
(* for any number of each.                                                     *)
EXTENDS SynthesisQueue, TLC
=============================================================================
