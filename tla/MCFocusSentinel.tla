--------------------------- MODULE MCFocusSentinel ---------------------------
(* Either two tracking workers, one of them of an earlier session, and a scan, *)
(* or one worker and two sweeps that overlap; one micro-scan; the times are    *)
(* one Tick, or none.                                                          *)
EXTENDS FocusSentinel
===============================================================================
