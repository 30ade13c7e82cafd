----------------------------- MODULE MCLiveStream -----------------------------
(* One turn, since turns meet only in what PresenceHeartbeat is checked for;    *)
(* four chunks and a queue of two, so that the loop can break off or give up   *)
(* with chunks in the queue and the prefetch thread waiting for room.          *)
EXTENDS LiveStream
===============================================================================
