---------------------------- MODULE MCVoiceCapture ----------------------------
(* The bus holds five samples, two and a half chunks of two; one reader, the   *)
(* bridge, reads two frames at a time; the queue holds one chunk.              *)
EXTENDS VoiceCapture

MCReaders == {"bridge"}
MCSampleCounts == {1, 2}
===============================================================================
