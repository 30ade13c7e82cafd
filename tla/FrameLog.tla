------------------------------- MODULE FrameLog -------------------------------
(***************************************************************************)
(* What the realtime audio bus promises its readers, whatever buffer it    *)
(* keeps: one append-only log of frames, of which a suffix is still held.  *)
(* A reader is given a contiguous run of the held frames, starting at its  *)
(* position or, when that was let go, at the oldest held frame; it never   *)
(* sees a frame twice or out of order, and misses only frames let go.      *)
(***************************************************************************)
EXTENDS Integers, Sequences

CONSTANTS Readers

VARIABLES
  log,    \* every frame published
  base,   \* how many of them, the oldest, are no longer held
  pos,    \* per reader, the index its next run starts at; -1 before it subscribes
  heard   \* per reader, the indices (from 0) given to it since it subscribed

logVars == <<log, base, pos, heard>>

Start(r) == IF pos[r] > base THEN pos[r] ELSE base

Init ==
  /\ log = <<>>
  /\ base = 0
  /\ pos = [r \in Readers |-> -1]
  /\ heard = [r \in Readers |-> <<>>]

\* The frame just published is always held.
Publish ==
  /\ Len(log') = Len(log) + 1
  /\ \A i \in 1..Len(log) : log'[i] = log[i]
  /\ base' \in base..Len(log)
  /\ UNCHANGED <<pos, heard>>

LetGo ==
  /\ base' = Len(log)
  /\ UNCHANGED <<log, pos, heard>>

\* A new reader starts at the oldest held frame or after the newest.
Subscribe(r) ==
  /\ \E p \in 0..Len(log) :
       /\ p <= base \/ p = Len(log)
       /\ pos' = [pos EXCEPT ![r] = p]
  /\ heard' = [heard EXCEPT ![r] = <<>>]
  /\ UNCHANGED <<log, base>>

Read(r) ==
  /\ pos[r] >= 0
  /\ \E to \in (Start(r) + 1)..Len(log) :
       /\ pos' = [pos EXCEPT ![r] = to]
       /\ heard' = [heard EXCEPT ![r] =
                      @ \o [i \in 1..(to - Start(r)) |-> Start(r) + i - 1]]
  /\ UNCHANGED <<log, base>>

Next == Publish \/ LetGo \/ \E r \in Readers : Subscribe(r) \/ Read(r)

Spec == Init /\ [][Next]_logVars
===============================================================================
