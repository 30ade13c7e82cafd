------------------------ MODULE PresenceHeartbeatProofs ------------------------
(* Proofs about PresenceHeartbeat, for any number of turns and phrases.  What  *)
(* carries them: the lock is held exactly by the thread between acquire and    *)
(* release, so only a thread that is not playing can clear the stop event of   *)
(* one that is; and a thread passes its tests of _answer_ready once a phrase.  *)
(*                                                                            *)
(* The second half is about LiveStream, whose streaming thread takes only     *)
(* steps of PresenceHeartbeat and steps that leave its variables alone: what  *)
(* is proved of the heartbeat holds of the stream.  What is in the queue of   *)
(* the current turn continues the chunks the loop has in hand, and these      *)
(* continue the spoken ones, up to the last the generator has yielded.        *)
EXTENDS LiveStream, TLAPS

-----------------------------------------------------------------------------
\* The lock is held exactly by the thread inside speak_presence's region.
LockHeld == \A t \in Turns : lock = t <=> beat[t].pc \in PlayerPCs

\* Inside an iteration of the loop there are phrases left.
PhraseLeft ==
  \A t \in Turns :
    beat[t].pc \notin {"unborn", "wait", "done"} => beat[t].count < MaxHeartbeats

\* The late phrase is the one whose tests were passed before the answer was ready.
PastTheTests == {"announce", "enter", "clear", "begin"}
LateOnce ==
  \A t \in Turns :
    /\ late[t] <= 1
    /\ late[t] = 1 => t \in answerReady /\ beat[t].pc \notin PastTheTests

\* A stopped phrase is over, or still sees the event set.
AskedHeld ==
  \A t \in asked : beat[t].pc = "release" \/ (beat[t].pc = "playing" /\ presenceStop)

\* The streaming thread is about a turn it has started; later ones are unborn.
CurrentTurn ==
  /\ main.pc # "idle" => turn \in Turns
  /\ \A t \in Turns : t > turn => beat[t].pc = "unborn"

IInv == TypeOK /\ LockHeld /\ PhraseLeft /\ LateOnce /\ AskedHeld /\ CurrentTurn

-----------------------------------------------------------------------------
\* A step of one thread to another program point changes nothing else of beat.
LEMMA GoToLemma ==
  ASSUME TypeOK, NEW t \in Turns, NEW pc \in BeatPCs, GoTo(t, pc)
  PROVE  /\ beat' \in [Turns -> [pc: BeatPCs, count: 0 .. MaxHeartbeats]]
         /\ beat'[t].pc = pc
         /\ \A u \in Turns : beat'[u].count = beat[u].count
         /\ \A u \in Turns \ {t} : beat'[u] = beat[u]
<1> USE DEF TypeOK, GoTo
<1>1. beat[t] \in [pc: BeatPCs, count: 0 .. MaxHeartbeats]
  OBVIOUS
<1>2. beat' = [beat EXCEPT ![t] = [beat[t] EXCEPT !.pc = pc]]
  OBVIOUS
<1>3. [beat[t] EXCEPT !.pc = pc] \in [pc: BeatPCs, count: 0 .. MaxHeartbeats]
  BY <1>1
<1> QED
  BY <1>1, <1>2, <1>3

\* A step to the next wait, which counts a phrase.
LEMMA CountLemma ==
  ASSUME TypeOK, NEW t \in Turns, beat[t].count < MaxHeartbeats,
         beat' = [beat EXCEPT ![t] = [pc |-> "wait", count |-> @.count + 1]]
  PROVE  /\ beat' \in [Turns -> [pc: BeatPCs, count: 0 .. MaxHeartbeats]]
         /\ beat'[t].pc = "wait"
         /\ \A u \in Turns \ {t} : beat'[u] = beat[u]
<1> USE HeartbeatsAssumption DEF TypeOK
<1>1. beat[t].count + 1 \in 0 .. MaxHeartbeats
  OBVIOUS
<1>2. "wait" \in BeatPCs
  BY DEF BeatPCs
<1> QED
  BY <1>1, <1>2

\* The initial state satisfies the invariant.
LEMMA InitIInv == Init => IInv
<1> SUFFICES ASSUME Init PROVE IInv
  OBVIOUS
<1> USE TurnsAssumption, HeartbeatsAssumption
<1>1. [pc |-> "unborn", count |-> 0] \in [pc: BeatPCs, count: 0 .. MaxHeartbeats]
  BY DEF BeatPCs
<1>2. TypeOK
  <2>1. turn \in 0 .. MaxTurns /\ lock \in Turns \union {NoTurn}
    BY DEF Init
  <2>2. main \in [pc: {"idle", "stream", "set", "look", "stop", "abort", "join"},
                 audio: BOOLEAN, last: BOOLEAN]
    BY DEF Init
  <2>3. beat \in [Turns -> [pc: BeatPCs, count: 0 .. MaxHeartbeats]]
    BY <1>1 DEF Init
  <2>4. late \in [Turns -> Nat]
    BY DEF Init
  <2>5. /\ answerReady \subseteq Turns /\ speaking \subseteq Turns
        /\ outputs \subseteq Turns /\ asked \subseteq Turns
        /\ presenceStop \in BOOLEAN /\ stop \in BOOLEAN
    BY DEF Init
  <2> QED
    BY <2>1, <2>2, <2>3, <2>4, <2>5 DEF TypeOK
<1>3. LockHeld
  BY DEF Init, LockHeld, PlayerPCs, NoTurn, Turns
<1>4. LateOnce /\ AskedHeld
  BY DEF Init, LateOnce, AskedHeld
<1>5. PhraseLeft /\ CurrentTurn
  BY DEF Init, PhraseLeft, CurrentTurn
<1> QED
  BY <1>2, <1>3, <1>4, <1>5 DEF IInv

-----------------------------------------------------------------------------
\* Steps of the streaming thread preserve the invariant.
LEMMA MainSteps ==
  ASSUME IInv,
         \/ StartTurn \/ SpeakBegins \/ AudioStarts \/ StreamFinishes \/ CancelStep
         \/ StopPlayback
         \/ UNCHANGED vars
  PROVE  IInv'
<1> USE TurnsAssumption, HeartbeatsAssumption DEF IInv, playerVars
<1>1. CASE StartTurn
  <2>1. turn + 1 \in Turns /\ "wait" \in BeatPCs
    BY <1>1 DEF StartTurn, TypeOK, Turns, BeatPCs
  <2>2. GoTo(turn + 1, "wait") /\ beat[turn + 1].pc = "unborn"
    BY <1>1, <2>1 DEF StartTurn, CurrentTurn, TypeOK
  <2>3. /\ beat' \in [Turns -> [pc: BeatPCs, count: 0 .. MaxHeartbeats]]
        /\ beat'[turn + 1].pc = "wait"
        /\ \A u \in Turns \ {turn + 1} : beat'[u] = beat[u]
    BY <2>1, <2>2, GoToLemma
  <2>4. turn + 1 \notin asked /\ lock # turn + 1
    BY <2>1, <2>2 DEF AskedHeld, LockHeld, PlayerPCs
  <2>5. TypeOK'
    BY <1>1, <2>1, <2>3 DEF StartTurn, TypeOK
  <2>6. LockHeld' /\ PhraseLeft'
    BY <1>1, <2>1, <2>3, <2>4 DEF StartTurn, LockHeld, PhraseLeft, PlayerPCs
  <2>7. LateOnce' /\ AskedHeld'
    BY <1>1, <2>1, <2>3, <2>4 DEF StartTurn, LateOnce, AskedHeld, PastTheTests, TypeOK
  <2>8. CurrentTurn'
    BY <1>1, <2>1, <2>3 DEF StartTurn, CurrentTurn, TypeOK, Turns
  <2> QED
    BY <2>5, <2>6, <2>7, <2>8
<1>2. CASE SpeakBegins
  BY <1>2 DEF SpeakBegins, TypeOK, LockHeld, PhraseLeft, LateOnce, AskedHeld, CurrentTurn
<1>3. CASE AudioStarts \/ StreamFinishes
  BY <1>3 DEF AudioStarts, StreamFinishes, TypeOK, LockHeld, PhraseLeft, LateOnce, AskedHeld, CurrentTurn
<1>4. CASE CancelSet
  BY <1>4 DEF CancelSet, TypeOK, LockHeld, PhraseLeft, LateOnce, AskedHeld, CurrentTurn
<1>5. CASE CancelLook \/ CancelJoin
  BY <1>5 DEF CancelLook, CancelJoin, CancelReturns, TypeOK, LockHeld, PhraseLeft, LateOnce,
              AskedHeld, CurrentTurn
<1>6. CASE CancelStop
  BY <1>6 DEF CancelStop, TypeOK, LockHeld, PhraseLeft, LateOnce, AskedHeld, CurrentTurn
<1>7. CASE CancelAbort
  <2>1. /\ UNCHANGED <<turn, answerReady, speaking, stop, lock, presenceStop, outputs,
                       late, asked>>
        /\ main' = [main EXCEPT !.pc = "join"] /\ main.pc = "abort"
    BY <1>7 DEF CancelAbort
  <2>2. CASE UNCHANGED beat
    BY <2>1, <2>2 DEF TypeOK, LockHeld, PhraseLeft, LateOnce, AskedHeld, CurrentTurn
  <2>3. ASSUME NEW t \in Turns, beat[t].pc = "playing", GoTo(t, "release") PROVE IInv'
    <3>1. /\ beat' \in [Turns -> [pc: BeatPCs, count: 0 .. MaxHeartbeats]]
          /\ beat'[t].pc = "release" /\ beat'[t].count = beat[t].count
          /\ \A u \in Turns \ {t} : beat'[u] = beat[u]
      BY <2>3, GoToLemma DEF BeatPCs, PlayerPCs
    <3>2. TypeOK' /\ LockHeld' /\ PhraseLeft'
      BY <2>1, <2>3, <3>1 DEF TypeOK, LockHeld, PhraseLeft, PlayerPCs
    <3>3. LateOnce' /\ AskedHeld' /\ CurrentTurn'
      BY <2>1, <2>3, <3>1 DEF TypeOK, LateOnce, AskedHeld, CurrentTurn, PastTheTests
    <3> QED
      BY <3>2, <3>3
  <2> QED
    BY <1>7, <2>2, <2>3 DEF CancelAbort
<1>8. CASE StopPlayback
  BY <1>8 DEF StopPlayback, TypeOK, LockHeld, PhraseLeft, LateOnce, AskedHeld, CurrentTurn
<1>9. CASE UNCHANGED vars
  BY <1>9 DEF vars, TypeOK, LockHeld, PhraseLeft, LateOnce, AskedHeld, CurrentTurn
<1> QED
  BY <1>1, <1>2, <1>3, <1>4, <1>5, <1>6, <1>7, <1>8, <1>9 DEF CancelStep

-----------------------------------------------------------------------------
\* Steps of a heartbeat thread preserve the invariant.
LEMMA BeatSteps ==
  ASSUME IInv, NEW t \in Turns, BeatStep(t)
  PROVE  IInv'
<1> USE TurnsAssumption, HeartbeatsAssumption DEF IInv, playerVars
<1>0. t \in Nat \ {0} /\ t # NoTurn /\ (beat[t].pc # "unborn" => ~(t > turn))
  BY DEF Turns, NoTurn, CurrentTurn
<1> DEFINE Moved(pc) ==
             /\ beat' \in [Turns -> [pc: BeatPCs, count: 0 .. MaxHeartbeats]]
             /\ beat'[t].pc = pc
             /\ beat'[t].count = beat[t].count
             /\ \A u \in Turns \ {t} : beat'[u] = beat[u]
<1>1. ASSUME NEW pc \in BeatPCs, GoTo(t, pc) PROVE Moved(pc)
  BY <1>1, GoToLemma
<1>2. CASE BeatWait(t)
  <2>1. /\ UNCHANGED <<turn, main, answerReady, speaking, stop, lock, presenceStop,
                       outputs, late, asked>>
        /\ beat[t].pc = "wait"
    BY <1>2 DEF BeatWait
  <2>2. \/ Moved("done")
        \/ Moved("check") /\ beat[t].count < MaxHeartbeats
    <3>1. beat[t].count \in 0 .. MaxHeartbeats
      BY DEF TypeOK
    <3>2. CASE t \in answerReady \/ beat[t].count = MaxHeartbeats
      BY <1>1, <1>2, <3>2 DEF BeatWait, BeatPCs
    <3>3. CASE ~(t \in answerReady \/ beat[t].count = MaxHeartbeats)
      <4>1. Moved("check")
        BY <1>1, <1>2, <3>3 DEF BeatWait, BeatPCs
      <4> QED
        BY <3>1, <3>3, <4>1
    <3> QED
      BY <3>2, <3>3
  <2>3. TypeOK' /\ LockHeld' /\ PhraseLeft'
    BY <2>1, <2>2 DEF TypeOK, LockHeld, PhraseLeft, PlayerPCs
  <2>4. LateOnce' /\ AskedHeld' /\ CurrentTurn'
    BY <1>0, <2>1, <2>2 DEF TypeOK, LateOnce, AskedHeld, CurrentTurn, PastTheTests
  <2> QED
    BY <2>3, <2>4
<1>3. CASE BeatCheck(t)
  <2>1. /\ UNCHANGED <<turn, main, answerReady, speaking, stop, lock, presenceStop,
                       outputs, late, asked>>
        /\ beat[t].pc = "check" /\ beat[t].count < MaxHeartbeats
    BY <1>3 DEF BeatCheck, PhraseLeft
  <2>2. CASE t \notin answerReady /\ GoTo(t, "announce")
    <3>1. Moved("announce")
      BY <1>1, <2>2 DEF BeatPCs
    <3>2. TypeOK' /\ LockHeld' /\ PhraseLeft'
      BY <2>1, <3>1 DEF TypeOK, LockHeld, PhraseLeft, PlayerPCs
    <3>3. LateOnce' /\ AskedHeld' /\ CurrentTurn'
      BY <1>0, <2>1, <2>2, <3>1 DEF TypeOK, LateOnce, AskedHeld, CurrentTurn, PastTheTests
    <3> QED
      BY <3>2, <3>3
  <2>3. CASE t \in answerReady /\ GoTo(t, "done")
    <3>1. Moved("done")
      BY <1>1, <2>3 DEF BeatPCs
    <3>2. TypeOK' /\ LockHeld' /\ PhraseLeft'
      BY <2>1, <3>1 DEF TypeOK, LockHeld, PhraseLeft, PlayerPCs
    <3>3. LateOnce' /\ AskedHeld' /\ CurrentTurn'
      BY <1>0, <2>1, <3>1 DEF TypeOK, LateOnce, AskedHeld, CurrentTurn, PastTheTests
    <3> QED
      BY <3>2, <3>3
  <2>4. CASE beat' = [beat EXCEPT ![t] = [pc |-> "wait", count |-> @.count + 1]]
    <3>1. /\ beat' \in [Turns -> [pc: BeatPCs, count: 0 .. MaxHeartbeats]]
          /\ beat'[t].pc = "wait"
          /\ \A u \in Turns \ {t} : beat'[u] = beat[u]
      BY <2>1, <2>4, CountLemma
    <3>2. TypeOK' /\ LockHeld' /\ PhraseLeft'
      BY <2>1, <3>1 DEF TypeOK, LockHeld, PhraseLeft, PlayerPCs
    <3>3. LateOnce' /\ AskedHeld' /\ CurrentTurn'
      BY <1>0, <2>1, <3>1 DEF TypeOK, LateOnce, AskedHeld, CurrentTurn, PastTheTests
    <3> QED
      BY <3>2, <3>3
  <2> QED
    BY <1>3, <2>2, <2>3, <2>4 DEF BeatCheck
<1>4. CASE BeatAnnounce(t)
  <2>1. /\ UNCHANGED <<turn, main, answerReady, stop, lock, presenceStop, outputs, late, asked>>
        /\ speaking' = speaking \union {t}
        /\ beat[t].pc = "announce"
    BY <1>4 DEF BeatAnnounce
  <2>2. Moved("enter")
    BY <1>1, <1>4 DEF BeatAnnounce, BeatPCs
  <2>3. TypeOK' /\ LockHeld' /\ PhraseLeft'
    BY <2>1, <2>2 DEF TypeOK, LockHeld, PhraseLeft, PlayerPCs
  <2>4. LateOnce' /\ AskedHeld' /\ CurrentTurn'
    BY <1>0, <2>1, <2>2 DEF TypeOK, LateOnce, AskedHeld, CurrentTurn, PastTheTests
  <2> QED
    BY <2>3, <2>4
<1>5. CASE BeatEnter(t)
  <2>1. /\ UNCHANGED <<turn, main, answerReady, speaking, stop, presenceStop, outputs, late, asked>>
        /\ beat[t].pc = "enter"
    BY <1>5 DEF BeatEnter
  <2>2. CASE GoTo(t, "leave") /\ UNCHANGED lock
    <3>1. Moved("leave")
      BY <1>1, <2>2 DEF BeatPCs
    <3>2. TypeOK' /\ LockHeld' /\ PhraseLeft'
      BY <2>1, <2>2, <3>1 DEF TypeOK, LockHeld, PhraseLeft, PlayerPCs
    <3>3. LateOnce' /\ AskedHeld' /\ CurrentTurn'
      BY <1>0, <2>1, <3>1 DEF TypeOK, LateOnce, AskedHeld, CurrentTurn, PastTheTests
    <3> QED
      BY <3>2, <3>3
  <2>3. CASE lock = NoTurn /\ lock' = t /\ GoTo(t, "clear")
    <3>1. Moved("clear")
      BY <1>1, <2>3 DEF BeatPCs, PlayerPCs
    <3>2. \A u \in Turns : lock # u
      BY <2>3 DEF Turns, NoTurn
    <3>3. TypeOK' /\ LockHeld' /\ PhraseLeft'
      BY <2>1, <2>3, <3>1, <3>2 DEF TypeOK, LockHeld, PhraseLeft, PlayerPCs
    <3>4. LateOnce' /\ AskedHeld' /\ CurrentTurn'
      BY <1>0, <2>1, <3>1 DEF TypeOK, LateOnce, AskedHeld, CurrentTurn, PastTheTests
    <3> QED
      BY <3>3, <3>4
  <2> QED
    BY <1>5, <2>2, <2>3 DEF BeatEnter
<1>6. CASE BeatClear(t)
  <2>1. /\ UNCHANGED <<turn, main, answerReady, speaking, stop, lock, outputs, late, asked>>
        /\ presenceStop' = FALSE
        /\ beat[t].pc = "clear"
    BY <1>6 DEF BeatClear
  <2>2. Moved("begin")
    BY <1>1, <1>6 DEF BeatClear, BeatPCs, PlayerPCs
  \* The lock is ours: no other thread is playing.
  <2>3. \A u \in Turns : beat[u].pc # "playing"
    BY <2>1 DEF LockHeld, PlayerPCs
  <2>4. TypeOK' /\ LockHeld' /\ PhraseLeft'
    BY <2>1, <2>2 DEF TypeOK, LockHeld, PhraseLeft, PlayerPCs
  <2>5. LateOnce' /\ AskedHeld' /\ CurrentTurn'
    BY <1>0, <2>1, <2>2, <2>3 DEF TypeOK, LateOnce, AskedHeld, CurrentTurn, PastTheTests
  <2> QED
    BY <2>4, <2>5
<1>7. CASE BeatBegin(t)
  <2>1. /\ UNCHANGED <<turn, main, answerReady, speaking, stop, lock, presenceStop, asked>>
        /\ beat[t].pc = "begin"
    BY <1>7 DEF BeatBegin
  <2>2. t \notin asked
    BY <2>1 DEF AskedHeld
  <2>3. CASE GoTo(t, "release") /\ UNCHANGED <<outputs, late>>
    <3>1. Moved("release")
      BY <1>1, <2>3 DEF BeatPCs, PlayerPCs
    <3>2. TypeOK' /\ LockHeld' /\ PhraseLeft'
      BY <2>1, <2>3, <3>1 DEF TypeOK, LockHeld, PhraseLeft, PlayerPCs
    <3>3. LateOnce' /\ AskedHeld' /\ CurrentTurn'
      BY <1>0, <2>1, <2>2, <2>3, <3>1 DEF TypeOK, LateOnce, AskedHeld, CurrentTurn, PastTheTests
    <3> QED
      BY <3>2, <3>3
  <2>4. CASE /\ GoTo(t, "playing")
             /\ outputs' = outputs \union {t}
             /\ late' = IF t \in answerReady THEN [late EXCEPT ![t] = @ + 1] ELSE late
    <3>1. Moved("playing")
      BY <1>1, <2>4 DEF BeatPCs, PlayerPCs
    \* The tests were passed before the answer was ready, and nothing was late yet.
    <3>2. late \in [Turns -> Nat] /\ late[t] = 0
      <4>1. late \in [Turns -> Nat]
        BY DEF TypeOK
      <4>2. late[t] <= 1 /\ late[t] # 1
        BY <2>1 DEF LateOnce, PastTheTests
      <4>3. late[t] \in Nat
        BY <4>1
      <4> QED
        BY <4>1, <4>2, <4>3
    <3>3. /\ late' \in [Turns -> Nat]
          /\ late'[t] <= 1
          /\ late'[t] = 1 => t \in answerReady
          /\ \A u \in Turns \ {t} : late'[u] = late[u]
      BY <2>4, <3>2
    <3>4. TypeOK' /\ LockHeld' /\ PhraseLeft'
      BY <2>1, <2>4, <3>1, <3>3 DEF TypeOK, LockHeld, PhraseLeft, PlayerPCs
    <3>5. LateOnce'
      BY <2>1, <3>1, <3>3 DEF LateOnce, PastTheTests
    <3>6. AskedHeld' /\ CurrentTurn'
      BY <1>0, <2>1, <2>2, <3>1 DEF TypeOK, AskedHeld, CurrentTurn
    <3> QED
      BY <3>4, <3>5, <3>6
  <2> QED
    BY <1>7, <2>3, <2>4 DEF BeatBegin
<1>8. CASE BeatPlayed(t)
  <2>1. /\ UNCHANGED <<turn, main, answerReady, speaking, stop, lock, presenceStop,
                       outputs, late, asked>>
        /\ beat[t].pc = "playing"
    BY <1>8 DEF BeatPlayed
  <2>2. Moved("release")
    BY <1>1, <1>8 DEF BeatPlayed, BeatPCs, PlayerPCs
  <2>3. TypeOK' /\ LockHeld' /\ PhraseLeft'
    BY <2>1, <2>2 DEF TypeOK, LockHeld, PhraseLeft, PlayerPCs
  <2>4. LateOnce' /\ AskedHeld' /\ CurrentTurn'
    BY <1>0, <2>1, <2>2 DEF TypeOK, LateOnce, AskedHeld, CurrentTurn, PastTheTests
  <2> QED
    BY <2>3, <2>4
<1>9. CASE BeatRelease(t)
  <2>1. /\ UNCHANGED <<turn, main, answerReady, speaking, stop, presenceStop, late>>
        /\ outputs' = outputs \ {t} /\ lock' = NoTurn /\ asked' = asked \ {t}
        /\ beat[t].pc = "release"
    BY <1>9 DEF BeatRelease
  <2>2. Moved("leave")
    BY <1>1, <1>9 DEF BeatRelease, BeatPCs
  <2>3. lock = t /\ \A u \in Turns : NoTurn # u
    BY <2>1 DEF LockHeld, PlayerPCs, Turns, NoTurn
  <2>4. TypeOK' /\ LockHeld' /\ PhraseLeft'
    BY <2>1, <2>2, <2>3 DEF TypeOK, LockHeld, PhraseLeft, PlayerPCs
  <2>5. LateOnce' /\ AskedHeld' /\ CurrentTurn'
    BY <1>0, <2>1, <2>2 DEF TypeOK, LateOnce, AskedHeld, CurrentTurn, PastTheTests
  <2> QED
    BY <2>4, <2>5
<1>10. CASE BeatLeave(t)
  <2>1. /\ UNCHANGED <<turn, main, answerReady, stop, lock, presenceStop, outputs, late, asked>>
        /\ speaking' = speaking \ {t}
        /\ beat[t].pc = "leave" /\ beat[t].count < MaxHeartbeats
        /\ beat' = [beat EXCEPT ![t] = [pc |-> "wait", count |-> @.count + 1]]
    BY <1>10 DEF BeatLeave, PhraseLeft
  <2>2. /\ beat' \in [Turns -> [pc: BeatPCs, count: 0 .. MaxHeartbeats]]
        /\ beat'[t].pc = "wait"
        /\ \A u \in Turns \ {t} : beat'[u] = beat[u]
    BY <2>1, CountLemma
  <2>3. TypeOK' /\ LockHeld' /\ PhraseLeft'
    BY <2>1, <2>2 DEF TypeOK, LockHeld, PhraseLeft, PlayerPCs
  <2>4. LateOnce' /\ AskedHeld' /\ CurrentTurn'
    BY <1>0, <2>1, <2>2 DEF TypeOK, LateOnce, AskedHeld, CurrentTurn, PastTheTests
  <2> QED
    BY <2>3, <2>4
<1> QED
  BY <1>2, <1>3, <1>4, <1>5, <1>6, <1>7, <1>8, <1>9, <1>10 DEF BeatStep

-----------------------------------------------------------------------------
\* The invariant is inductive, so it holds in every reachable state.
THEOREM Invariant == Spec => []IInv
<1>1. IInv /\ [Next]_vars => IInv'
  BY MainSteps, BeatSteps DEF Next
<1> QED
  BY InitIInv, <1>1, PTL DEF Spec

\* Every variable keeps its type; no thread tries more phrases than it may.
THEOREM TypeCorrect == Spec => []TypeOK
<1>1. IInv => TypeOK
  BY DEF IInv
<1> QED
  BY Invariant, <1>1, PTL

\* Two heartbeat threads never play at the same time: both would hold the lock.
THEOREM OnePhrase == Spec => []OnePhraseAtATime
<1>1. IInv => OnePhraseAtATime
  BY DEF IInv, LockHeld, OnePhraseAtATime, PlayerPCs
<1> QED
  BY Invariant, <1>1, PTL

\* At most one phrase of a turn begins after its answer is ready.
THEOREM OneLatePhrase == Spec => []AtMostOneLatePhrase
<1>1. IInv => AtMostOneLatePhrase
  BY DEF IInv, LateOnce, AtMostOneLatePhrase
<1> QED
  BY Invariant, <1>1, PTL

\* The stop of a phrase that plays is not undone before the phrase is over.
THEOREM StopIsKept == Spec => []StopReachesPlayingPhrase
<1>1. IInv => StopReachesPlayingPhrase
  BY DEF IInv, AskedHeld, StopReachesPlayingPhrase
<1> QED
  BY Invariant, <1>1, PTL

-----------------------------------------------------------------------------
(* LiveStream.                                                             *)

\* A step of the stream is one of the heartbeat, or leaves the heartbeat alone.
LEMMA StreamStepIsHeartbeatStep == [StreamNext]_allVars => [Next]_vars
<1> SUFFICES ASSUME [StreamNext]_allVars PROVE [Next]_vars
  OBVIOUS
<1>1. CASE StartStream
  BY <1>1 DEF StartStream, Next
<1>2. CASE MainStep
  BY <1>2 DEF MainStep, FetchFirst, LookAhead, TestInterrupt, SpeakChunk, ChunkSpoken,
              ChunkFailed, FinishStream, Next
<1>3. CASE FirstAudio \/ RequestInterrupt
  BY <1>3 DEF FirstAudio, RequestInterrupt, Next
<1>4. CASE (SpeakBegins \/ StopPlayback) /\ UNCHANGED streamVars
  BY <1>4 DEF Next
<1>5. CASE \E t \in Turns : BeatStep(t) /\ UNCHANGED streamVars
  BY <1>5 DEF Next
<1>6. CASE \E t \in Turns : PrefetchStep(t)
  BY <1>6 DEF PrefetchStep, Produce, Put
<1>7. CASE UNCHANGED allVars
  BY <1>7 DEF allVars
<1> QED
  BY <1>1, <1>2, <1>3, <1>4, <1>5, <1>6, <1>7 DEF StreamNext

\* The stream implements the heartbeat: every behaviour of it is one of
\* PresenceHeartbeat, so that its invariant carries over.
THEOREM StreamImplementsHeartbeat == StreamSpec => Init /\ [][Next]_vars
<1>1. StreamInit => Init
  BY DEF StreamInit
<1> QED
  BY <1>1, StreamStepIsHeartbeatStep, PTL DEF StreamSpec

\* The types of the stream's own variables.
OwnTypes ==
  /\ prefetch \in [Turns -> [pc: {"unborn", "produce", "put", "end", "done"},
                             made: 0 .. MaxChunks]]
  /\ queue \in [Turns -> Seq(Chunks \union {None})]
  /\ \A t \in Turns : Len(queue[t]) <= QueueSize
  /\ reader \in [at: Places, current: Chunks \union {None},
                 next: Chunks \union {None}]
  /\ interrupted \in BOOLEAN
  /\ spoken \in [Turns -> Seq(Chunks)]
  /\ left \subseteq Turns
  /\ ignored \in Nat

\* Where the loop is agrees with where the heartbeat sees the streaming thread.
PlacesAgree ==
  /\ reader.at = "idle" <=> main.pc = "idle" \/ main.last
  /\ main.pc = "stream" => ~main.last
  /\ reader.at \notin {"idle", "speaking"} => main.pc = "stream"

\* Turns that have not begun.
Unbegun ==
  \A t \in Turns : t > turn =>
    /\ prefetch[t] = [pc |-> "unborn", made |-> 0]
    /\ queue[t] = <<>> /\ spoken[t] = <<>> /\ t \notin left

SpokenInOrder == \A t \in Turns : \A i \in 1 .. Len(spoken[t]) : spoken[t][i] = i

\* The chunks in hand follow the spoken ones.
InHand ==
  LET n == Len(spoken[turn])
  IN  /\ reader.at = "first" => n = 0 /\ reader.current = None
      /\ reader.at \in {"next", "test", "speak"} => reader.current = n + 1
      /\ reader.at \in {"speaking", "failed"} => reader.current = n
      /\ reader.at \in {"first", "next"} => reader.next = None
      /\ reader.next # None => reader.next = reader.current + 1

\* The loop may still ask for a chunk.
Reading ==
  \/ reader.at \in {"first", "next"}
  \/ reader.at \in {"test", "speak", "speaking", "failed"} /\ reader.next # None

Fetched == IF reader.next # None THEN reader.next ELSE reader.current

\* Queue q of prefetch thread p holds the chunks after the n-th, then the end mark.
Continues(p, q, n) ==
  /\ p.pc # "unborn"
  /\ p.pc \in {"produce", "end"} => p.made = n + Len(q)
  /\ p.pc = "put" => p.made = n + Len(q) + 1
  /\ p.pc = "done" => Len(q) >= 1 /\ p.made + 1 = n + Len(q) /\ q[Len(q)] = None
  /\ \A i \in 1 .. Len(q) : p.pc # "done" \/ i < Len(q) => q[i] = n + i

QueueContinues == Continues(prefetch[turn], queue[turn], Fetched)

\* The generator has ended, and k chunks are all it yielded.
Exhausted(t, k) == prefetch[t].pc = "done" /\ prefetch[t].made = k

AllFetched ==
  /\ Reading => QueueContinues
  /\ /\ reader.at \in {"test", "speak", "speaking", "failed"}
     /\ reader.next = None
     /\ turn \notin left
     => Exhausted(turn, reader.current)
  /\ reader.at = "finish" /\ turn \notin left => Exhausted(turn, Len(spoken[turn]))

AllSpoken ==
  \A t \in Turns :
    /\ t < turn \/ (t = turn /\ reader.at = "idle")
    /\ t \notin left
    => Exhausted(t, Len(spoken[t]))

Heeded ==
  /\ ignored <= 1
  /\ ignored = 1 => interrupted /\ reader.at # "speak"

Loop == turn \in Turns => InHand /\ AllFetched

OwnInv ==
  /\ OwnTypes
  /\ PlacesAgree
  /\ Unbegun
  /\ SpokenInOrder
  /\ Loop
  /\ AllSpoken
  /\ Heeded

SInv == IInv /\ OwnInv

-----------------------------------------------------------------------------
\* Where nothing but the heartbeat's variables moves, only the places can disagree.
LEMMA HeartbeatMoves ==
  ASSUME SInv, UNCHANGED <<streamVars, turn>>, PlacesAgree'
  PROVE  OwnInv'
<1> USE DEF SInv, OwnInv, streamVars, readerVars
<1>1. OwnTypes' /\ Unbegun' /\ SpokenInOrder' /\ AllSpoken' /\ Heeded'
  BY DEF OwnTypes, Unbegun, SpokenInOrder, AllSpoken, Heeded, Exhausted
<1>2. Loop'
  <2>1. InHand' = InHand
    BY DEF InHand
  <2>2. Reading' = Reading /\ QueueContinues' = QueueContinues
    BY DEF Reading, QueueContinues, Fetched
  <2>3. AllFetched' = AllFetched
    BY <2>2 DEF AllFetched, Exhausted
  <2> QED
    BY <2>1, <2>3 DEF Loop
<1> QED
  BY <1>1, <1>2

LEMMA HeartbeatStepsKeepOwn ==
  ASSUME SInv,
         \/ \E t \in Turns : BeatStep(t) /\ UNCHANGED streamVars
         \/ (SpeakBegins \/ StopPlayback) /\ UNCHANGED streamVars
         \/ CancelStep /\ UNCHANGED streamVars
         \/ FirstAudio
         \/ UNCHANGED allVars
  PROVE  OwnInv'
<1>1. CASE \E t \in Turns : BeatStep(t) /\ UNCHANGED streamVars
  <2>1. UNCHANGED <<turn, main>>
    BY <1>1 DEF BeatStep, BeatWait, BeatCheck, BeatAnnounce, BeatEnter, BeatClear, BeatBegin,
                BeatPlayed, BeatRelease, BeatLeave
  <2> QED
    BY <1>1, <2>1, HeartbeatMoves DEF SInv, OwnInv, PlacesAgree, streamVars, readerVars
<1>2. CASE (SpeakBegins \/ StopPlayback) /\ UNCHANGED streamVars
  BY <1>2, HeartbeatMoves DEF SpeakBegins, StopPlayback, SInv, OwnInv, PlacesAgree,
                              streamVars, readerVars
<1>3. CASE CancelStep /\ UNCHANGED streamVars
  <2>1. /\ UNCHANGED turn
        /\ main.pc \notin {"idle", "stream"} /\ main'.last = main.last
        /\ main'.pc = "idle" => main.last
        /\ main'.pc = "stream" => ~main.last
    BY <1>3 DEF CancelStep, CancelSet, CancelLook, CancelStop, CancelAbort, CancelJoin,
                CancelReturns, SInv, IInv, TypeOK
  <2>2. PlacesAgree'
    BY <1>3, <2>1 DEF SInv, OwnInv, PlacesAgree, streamVars, readerVars
  <2> QED
    BY <1>3, <2>1, <2>2, HeartbeatMoves
<1>4. CASE FirstAudio
  <2>1. PlacesAgree' /\ UNCHANGED <<streamVars, turn>>
    BY <1>4 DEF FirstAudio, Streaming, AudioStarts, SInv, IInv, TypeOK, OwnInv, PlacesAgree,
                streamVars, readerVars
  <2> QED
    BY <2>1, HeartbeatMoves
<1>5. CASE UNCHANGED allVars
  BY <1>5, HeartbeatMoves DEF allVars, vars, SInv, OwnInv, PlacesAgree, streamVars, readerVars
<1> QED
  BY <1>1, <1>2, <1>3, <1>4, <1>5

LEMMA InterruptKeepsOwn ==
  ASSUME SInv, RequestInterrupt
  PROVE  OwnInv'
<1> USE DEF SInv, OwnInv, RequestInterrupt, readerVars, vars
<1>1. OwnTypes' /\ PlacesAgree' /\ Unbegun' /\ SpokenInOrder' /\ AllSpoken' /\ Heeded'
  BY DEF OwnTypes, PlacesAgree, Unbegun, SpokenInOrder, AllSpoken, Heeded, Exhausted
<1>2. Loop'
  BY DEF Loop, InHand, AllFetched, Reading, QueueContinues, Fetched, Exhausted
<1> QED
  BY <1>1, <1>2

-----------------------------------------------------------------------------
\* The prefetch thread.

\* What is said of the loop is about the current turn only.
LEMMA LoopFrame ==
  ASSUME UNCHANGED <<turn, reader, spoken, left>>, Loop,
         turn \in Turns => prefetch'[turn] = prefetch[turn] /\ queue'[turn] = queue[turn]
  PROVE  Loop'
<1> SUFFICES ASSUME turn \in Turns PROVE InHand' /\ AllFetched'
  BY DEF Loop
<1>1. InHand'
  BY DEF Loop, InHand
<1>2. Reading' = Reading /\ QueueContinues' = QueueContinues
  BY DEF Reading, QueueContinues, Fetched
<1>3. AllFetched'
  BY <1>2 DEF Loop, AllFetched, Exhausted
<1> QED
  BY <1>1, <1>3

\* A step of the prefetch thread leaves alone what a turn that was exhausted says.
LEMMA PrefetchFrame ==
  ASSUME SInv, NEW t \in Turns, UNCHANGED <<turn, main, reader, interrupted, spoken, left, ignored>>,
         prefetch[t].pc \notin {"unborn", "done"},
         \A u \in Turns \ {t} : prefetch'[u] = prefetch[u] /\ queue'[u] = queue[u]
  PROVE  PlacesAgree' /\ Unbegun' /\ SpokenInOrder' /\ AllSpoken' /\ Heeded'
<1>1. PlacesAgree' /\ SpokenInOrder' /\ Heeded'
  BY DEF SInv, OwnInv, PlacesAgree, SpokenInOrder, Heeded
<1>2. Unbegun'
  BY DEF SInv, OwnInv, Unbegun
<1>3. AllSpoken'
  BY DEF SInv, OwnInv, AllSpoken, Exhausted
<1> QED
  BY <1>1, <1>2, <1>3

Threads == [pc: {"unborn", "produce", "put", "end", "done"}, made: 0 .. MaxChunks]
Marks == Chunks \union {None}

\* The generator goes on, or ends: the queue continues as before.
LEMMA ContinuesProduce ==
  ASSUME NEW p \in Threads, NEW p2 \in Threads, NEW q \in Seq(Marks), NEW n \in Nat,
         Continues(p, q, n), p.pc = "produce",
         \/ p2.pc = "put" /\ p2.made = p.made + 1
         \/ p2.pc = "end" /\ p2.made = p.made
  PROVE  Continues(p2, q, n)
<1>1. Len(q) \in Nat /\ p.made \in Nat /\ p2.made \in Nat
  BY DEF Threads
<1>2. p.made = n + Len(q) /\ \A i \in 1 .. Len(q) : q[i] = n + i
  BY DEF Continues
<1>3. CASE p2.pc = "put" /\ p2.made = p.made + 1
  BY <1>1, <1>2, <1>3 DEF Continues
<1>4. CASE p2.pc = "end" /\ p2.made = p.made
  BY <1>1, <1>2, <1>4 DEF Continues
<1> QED
  BY <1>3, <1>4

\* What is put continues the queue: the chunk in the thread's hand, or the end mark.
LEMMA ContinuesPut ==
  ASSUME NEW p \in Threads, NEW p2 \in Threads, NEW q \in Seq(Marks), NEW n \in Nat,
         NEW e \in Marks, Continues(p, q, n), p2.made = p.made,
         \/ p.pc = "put" /\ e = p.made /\ p2.pc = "produce"
         \/ p.pc = "end" /\ e = None /\ p2.pc = "done"
  PROVE  Continues(p2, Append(q, e), n)
<1> DEFINE r == Append(q, e)
<1>1. Len(q) \in Nat /\ p.made \in Nat
  BY DEF Threads
<1>2. /\ Len(r) = Len(q) + 1 /\ r[Len(q) + 1] = e
      /\ \A i \in 1 .. Len(q) : r[i] = q[i]
  OBVIOUS
<1>3. \A i \in 1 .. Len(q) : q[i] = n + i
  BY DEF Continues
<1> HIDE DEF r
<1>4. \A i \in 1 .. Len(q) : r[i] = n + i
  BY <1>2, <1>3
<1>5. CASE p.pc = "put" /\ e = p.made /\ p2.pc = "produce"
  <2>1. p.made = n + Len(q) + 1
    BY <1>5 DEF Continues
  <2>2. \A i \in 1 .. Len(r) : r[i] = n + i
    <3>1. r[Len(q) + 1] = n + (Len(q) + 1)
      BY <1>1, <1>2, <1>5, <2>1
    <3>2. \A i \in 1 .. Len(r) : i \in 1 .. Len(q) \/ i = Len(q) + 1
      BY <1>1, <1>2
    <3> QED
      BY <1>4, <3>1, <3>2
  <2>3. p2.made = n + Len(r)
    BY <1>1, <1>2, <2>1
  <2> QED
    BY <1>5, <2>2, <2>3 DEF Continues, r
<1>6. CASE p.pc = "end" /\ e = None /\ p2.pc = "done"
  <2>1. p.made = n + Len(q)
    BY <1>6 DEF Continues
  <2>2. \A i \in 1 .. Len(r) : i < Len(r) => r[i] = n + i
    BY <1>1, <1>2, <1>4
  <2>3. p2.made + 1 = n + Len(r) /\ Len(r) >= 1 /\ r[Len(r)] = None
    BY <1>1, <1>2, <1>6, <2>1
  <2> QED
    BY <1>6, <2>2, <2>3 DEF Continues, r
<1> QED
  BY <1>5, <1>6

\* The head of the queue is the next chunk, or the end mark after the last.
LEMMA ContinuesHead ==
  ASSUME NEW p \in Threads, NEW q \in Seq(Marks), q # <<>>, NEW n \in Nat,
         Continues(p, q, n)
  PROVE  /\ Head(q) # None => Head(q) = n + 1 /\ Continues(p, Tail(q), n + 1)
         /\ Head(q) = None => p.pc = "done" /\ p.made = n
<1> DEFINE r == Tail(q)
<1>1. /\ Len(q) \in Nat /\ Len(q) >= 1 /\ p.made \in Nat
      /\ Head(q) = q[1]
      /\ Len(r) = Len(q) - 1
      /\ \A i \in 1 .. Len(r) : r[i] = q[i + 1]
  BY DEF Threads
<1> HIDE DEF r
<1>2. CASE p.pc = "done" /\ Len(q) = 1
  BY <1>1, <1>2 DEF Continues, None
<1>3. CASE p.pc # "done" \/ Len(q) # 1
  <2>1. q[1] = n + 1 /\ n + 1 # None
    BY <1>1, <1>3 DEF Continues, None
  <2>2. \A i \in 1 .. Len(r) : p.pc # "done" \/ i < Len(r) => r[i] = n + 1 + i
    <3> SUFFICES ASSUME NEW i \in 1 .. Len(r), p.pc # "done" \/ i < Len(r)
                 PROVE  r[i] = n + 1 + i
      OBVIOUS
    <3>1. i + 1 \in 1 .. Len(q) /\ (p.pc # "done" \/ i + 1 < Len(q))
      BY <1>1
    <3>2. q[i + 1] = n + (i + 1)
      BY <3>1 DEF Continues
    <3> QED
      BY <1>1, <3>2
  <2>3. p.pc = "done" => Len(r) >= 1 /\ r[Len(r)] = None
    <3> SUFFICES ASSUME p.pc = "done" PROVE Len(r) >= 1 /\ r[Len(r)] = None
      OBVIOUS
    <3>1. Len(r) \in 1 .. Len(r) /\ Len(r) + 1 = Len(q)
      BY <1>1, <1>3
    <3> QED
      BY <1>1, <3>1 DEF Continues
  <2>4. /\ p.pc # "unborn"
        /\ p.pc \in {"produce", "end"} => p.made = n + 1 + Len(r)
        /\ p.pc = "put" => p.made = n + 1 + Len(r) + 1
        /\ p.pc = "done" => p.made + 1 = n + 1 + Len(r)
    BY <1>1 DEF Continues
  <2>5. Continues(p, r, n + 1)
    BY <2>2, <2>3, <2>4 DEF Continues
  <2> QED
    BY <1>1, <2>1, <2>5 DEF r
<1> QED
  BY <1>2, <1>3

\* The types of what the lemmas about the queue of the current turn are used for.
LEMMA TurnTypes ==
  ASSUME SInv, turn \in Turns
  PROVE  /\ prefetch[turn] \in Threads /\ queue[turn] \in Seq(Marks)
         /\ reader.current \in Nat /\ reader.next \in Nat /\ Fetched \in Nat
         /\ Len(spoken[turn]) \in Nat
BY DEF SInv, OwnInv, OwnTypes, Threads, Marks, Fetched, Chunks, None

LEMMA ProduceKeepsOwn ==
  ASSUME SInv, NEW t \in Turns, Produce(t)
  PROVE  OwnInv'
<1>1. /\ UNCHANGED <<turn, main, queue, interrupted, reader, spoken, left, ignored>>
      /\ prefetch[t].pc = "produce"
  BY DEF Produce, readerVars, vars
<1>2. prefetch \in [Turns -> Threads]
  BY DEF SInv, OwnInv, OwnTypes, Threads
<1>3. /\ prefetch' \in [Turns -> Threads]
      /\ \/ prefetch'[t].pc = "put" /\ prefetch'[t].made = prefetch[t].made + 1
         \/ prefetch'[t].pc = "end" /\ prefetch'[t].made = prefetch[t].made
      /\ \A u \in Turns \ {t} : prefetch'[u] = prefetch[u]
  <2>1. CASE /\ prefetch[t].made < MaxChunks
             /\ prefetch' = [prefetch EXCEPT ![t] = [pc |-> "put", made |-> @.made + 1]]
    <3>1. prefetch[t].made + 1 \in 0 .. MaxChunks
      BY <1>2, <2>1, ChunksAssumption DEF Threads
    <3>2. [pc |-> "put", made |-> prefetch[t].made + 1] \in Threads
      BY <3>1 DEF Threads
    <3> QED
      BY <1>2, <2>1, <3>2
  <2>2. CASE prefetch' = [prefetch EXCEPT ![t].pc = "end"]
    BY <1>2, <2>2 DEF Threads
  <2> QED
    BY <2>1, <2>2 DEF Produce
<1>5. OwnTypes'
  BY <1>1, <1>3 DEF SInv, OwnInv, OwnTypes, Threads
<1>6. PlacesAgree' /\ Unbegun' /\ SpokenInOrder' /\ AllSpoken' /\ Heeded'
  BY <1>1, <1>3, PrefetchFrame
<1>7. Loop'
  <2>1. CASE t # turn
    BY <1>1, <1>3, <2>1, LoopFrame DEF SInv, OwnInv
  <2>2. CASE t = turn
    <3>1. InHand' /\ Reading' = Reading /\ Fetched' = Fetched
      BY <1>1, <2>2 DEF SInv, OwnInv, Loop, InHand, Reading, Fetched
    <3>2. QueueContinues => QueueContinues'
      BY <1>1, <1>3, <2>2, <3>1, TurnTypes, ContinuesProduce DEF QueueContinues
    <3>3. AllFetched'
      BY <1>1, <2>2, <3>1, <3>2 DEF SInv, OwnInv, Loop, AllFetched, Exhausted
    <3> QED
      BY <3>1, <3>3 DEF Loop
  <2> QED
    BY <2>1, <2>2
<1> QED
  BY <1>5, <1>6, <1>7 DEF OwnInv

LEMMA PutKeepsOwn ==
  ASSUME SInv, NEW t \in Turns, Put(t)
  PROVE  OwnInv'
<1>1. /\ UNCHANGED <<turn, main, interrupted, reader, spoken, left, ignored>>
      /\ prefetch[t].pc \in {"put", "end"}
      /\ Len(queue[t]) < QueueSize
  BY DEF Put, readerVars, vars
<1>2. /\ prefetch \in [Turns -> Threads]
      /\ queue \in [Turns -> Seq(Marks)]
      /\ \A u \in Turns : Len(queue[u]) <= QueueSize
  BY DEF SInv, OwnInv, OwnTypes, Threads, Marks
<1>3. PICK e : /\ \/ /\ prefetch[t].pc = "put" /\ e = prefetch[t].made
                     /\ prefetch' = [prefetch EXCEPT ![t].pc = "produce"]
                  \/ /\ prefetch[t].pc = "end" /\ e = None
                     /\ prefetch' = [prefetch EXCEPT ![t].pc = "done"]
               /\ queue' = [queue EXCEPT ![t] = Append(queue[t], e)]
  BY DEF Put
<1>4. e \in Marks
  BY <1>2, <1>3, ChunksAssumption DEF Marks, Threads, Chunks, None
<1>5. /\ prefetch' \in [Turns -> Threads]
      /\ prefetch'[t].made = prefetch[t].made
      /\ \/ prefetch[t].pc = "put" /\ e = prefetch[t].made /\ prefetch'[t].pc = "produce"
         \/ prefetch[t].pc = "end" /\ e = None /\ prefetch'[t].pc = "done"
      /\ \A u \in Turns \ {t} : prefetch'[u] = prefetch[u]
  BY <1>2, <1>3 DEF Threads
<1>6. /\ queue' \in [Turns -> Seq(Marks)]
      /\ queue'[t] = Append(queue[t], e)
      /\ \A u \in Turns \ {t} : queue'[u] = queue[u]
      /\ Len(queue'[t]) = Len(queue[t]) + 1
  BY <1>2, <1>3, <1>4
<1>7. OwnTypes'
  <2>1. \A u \in Turns : Len(queue'[u]) <= QueueSize
    BY <1>1, <1>2, <1>6, QueueAssumption
  <2> QED
    BY <1>1, <1>5, <1>6, <2>1 DEF SInv, OwnInv, OwnTypes, Threads, Marks
<1>8. PlacesAgree' /\ Unbegun' /\ SpokenInOrder' /\ AllSpoken' /\ Heeded'
  BY <1>1, <1>5, <1>6, PrefetchFrame
<1>9. Loop'
  <2>1. CASE t # turn
    BY <1>1, <1>5, <1>6, <2>1, LoopFrame DEF SInv, OwnInv
  <2>2. CASE t = turn
    <3>1. InHand' /\ Reading' = Reading /\ Fetched' = Fetched
      BY <1>1, <2>2 DEF SInv, OwnInv, Loop, InHand, Reading, Fetched
    <3>2. QueueContinues => QueueContinues'
      <4>1. /\ prefetch[t] \in Threads /\ prefetch'[t] \in Threads
            /\ queue[t] \in Seq(Marks) /\ Fetched \in Nat
        BY <1>5, <2>2, TurnTypes
      <4>2. Continues(prefetch[t], queue[t], Fetched)
            => Continues(prefetch'[t], Append(queue[t], e), Fetched)
        BY <1>4, <1>5, <4>1, ContinuesPut
      <4> QED
        BY <1>1, <1>6, <2>2, <3>1, <4>2 DEF QueueContinues
    <3>3. AllFetched'
      BY <1>1, <2>2, <3>1, <3>2 DEF SInv, OwnInv, Loop, AllFetched, Exhausted
    <3> QED
      BY <3>1, <3>3 DEF Loop
  <2> QED
    BY <2>1, <2>2
<1> QED
  BY <1>7, <1>8, <1>9 DEF OwnInv

-----------------------------------------------------------------------------
\* The main thread.

\* A step of the loop is taken in a turn that has begun.
LEMMA InLoop ==
  ASSUME SInv, main.pc = "stream"
  PROVE  turn \in Turns /\ InHand /\ AllFetched /\ ~main.last
BY DEF SInv, IInv, CurrentTurn, OwnInv, Loop, PlacesAgree

\* A chunk taken from the queue is the one after those in hand; without one, the loop
\* has given up or the generator has ended.
LEMMA NextChunkContinues ==
  ASSUME SInv, main.pc = "stream", Reading, reader.next = None,
         NEW c \in Marks, NextLiveChunk(c), UNCHANGED <<turn, prefetch>>
  PROVE  /\ queue' \in [Turns -> Seq(Marks)]
         /\ \A t \in Turns : Len(queue'[t]) <= QueueSize
         /\ \A t \in Turns \ {turn} : queue'[t] = queue[t]
         /\ left \subseteq left' /\ left' \subseteq left \union {turn}
         /\ c # None => /\ c = reader.current + 1
                        /\ Continues(prefetch[turn], queue'[turn], c)
         /\ c = None /\ turn \notin left' => Exhausted(turn, reader.current)
<1>1. /\ turn \in Turns /\ QueueContinues
      /\ prefetch[turn] \in Threads /\ queue[turn] \in Seq(Marks)
      /\ reader.current \in Nat /\ Fetched = reader.current
  BY InLoop, TurnTypes DEF AllFetched, Fetched
<1>2. Continues(prefetch[turn], queue[turn], reader.current)
  BY <1>1 DEF QueueContinues
<1>3. /\ queue \in [Turns -> Seq(Marks)]
      /\ \A t \in Turns : Len(queue[t]) <= QueueSize
  BY DEF SInv, OwnInv, OwnTypes, Marks
<1>4. CASE /\ queue[turn] # <<>>
           /\ c = Head(queue[turn])
           /\ queue' = [queue EXCEPT ![turn] = Tail(@)]
           /\ UNCHANGED left
  <2>1. /\ Tail(queue[turn]) \in Seq(Marks)
        /\ Len(Tail(queue[turn])) \in Nat /\ Len(queue[turn]) \in Nat
        /\ Len(Tail(queue[turn])) <= Len(queue[turn])
    BY <1>1, <1>4
  <2>2. /\ queue' \in [Turns -> Seq(Marks)]
        /\ queue'[turn] = Tail(queue[turn])
        /\ \A t \in Turns \ {turn} : queue'[t] = queue[t]
    BY <1>1, <1>3, <1>4, <2>1
  <2>3. \A t \in Turns : Len(queue'[t]) <= QueueSize
    <3>1. Len(queue[turn]) <= QueueSize
      BY <1>1, <1>3
    <3>2. Len(Tail(queue[turn])) <= QueueSize
      BY <2>1, <3>1, QueueAssumption
    <3>3. Len(queue'[turn]) <= QueueSize
      BY <2>2, <3>2
    <3>4. \A t \in Turns \ {turn} : Len(queue'[t]) <= QueueSize
      BY <1>3, <2>2
    <3> QED
      BY <3>3, <3>4
  <2>4. /\ c # None => c = reader.current + 1
                       /\ Continues(prefetch[turn], Tail(queue[turn]), reader.current + 1)
        /\ c = None => prefetch[turn].pc = "done" /\ prefetch[turn].made = reader.current
    BY <1>1, <1>2, <1>4, ContinuesHead
  <2>5. c = None => Exhausted(turn, reader.current)
    BY <2>4 DEF Exhausted
  <2>6. c # None => Continues(prefetch[turn], queue'[turn], c)
    BY <2>2, <2>4
  <2> QED
    BY <1>4, <2>2, <2>3, <2>4, <2>5, <2>6
<1>5. CASE /\ queue[turn] = <<>>
           /\ c = None
           /\ left' = left \union {turn}
           /\ UNCHANGED queue
  BY <1>3, <1>5
<1> QED
  BY <1>4, <1>5 DEF NextLiveChunk

\* A step of the loop touches the current turn only, so what is said of the turns
\* before and after it stays.
LEMMA OtherTurns ==
  ASSUME SInv, main.pc = "stream", reader'.at # "idle", UNCHANGED <<turn, prefetch>>,
         \A t \in Turns \ {turn} : queue'[t] = queue[t] /\ spoken'[t] = spoken[t],
         left \subseteq left' /\ left' \subseteq left \union {turn}
  PROVE  Unbegun' /\ AllSpoken'
<1>1. turn \in Turns /\ turn \in Nat
  BY InLoop DEF Turns
<1>2. Unbegun'
  BY <1>1 DEF SInv, OwnInv, Unbegun, Turns
<1>3. AllSpoken'
  BY <1>1 DEF SInv, OwnInv, AllSpoken, Exhausted, Turns
<1> QED
  BY <1>2, <1>3

LEMMA FetchFirstKeepsOwn ==
  ASSUME SInv, FetchFirst
  PROVE  OwnInv'
<1>1. /\ main.pc = "stream" /\ reader.at = "first"
      /\ UNCHANGED <<turn, main, prefetch, interrupted, spoken, ignored>>
  BY DEF FetchFirst, Streaming, vars
<1>2. PICK c \in Marks : NextLiveChunk(c) /\ WithChunk(c)
  BY DEF FetchFirst, Marks
<1>3. /\ turn \in Turns /\ InHand /\ ~main.last /\ Len(spoken[turn]) = 0
      /\ reader.current = None /\ reader.next = None
  BY <1>1, InLoop DEF InHand
<1>4. /\ queue' \in [Turns -> Seq(Marks)]
      /\ \A t \in Turns : Len(queue'[t]) <= QueueSize
      /\ \A t \in Turns \ {turn} : queue'[t] = queue[t]
      /\ left \subseteq left' /\ left' \subseteq left \union {turn}
      /\ c # None => c = reader.current + 1 /\ Continues(prefetch[turn], queue'[turn], c)
      /\ c = None /\ turn \notin left' => Exhausted(turn, reader.current)
  BY <1>1, <1>2, <1>3, NextChunkContinues DEF Reading
<1>5. reader' = [at |-> IF c = None THEN "finish" ELSE "next", current |-> c, next |-> None]
  BY <1>2 DEF WithChunk
<1>6. OwnTypes'
  BY <1>1, <1>3, <1>4, <1>5 DEF SInv, OwnInv, OwnTypes, Places, Marks
<1>7. PlacesAgree' /\ SpokenInOrder' /\ Heeded'
  BY <1>1, <1>3, <1>5 DEF SInv, OwnInv, PlacesAgree, SpokenInOrder, Heeded
<1>8. Unbegun' /\ AllSpoken'
  BY <1>1, <1>4, <1>5, OtherTurns
<1>9. InHand'
  BY <1>1, <1>3, <1>4, <1>5 DEF InHand, None
<1>10. AllFetched'
  <2>1. CASE c = None
    BY <1>1, <1>3, <1>4, <1>5, <2>1 DEF AllFetched, Reading, Exhausted, None
  <2>2. CASE c # None
    <3>1. reader'.at = "next" /\ Fetched' = c
      BY <1>5, <2>2 DEF Fetched
    <3>2. QueueContinues'
      BY <1>1, <1>4, <2>2, <3>1 DEF QueueContinues
    <3> QED
      BY <3>1, <3>2 DEF AllFetched
  <2> QED
    BY <2>1, <2>2
<1> QED
  BY <1>6, <1>7, <1>8, <1>9, <1>10 DEF OwnInv, Loop

LEMMA LookAheadKeepsOwn ==
  ASSUME SInv, LookAhead
  PROVE  OwnInv'
<1>1. /\ main.pc = "stream" /\ reader.at = "next"
      /\ UNCHANGED <<turn, main, prefetch, interrupted, spoken, ignored>>
  BY DEF LookAhead, Streaming, vars
<1>2. PICK c \in Marks : /\ NextLiveChunk(c)
                         /\ reader' = [reader EXCEPT !.at = "test", !.next = c]
  BY DEF LookAhead, Marks
<1>3. /\ turn \in Turns /\ InHand /\ ~main.last
      /\ reader.current = Len(spoken[turn]) + 1 /\ reader.next = None
  BY <1>1, InLoop DEF InHand
<1>4. /\ queue' \in [Turns -> Seq(Marks)]
      /\ \A t \in Turns : Len(queue'[t]) <= QueueSize
      /\ \A t \in Turns \ {turn} : queue'[t] = queue[t]
      /\ left \subseteq left' /\ left' \subseteq left \union {turn}
      /\ c # None => c = reader.current + 1 /\ Continues(prefetch[turn], queue'[turn], c)
      /\ c = None /\ turn \notin left' => Exhausted(turn, reader.current)
  BY <1>1, <1>2, <1>3, NextChunkContinues DEF Reading
<1>5. reader'.at = "test" /\ reader'.current = reader.current /\ reader'.next = c
  BY <1>2 DEF SInv, OwnInv, OwnTypes
<1>6. OwnTypes'
  BY <1>1, <1>2, <1>3, <1>4 DEF SInv, OwnInv, OwnTypes, Places, Marks
<1>7. PlacesAgree' /\ SpokenInOrder' /\ Heeded'
  BY <1>1, <1>3, <1>5 DEF SInv, OwnInv, PlacesAgree, SpokenInOrder, Heeded
<1>8. Unbegun' /\ AllSpoken'
  BY <1>1, <1>4, <1>5, OtherTurns
<1>9. InHand'
  BY <1>1, <1>3, <1>4, <1>5 DEF InHand
<1>10. AllFetched'
  <2>1. CASE c = None
    BY <1>1, <1>4, <1>5, <2>1 DEF AllFetched, Reading, Exhausted
  <2>2. CASE c # None
    <3>1. Fetched' = c
      BY <1>5, <2>2 DEF Fetched
    <3>2. QueueContinues'
      BY <1>1, <1>4, <2>2, <3>1 DEF QueueContinues
    <3> QED
      BY <1>5, <2>2, <3>2 DEF AllFetched
  <2> QED
    BY <2>1, <2>2
<1> QED
  BY <1>6, <1>7, <1>8, <1>9, <1>10 DEF OwnInv, Loop

\* Steps of the loop that neither take nor speak a chunk: to another place with the same
\* chunks in hand, or with the next one as the current one.
LEMMA PlaceKeepsOwn ==
  ASSUME SInv, main.pc = "stream",
         UNCHANGED <<turn, main, prefetch, queue, interrupted, spoken, ignored>>,
         left \subseteq left' /\ left' \subseteq left \union {turn},
         reader' \in [at: Places, current: Marks, next: Marks],
         \/ /\ reader'.at = "finish" /\ turn \in left'
            /\ reader'.current = reader.current /\ reader'.next = reader.next
         \/ /\ reader.at = "test" /\ reader'.at = "speak" /\ ~interrupted
            /\ reader'.current = reader.current /\ reader'.next = reader.next
         \/ /\ reader.at = "speaking" /\ reader'.at = "failed"
            /\ reader'.current = reader.current /\ reader'.next = reader.next
         \/ /\ reader.at \in {"speaking", "failed"}
            /\ reader'.at = IF reader.next = None THEN "finish" ELSE "next"
            /\ reader'.current = reader.next /\ reader'.next = None
  PROVE  OwnInv'
<1>1. /\ turn \in Turns /\ InHand /\ AllFetched /\ ~main.last
      /\ Len(spoken[turn]) \in Nat
  BY InLoop, TurnTypes
<1>2. reader'.at # "idle"
  OBVIOUS
<1>3. OwnTypes'
  BY <1>1 DEF SInv, OwnInv, OwnTypes, Marks
<1>4. PlacesAgree' /\ SpokenInOrder' /\ Heeded'
  BY <1>1, <1>2 DEF SInv, OwnInv, PlacesAgree, SpokenInOrder, Heeded
<1>5. Unbegun' /\ AllSpoken'
  BY <1>2, OtherTurns
<1>6. InHand'
  BY <1>1 DEF InHand, None
<1>7. AllFetched'
  <2>1. CASE reader'.at = "finish" /\ turn \in left'
    BY <2>1 DEF AllFetched, Reading
  <2>2. CASE /\ reader.at \in {"test", "speaking"} /\ reader'.at \in {"speak", "failed"}
             /\ reader'.current = reader.current /\ reader'.next = reader.next
    <3>1. Reading' => Reading
      BY <2>2 DEF Reading
    <3>2. Fetched' = Fetched
      BY <2>2 DEF Fetched
    <3>3. QueueContinues => QueueContinues'
      BY <3>2 DEF QueueContinues
    <3> QED
      BY <1>1, <2>2, <3>1, <3>3 DEF AllFetched, Exhausted
  <2>3. CASE /\ reader.at \in {"speaking", "failed"}
             /\ reader'.at = IF reader.next = None THEN "finish" ELSE "next"
             /\ reader'.current = reader.next /\ reader'.next = None
    <3>1. CASE reader.next = None
      BY <1>1, <2>3, <3>1 DEF AllFetched, Reading, InHand, Exhausted
    <3>2. CASE reader.next # None
      <4>1. Fetched' = Fetched /\ Reading
        BY <2>3, <3>2 DEF Fetched, Reading
      <4>2. QueueContinues'
        BY <1>1, <4>1 DEF AllFetched, QueueContinues
      <4> QED
        BY <2>3, <3>2, <4>2 DEF AllFetched
    <3> QED
      BY <3>1, <3>2
  <2> QED
    BY <2>1, <2>2, <2>3
<1> QED
  BY <1>3, <1>4, <1>5, <1>6, <1>7 DEF OwnInv, Loop

LEMMA TestsKeepOwn ==
  ASSUME SInv, TestInterrupt \/ ChunkSpoken \/ ChunkFailed
  PROVE  OwnInv'
<1>1. /\ main.pc = "stream"
      /\ UNCHANGED <<turn, main, prefetch, queue, interrupted, spoken, ignored>>
  BY DEF TestInterrupt, ChunkSpoken, ChunkFailed, Streaming, vars
<1>2. turn \in Turns /\ reader \in [at: Places, current: Marks, next: Marks]
  BY <1>1, InLoop DEF SInv, OwnInv, OwnTypes, Marks
<1>3. CASE reader' = [reader EXCEPT !.at = "finish"] /\ left' = left \union {turn}
  <2>1. reader' \in [at: Places, current: Marks, next: Marks]
    BY <1>2, <1>3 DEF Places
  <2> QED
    BY <1>1, <1>2, <1>3, <2>1, PlaceKeepsOwn
<1>4. CASE /\ reader.at = "test" /\ ~interrupted
           /\ reader' = [reader EXCEPT !.at = "speak"] /\ UNCHANGED left
  <2>1. reader' \in [at: Places, current: Marks, next: Marks]
    BY <1>2, <1>4 DEF Places
  <2> QED
    BY <1>1, <1>2, <1>4, <2>1, PlaceKeepsOwn
<1>5. CASE reader.at = "speaking" /\ reader' = [reader EXCEPT !.at = "failed"] /\ UNCHANGED left
  <2>1. reader' \in [at: Places, current: Marks, next: Marks]
    BY <1>2, <1>5 DEF Places
  <2> QED
    BY <1>1, <1>2, <1>5, <2>1, PlaceKeepsOwn
<1>6. CASE reader.at \in {"speaking", "failed"} /\ WithChunk(reader.next) /\ UNCHANGED left
  <2>1. reader' = [at |-> IF reader.next = None THEN "finish" ELSE "next",
                   current |-> reader.next, next |-> None]
    BY <1>6 DEF WithChunk
  <2>2. reader' \in [at: Places, current: Marks, next: Marks]
    BY <1>2, <2>1 DEF Places, Marks
  <2> QED
    BY <1>1, <1>2, <1>6, <2>1, <2>2, PlaceKeepsOwn
<1> QED
  BY <1>3, <1>4, <1>5, <1>6 DEF TestInterrupt, ChunkSpoken, ChunkFailed, BreakOff, Streaming

LEMMA SpeakKeepsOwn ==
  ASSUME SInv, SpeakChunk
  PROVE  OwnInv'
<1>1. /\ main.pc = "stream" /\ reader.at = "speak"
      /\ UNCHANGED <<turn, main, prefetch, queue, interrupted, left>>
      /\ reader' = [reader EXCEPT !.at = "speaking"]
      /\ spoken' = [spoken EXCEPT ![turn] = Append(@, reader.current)]
      /\ ignored' = IF interrupted THEN ignored + 1 ELSE ignored
  BY DEF SpeakChunk, Streaming, SpeakBegins
<1>2. /\ turn \in Turns /\ InHand /\ AllFetched /\ ~main.last
      /\ Len(spoken[turn]) \in Nat /\ spoken \in [Turns -> Seq(Chunks)]
      /\ reader.current = Len(spoken[turn]) + 1 /\ reader.current \in Chunks
  <2>1. /\ turn \in Turns /\ InHand /\ AllFetched /\ ~main.last
        /\ Len(spoken[turn]) \in Nat /\ spoken \in [Turns -> Seq(Chunks)]
        /\ reader.current \in Marks
    BY <1>1, InLoop, TurnTypes DEF SInv, OwnInv, OwnTypes, Marks
  <2>2. reader.current = Len(spoken[turn]) + 1
    BY <1>1, <2>1 DEF InHand
  <2>3. reader.current # None
    BY <2>1, <2>2 DEF None
  <2> QED
    BY <2>1, <2>2, <2>3 DEF Marks
<1>3. /\ reader'.at = "speaking"
      /\ reader'.current = reader.current /\ reader'.next = reader.next
      /\ reader' \in [at: Places, current: Marks, next: Marks]
  BY <1>1 DEF SInv, OwnInv, OwnTypes, Places, Marks
<1>4. spoken[turn] \in Seq(Chunks)
  BY <1>2
<1>5. /\ Append(spoken[turn], reader.current) \in Seq(Chunks)
      /\ spoken'[turn] = Append(spoken[turn], reader.current)
      /\ Len(spoken'[turn]) = Len(spoken[turn]) + 1
      /\ \A i \in 1 .. Len(spoken[turn]) : spoken'[turn][i] = spoken[turn][i]
      /\ spoken'[turn][Len(spoken[turn]) + 1] = reader.current
      /\ \A t \in Turns \ {turn} : spoken'[t] = spoken[t]
  BY <1>1, <1>2, <1>4
<1>6. OwnTypes'
  <2>1. spoken' \in [Turns -> Seq(Chunks)]
    BY <1>1, <1>2, <1>5
  <2>2. ignored' \in Nat
    BY <1>1 DEF SInv, OwnInv, OwnTypes
  <2> QED
    BY <1>1, <1>3, <2>1, <2>2 DEF SInv, OwnInv, OwnTypes, Marks
<1>7. PlacesAgree' /\ Heeded'
  <2>1. PlacesAgree'
    BY <1>1, <1>2, <1>3 DEF SInv, OwnInv, PlacesAgree
  <2>2. ignored = 0
    BY <1>1 DEF SInv, OwnInv, OwnTypes, Heeded
  <2>3. Heeded'
    BY <1>1, <1>3, <2>2 DEF Heeded
  <2> QED
    BY <2>1, <2>3
<1>8. SpokenInOrder'
  <2>1. \A i \in 1 .. Len(spoken'[turn]) : spoken'[turn][i] = i
    <3>1. \A i \in 1 .. Len(spoken[turn]) : spoken'[turn][i] = i
      BY <1>2, <1>5 DEF SInv, OwnInv, SpokenInOrder
    <3>2. \A i \in 1 .. Len(spoken'[turn]) :
            i \in 1 .. Len(spoken[turn]) \/ i = Len(spoken[turn]) + 1
      BY <1>2, <1>5
    <3> QED
      BY <1>2, <1>5, <3>1, <3>2
  <2> QED
    BY <1>5, <2>1 DEF SInv, OwnInv, SpokenInOrder
<1>9. Unbegun' /\ AllSpoken'
  BY <1>1, <1>3, <1>5, OtherTurns
<1>10. InHand'
  BY <1>1, <1>2, <1>3, <1>5 DEF InHand
<1>11. AllFetched'
  <2>1. Reading' => Reading
    BY <1>1, <1>3 DEF Reading
  <2>2. Fetched' = Fetched
    BY <1>3 DEF Fetched
  <2>3. QueueContinues => QueueContinues'
    BY <1>1, <2>2 DEF QueueContinues
  <2> QED
    BY <1>1, <1>2, <1>3, <2>1, <2>3 DEF AllFetched, Exhausted
<1> QED
  BY <1>6, <1>7, <1>8, <1>9, <1>10, <1>11 DEF OwnInv, Loop

LEMMA FinishKeepsOwn ==
  ASSUME SInv, FinishStream
  PROVE  OwnInv'
<1>1. /\ main.pc = "stream" /\ reader.at = "finish"
      /\ UNCHANGED <<turn, prefetch, queue, interrupted, spoken, left, ignored>>
      /\ main' = [main EXCEPT !.pc = "set", !.last = TRUE]
      /\ reader' = [reader EXCEPT !.at = "idle"]
  BY DEF FinishStream, Streaming, StreamFinishes
<1>2. turn \in Turns /\ InHand /\ AllFetched /\ turn \in Nat
  BY <1>1, InLoop DEF Turns
<1>3. /\ reader'.at = "idle"
      /\ reader'.current = reader.current /\ reader'.next = reader.next
      /\ reader' \in [at: Places, current: Marks, next: Marks]
  BY <1>1 DEF SInv, OwnInv, OwnTypes, Places, Marks
<1>4. main'.pc = "set" /\ main'.last
  BY <1>1 DEF SInv, IInv, TypeOK
<1>5. OwnTypes' /\ PlacesAgree' /\ Unbegun' /\ SpokenInOrder' /\ Heeded'
  BY <1>1, <1>3, <1>4 DEF SInv, OwnInv, OwnTypes, PlacesAgree, Unbegun, SpokenInOrder,
                          Heeded, Marks
<1>6. InHand' /\ AllFetched'
  BY <1>1, <1>2, <1>3 DEF InHand, AllFetched, Reading
<1>7. AllSpoken'
  <2>1. turn \notin left => Exhausted(turn, Len(spoken[turn]))
    BY <1>1, <1>2 DEF AllFetched
  <2> QED
    BY <1>1, <1>2, <2>1 DEF SInv, OwnInv, AllSpoken, Exhausted, Turns
<1> QED
  BY <1>5, <1>6, <1>7 DEF OwnInv, Loop

LEMMA StartKeepsOwn ==
  ASSUME SInv, StartStream
  PROVE  OwnInv'
<1>1. /\ main.pc = "idle" /\ turn < MaxTurns /\ turn' = turn + 1
      /\ main' = [pc |-> "stream", audio |-> FALSE, last |-> FALSE]
      /\ prefetch' = [prefetch EXCEPT ![turn + 1].pc = "produce"]
      /\ reader' = [at |-> "first", current |-> None, next |-> None]
      /\ interrupted' = FALSE /\ ignored' = 0
      /\ UNCHANGED <<queue, spoken, left>>
  BY DEF StartStream, StartTurn
<1>2. /\ turn \in Nat /\ turn + 1 \in Turns
      /\ prefetch \in [Turns -> Threads]
  BY <1>1, TurnsAssumption DEF SInv, IInv, TypeOK, OwnInv, OwnTypes, Turns, Threads
<1>3. /\ prefetch[turn + 1] = [pc |-> "unborn", made |-> 0]
      /\ queue[turn + 1] = <<>> /\ spoken[turn + 1] = <<>>
  BY <1>2 DEF SInv, OwnInv, Unbegun
<1>4. /\ prefetch' \in [Turns -> Threads]
      /\ prefetch'[turn + 1].pc = "produce" /\ prefetch'[turn + 1].made = 0
      /\ \A t \in Turns \ {turn + 1} : prefetch'[t] = prefetch[t]
  BY <1>1, <1>2, <1>3 DEF Threads
<1>5. OwnTypes'
  BY <1>1, <1>4 DEF SInv, OwnInv, OwnTypes, Places, Threads
<1>6. PlacesAgree' /\ SpokenInOrder' /\ Heeded'
  BY <1>1 DEF SInv, OwnInv, PlacesAgree, SpokenInOrder, Heeded
<1>7. Unbegun'
  BY <1>1, <1>2, <1>4 DEF SInv, OwnInv, Unbegun, Turns
<1>8. AllSpoken'
  <2>1. reader.at = "idle"
    BY <1>1 DEF SInv, OwnInv, PlacesAgree
  <2> QED
    BY <1>1, <1>2, <1>4, <2>1 DEF SInv, OwnInv, AllSpoken, Exhausted, Turns
<1>9. InHand'
  BY <1>1, <1>3 DEF InHand, None
<1>10. AllFetched'
  <2>1. Fetched' = 0
    BY <1>1 DEF Fetched, None
  <2>2. Continues(prefetch'[turn + 1], <<>>, 0)
    BY <1>4 DEF Continues
  <2>3. QueueContinues'
    BY <1>1, <1>3, <2>1, <2>2 DEF QueueContinues
  <2> QED
    BY <1>1, <2>3 DEF AllFetched, Reading
<1> QED
  BY <1>5, <1>6, <1>7, <1>8, <1>9, <1>10 DEF OwnInv, Loop

LEMMA InitSInv == StreamInit => SInv
<1> SUFFICES ASSUME StreamInit PROVE SInv
  OBVIOUS
<1>1. IInv
  BY InitIInv DEF StreamInit
<1>2. OwnTypes
  <2>1. [pc |-> "unborn", made |-> 0] \in Threads
    BY ChunksAssumption DEF Threads
  <2>2. <<>> \in Seq(Chunks \union {None}) /\ <<>> \in Seq(Chunks) /\ Len(<<>>) <= QueueSize
    BY QueueAssumption
  <2>3. /\ prefetch \in [Turns -> Threads]
        /\ queue \in [Turns -> Seq(Chunks \union {None})]
        /\ \A t \in Turns : Len(queue[t]) <= QueueSize
        /\ spoken \in [Turns -> Seq(Chunks)]
    BY <2>1, <2>2 DEF StreamInit
  <2> QED
    BY <2>3 DEF StreamInit, OwnTypes, Threads, Places
<1>3. turn = 0 /\ main.pc = "idle" /\ ~main.last /\ turn \notin Turns
  BY DEF StreamInit, Init, Turns
<1>4. PlacesAgree /\ Unbegun /\ SpokenInOrder /\ Heeded
  BY <1>3 DEF StreamInit, PlacesAgree, Unbegun, SpokenInOrder, Heeded
<1>5. Loop /\ AllSpoken
  BY <1>3 DEF Loop, AllSpoken, Turns
<1> QED
  BY <1>1, <1>2, <1>4, <1>5 DEF SInv, OwnInv

-----------------------------------------------------------------------------
\* The invariant of the stream is inductive: its heartbeat part because its steps are
\* steps of the heartbeat.
THEOREM StreamInvariant == StreamSpec => []SInv
<1>1. SInv /\ [StreamNext]_allVars => SInv'
  <2> SUFFICES ASSUME SInv, [StreamNext]_allVars PROVE SInv'
    OBVIOUS
  <2>1. IInv'
    BY StreamStepIsHeartbeatStep, MainSteps, BeatSteps DEF SInv, Next
  <2>2. OwnInv'
    <3>1. CASE MainStep
      BY <3>1, FetchFirstKeepsOwn, LookAheadKeepsOwn, TestsKeepOwn, SpeakKeepsOwn,
         FinishKeepsOwn, HeartbeatStepsKeepOwn DEF MainStep
    <3>2. CASE StartStream \/ RequestInterrupt
      BY <3>2, StartKeepsOwn, InterruptKeepsOwn
    <3>3. CASE \/ \E t \in Turns : BeatStep(t) /\ UNCHANGED streamVars
               \/ (SpeakBegins \/ StopPlayback) /\ UNCHANGED streamVars
               \/ FirstAudio
               \/ UNCHANGED allVars
      BY <3>3, HeartbeatStepsKeepOwn
    <3>4. CASE \E t \in Turns : PrefetchStep(t)
      BY <3>4, ProduceKeepsOwn, PutKeepsOwn DEF PrefetchStep
    <3> QED
      BY <3>1, <3>2, <3>3, <3>4 DEF StreamNext
  <2> QED
    BY <2>1, <2>2 DEF SInv
<1> QED
  BY InitSInv, <1>1, PTL DEF StreamSpec

\* Every variable of the stream and its heartbeat keeps its type; the queue never
\* exceeds its size.
THEOREM StreamTypeCorrect == StreamSpec => []StreamTypeOK
<1>1. SInv => StreamTypeOK
  BY DEF SInv, IInv, OwnInv, OwnTypes, StreamTypeOK
<1> QED
  BY StreamInvariant, <1>1, PTL

\* The chunks of a reply are spoken in order, each once, and all of them unless the
\* loop was broken off or its wait ran out.
THEOREM ChunksAreKept == StreamSpec => []ChunksKept
<1>1. SInv => ChunksKept
  <2> SUFFICES ASSUME SInv PROVE ChunksKept
    OBVIOUS
  <2>1. SpokenInOrder
    BY DEF SInv, OwnInv
  <2>2. main.pc = "idle" => reader.at = "idle"
    BY DEF SInv, OwnInv, PlacesAgree
  <2>3. \A t \in Turns : IsOver(t) /\ t \notin left => Len(spoken[t]) = prefetch[t].made
    BY <2>2 DEF SInv, OwnInv, AllSpoken, Exhausted, IsOver
  <2> QED
    BY <2>1, <2>3 DEF ChunksKept, SpokenInOrder
<1> QED
  BY StreamInvariant, <1>1, PTL

\* An interrupt is overheard by at most one chunk: the test after it sees the request.
THEOREM OneChunkAtMost == StreamSpec => []OneChunkAfterInterrupt
<1>1. SInv => OneChunkAfterInterrupt
  BY DEF SInv, OwnInv, Heeded, OneChunkAfterInterrupt
<1> QED
  BY StreamInvariant, <1>1, PTL
===============================================================================
