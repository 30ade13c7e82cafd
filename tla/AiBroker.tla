------------------------------- MODULE AiBroker -------------------------------
(***************************************************************************)
(* modules/runtime/ai_broker/service.py (AiBrokerService): which mode the  *)
(* assistant's heavy AI work is in.  A transition first gives the camera's *)
(* object detection the mode's cadence and then, under the broker's lock,  *)
(* stores the snapshot that names the mode: two steps, between which other *)
(* threads may take theirs.  Failures of the camera are recorded in the    *)
(* snapshot and change nothing else; the deadline of the recovery window   *)
(* may pass at any time.  Every caller lets the window return to the idle  *)
(* baseline, so _recovery_return_mode is no variable.                      *)
(***************************************************************************)
EXTENDS Sequences

VARIABLES
  lane,       \* the mode whose cadence the object detection was given last
  published   \* _snapshot.mode

brokerVars == <<lane, published>>

BrokerModes == {"idle_baseline", "conversation_answer", "vision_action",
                "focus_sentinel", "recovery_window"}

BrokerTypeOK == lane \in BrokerModes /\ published \in BrokerModes

\* The boot's transition to the baseline is over before any command.
BrokerInit == lane = "idle_baseline" /\ published = "idle_baseline"

BrokerSteps == {"lane", "published"} \X BrokerModes

\* _transition, in the order its thread takes the steps.
Transition(m) == << <<"lane", m>>, <<"published", m>> >>

\* A step of a transition to m, by whichever thread.
BrokerStep(what, m) ==
  \/ /\ what = "lane"
     /\ lane' = m
     /\ UNCHANGED published
  \/ /\ what = "published"
     /\ published' = m
     /\ UNCHANGED lane

\* A turn that answers or looks: its mode for as long as it lasts, then, whatever
\* happened in it, the recovery window.
TurnSteps(m) == Transition(m) \o Transition("recovery_window")

\* tick(): the window is open by the snapshot, and its deadline has passed.
WindowOver == published = "recovery_window"
=============================================================================
