------------------------------- MODULE Teleop -------------------------------
(***************************************************************************)
(* The joystick teleoperation node (xtark_teleop_joy.py).  rospy runs      *)
(* buttonCallback in a thread of its own, loop() is the 20 Hz loop that    *)
(* __init__ never leaves.  Both publish the same Twist object self.velocity *)
(* on /cmd_vel; Publisher.publish takes the publisher's lock, serialises   *)
(* the object and queues the word.  Velocities are abstracted to the parts *)
(* of the Twist that are not zero.  What goes out on /push_button is the   *)
(* input of module Hfsm.                                                   *)
(***************************************************************************)
EXTENDS Integers

VARIABLES
  velocity,  \* self.velocity: the parts that are not zero
  active,    \* self.active
  enable,    \* self.enable
  joy,       \* the message buttonCallback is at work on, or worked on last
  cb,        \* where buttonCallback is
  lp,        \* where loop() is
  word,      \* the part of the Twist that loop() has serialised
  last,      \* the last word this node has queued on /cmd_vel
  stray      \* history: words loop() has queued since enable was reset

teleopVars == <<velocity, active, enable, joy, cb, lp, word, last, stray>>

Parts == {"linear", "angular"}

\* A message with the dead-man button (4) says how the sticks stand, one without
\* it which buttons are pressed: X (stop), Y (unlock), A and B ("step"), and
\* whether button 5 gives these four their second meaning.
Held == [held : {TRUE}, sticks : SUBSET Parts]
Released == [held : {FALSE}, shift : BOOLEAN, keys : SUBSET {"stop", "unlock"}]
Messages == Held \cup Released
NoKeys == [held |-> FALSE, shift |-> FALSE, keys |-> {}]

HoldPcs == {"hold_linear", "hold_angular", "hold_active"}
ReleasePcs == {"free_linear", "free_angular", "free_active", "publish", "buttons"}

TeleopTypeOK ==
  /\ velocity \subseteq Parts
  /\ active \in BOOLEAN /\ enable \in BOOLEAN
  /\ joy \in Messages
  /\ cb \in {"idle"} \cup (IF joy.held THEN HoldPcs ELSE ReleasePcs)
  /\ lp \in {"active", "enable", "publish", "linear", "angular", "queue"}
  /\ word \subseteq Parts /\ last \subseteq Parts
  /\ stray \in 0..2

TeleopInit ==
  /\ velocity = {} /\ active = FALSE /\ enable = FALSE
  /\ joy = NoKeys /\ cb = "idle"
  /\ lp = "active" /\ word = {}
  /\ last = {} /\ stray = 0

-----------------------------------------------------------------------------
\* buttonCallback

Joy ==
  /\ cb = "idle"
  /\ joy' \in Messages
  /\ cb' = IF joy'.held THEN "hold_linear" ELSE "free_linear"
  /\ UNCHANGED <<velocity, active, enable, lp, word, last, stray>>

\* One part of self.velocity is assigned, at label from.
Assign(from, to, part, parts) ==
  /\ cb = from
  /\ cb' = to
  /\ velocity' = (velocity \ {part}) \cup ({part} \cap parts)
  /\ UNCHANGED <<active, enable, joy, lp, word, last, stray>>

HoldLinear == Assign("hold_linear", "hold_angular", "linear", joy.sticks)
HoldAngular == Assign("hold_angular", "hold_active", "angular", joy.sticks)
FreeLinear == Assign("free_linear", "free_angular", "linear", {})
FreeAngular == Assign("free_angular", "free_active", "angular", {})

\* The callback of a held message ends here: its stop button is not looked at.
SetActive ==
  /\ cb \in {"hold_active", "free_active"}
  /\ active' = joy.held
  /\ cb' = IF joy.held THEN "idle" ELSE "publish"
  /\ UNCHANGED <<velocity, enable, joy, lp, word, last, stray>>

\* loop() holds the publisher's lock.
Locked == lp \in {"linear", "angular", "queue"}

\* Mutant of PublishZero: publish without the publisher's lock.
PublishUnlocked ==
  /\ cb = "publish"
  /\ last' = velocity
  /\ cb' = "buttons"
  /\ UNCHANGED <<velocity, active, enable, joy, lp, word, stray>>

\* Lock, serialise and queue are one step: only this thread changes velocity.
PublishZero ==
  /\ cb = "publish" /\ ~Locked
  /\ last' = velocity
  /\ cb' = "buttons"
  /\ UNCHANGED <<velocity, active, enable, joy, lp, word, stray>>

\* The loop over buttons 0 to 3: with both keys, unlock (3) comes after stop (2).
Buttons ==
  /\ cb = "buttons"
  /\ enable' = IF joy.shift \/ joy.keys = {} THEN enable ELSE "unlock" \in joy.keys
  /\ stray' = IF enable' THEN 0 ELSE stray
  /\ cb' = "idle"
  /\ UNCHANGED <<velocity, active, joy, lp, word, last>>

Callback ==
  \/ HoldLinear \/ HoldAngular \/ SetActive
  \/ FreeLinear \/ FreeAngular \/ PublishZero \/ Buttons

-----------------------------------------------------------------------------
\* loop(): active == 1 & enable == 1 reads active, then enable

TestActive ==
  /\ lp = "active" /\ active
  /\ lp' = "enable"
  /\ UNCHANGED <<velocity, active, enable, joy, cb, word, last, stray>>

\* Mutant of TestEnable: the loop looks at active only.
EnableNotTested ==
  /\ lp = "enable"
  /\ lp' = "publish"
  /\ UNCHANGED <<velocity, active, enable, joy, cb, word, last, stray>>

TestEnable ==
  /\ lp = "enable"
  /\ lp' = IF enable THEN "publish" ELSE "active"
  /\ UNCHANGED <<velocity, active, enable, joy, cb, word, last, stray>>

Lock ==
  /\ lp = "publish"
  /\ lp' = "linear"
  /\ word' = {}
  /\ UNCHANGED <<velocity, active, enable, joy, cb, last, stray>>

\* The callback may change the object between the two.
Serialise(part, to) ==
  /\ lp = part
  /\ lp' = to
  /\ word' = word \cup ({part} \cap velocity)
  /\ UNCHANGED <<velocity, active, enable, joy, cb, last, stray>>

SerialiseLinear == Serialise("linear", "angular")
SerialiseAngular == Serialise("angular", "queue")

Queue ==
  /\ lp = "queue"
  /\ lp' = "active"
  /\ last' = word
  /\ stray' = IF enable \/ stray = 2 THEN stray ELSE stray + 1
  /\ UNCHANGED <<velocity, active, enable, joy, cb, word>>

Loop ==
  \/ TestActive \/ TestEnable \/ Lock
  \/ SerialiseLinear \/ SerialiseAngular \/ Queue

TeleopNext == Joy \/ Callback \/ Loop

TeleopSpec == TeleopInit /\ [][TeleopNext]_teleopVars

-----------------------------------------------------------------------------
\* Once the release of the dead-man button has been dealt with, a zero velocity
\* is this node's last word on /cmd_vel, whatever the loop had read or begun to
\* serialise before.
ReleasedMeansZero == (cb = "idle" /\ ~joy.held) => last = {}

\* After a stop and until an unlock the loop queues at most one more word, the
\* one it was about to publish when the stop came.
StrayAtMostOnce == stray <= 1
=============================================================================
