------------------------------ MODULE JoyNode ------------------------------
(***************************************************************************)
(* The joystick driver (joy_node): it opens the pad, reads the kernel's    *)
(* events and publishes the pad's state on the topic joy.  A button that   *)
(* changes is published at once; the events with which the kernel          *)
(* describes the pad on opening, and the axes, are collected until a timer *)
(* in select() expires.  One button (the dead-man button of Teleop) and    *)
(* one stick stand for all of them; parameters as in joy.launch, that is,  *)
(* default_trig_val and sticky_buttons are off.  The kernel is external.   *)
(***************************************************************************)
EXTENDS Integers, Sequences

CONSTANTS
  AutoRepeat,  \* autorepeat_rate > 0 (0 in joy.launch)
  MaxEvents    \* bound: events in the kernel's buffer

ASSUME AutoRepeatAssumption == AutoRepeat \in BOOLEAN
ASSUME MaxEventsAssumption == MaxEvents \in Nat /\ MaxEvents >= 2

VARIABLES
  pad,        \* the pad: plugged in, button pressed, stick away from its centre
  fd,         \* joy_fd: closed, live, or dead once the pad it was opened on is gone
  events,     \* what the kernel has buffered for joy_fd
  joy_msg,    \* joy_msg, reset when the device is opened
  pending,    \* publication_pending
  tv_set,     \* a timer is set
  published   \* the last message on joy

joyVars == <<pad, fd, events, joy_msg, pending, tv_set, published>>

Events == [kind : {"button", "axis"}, init : BOOLEAN, value : BOOLEAN]
Message == [button : BOOLEAN, axis : BOOLEAN]
Rest == [button |-> FALSE, axis |-> FALSE]

JoyTypeOK ==
  /\ pad \in [plugged : BOOLEAN, button : BOOLEAN, axis : BOOLEAN]
  /\ fd \in {"closed", "live", "dead"}
  /\ events \in Seq(Events) /\ Len(events) <= MaxEvents
  /\ joy_msg \in Message /\ published \in Message
  /\ pending \in BOOLEAN /\ tv_set \in BOOLEAN

JoyInit ==
  /\ pad \in [plugged : {FALSE}, button : BOOLEAN, axis : BOOLEAN]
  /\ fd = "closed" /\ events = <<>>
  /\ joy_msg = Rest /\ pending = FALSE /\ tv_set = FALSE
  /\ published = Rest

-----------------------------------------------------------------------------
\* The operator and the kernel

Move(kind) ==
  /\ Len(events) < MaxEvents
  /\ pad' = [pad EXCEPT ![kind] = ~@]
  /\ events' = IF fd = "live"
                 THEN Append(events, [kind |-> kind, init |-> FALSE, value |-> ~pad[kind]])
                 ELSE events
  /\ UNCHANGED <<fd, joy_msg, pending, tv_set, published>>

\* The kernel discards what was not read when the pad goes.
PlugOrUnplug ==
  /\ pad' = [pad EXCEPT !.plugged = ~@]
  /\ fd' = IF fd = "live" THEN "dead" ELSE fd
  /\ events' = <<>>
  /\ UNCHANGED <<joy_msg, pending, tv_set, published>>

Operator == PlugOrUnplug \/ Move("button") \/ Move("axis")

-----------------------------------------------------------------------------
\* The driver

\* open() succeeds; the kernel describes the pad with one event for each part.
Open ==
  /\ fd = "closed" /\ pad.plugged
  /\ fd' = "live"
  /\ events' = <<[kind |-> "axis", init |-> TRUE, value |-> pad.axis],
                 [kind |-> "button", init |-> TRUE, value |-> pad.button]>>
  /\ joy_msg' = Rest
  /\ pending' = FALSE /\ tv_set' = FALSE
  /\ UNCHANGED <<pad, published>>

\* Mutant of Apply: the position of no part on opening is believed.
ApplyNoInit(e) == IF e.init THEN joy_msg ELSE [joy_msg EXCEPT ![e.kind] = e.value]

\* joy_msg after event e: a stick's position on opening is not believed.
Apply(e) ==
  IF e.kind = "axis" /\ e.init THEN joy_msg ELSE [joy_msg EXCEPT ![e.kind] = e.value]

\* The end of the loop body, after a message m was published or not.
PublishJoy(m) ==
  /\ published' = m
  /\ pending' = FALSE
  /\ tv_set' = AutoRepeat

\* publish_soon: the first such event sets the timer.
Collect(e) ==
  /\ pending' = TRUE
  /\ tv_set' = TRUE
  /\ UNCHANGED published

\* select() finds joy_fd readable and read() yields an event.
Read ==
  /\ fd = "live" /\ events # <<>>
  /\ LET e == Head(events) IN
     /\ joy_msg' = Apply(e)
     /\ IF e.kind = "button" /\ ~e.init THEN PublishJoy(joy_msg') ELSE Collect(e)
  /\ events' = Tail(events)
  /\ UNCHANGED <<pad, fd>>

\* select() returns with nothing to read: the time has elapsed.  An event that
\* comes meanwhile is read first, as select() reports it.
TimerExpires ==
  /\ fd = "live" /\ events = <<>>
  /\ tv_set
  /\ PublishJoy(joy_msg)
  /\ UNCHANGED <<pad, fd, events, joy_msg>>

\* read() fails: the pad is gone, or was.  Nothing is published.
Lost ==
  /\ fd = "dead"
  /\ fd' = "closed"
  /\ UNCHANGED <<pad, events, joy_msg, pending, tv_set, published>>

Driver == Open \/ Read \/ TimerExpires \/ Lost

JoyNext == Operator \/ Driver

JoySpec == JoyInit /\ [][JoyNext]_joyVars

FairJoySpec == JoySpec /\ WF_joyVars(Driver)

-----------------------------------------------------------------------------
\* When the operator leaves a plugged pad alone, the last message shows the
\* button as it is, also after the pad was unplugged with the button pressed,
\* and no stick that is centred as pushed.
LastStatePublished ==
  (<>[](pad.plugged) /\ <>[][FALSE]_pad)
    => <>[](published.button = pad.button /\ (published.axis => pad.axis))
=============================================================================
