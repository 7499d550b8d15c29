--------------------------- MODULE JoyDriveProofs ---------------------------
(* Theorems about the way from the joystick to the wheels: the driver of    *)
(* the pad, for any size of the kernel's buffer, the teleoperation node,    *)
(* for every order of its two threads, and /cmd_vel, for any publishers,    *)
(* any length of the queue and of the filter and any modes.                 *)
EXTENDS JoyNode, Teleop, Drive, TLAPS, SequenceTheorems

-----------------------------------------------------------------------------
\* The teleoperation node

\* A release takes the parts of the velocity back one by one; from its
\* publication on, a word that loop() has begun to serialise is zero as well.
Zeroed ==
  ~joy.held =>
    /\ cb \in {"idle", "free_angular", "free_active", "publish", "buttons"}
         => "linear" \notin velocity
    /\ cb \in {"idle", "free_active", "publish", "buttons"} => "angular" \notin velocity
    /\ cb \in {"idle", "buttons"} => last = {} /\ (Locked => word = {})

\* loop() is past its test.
Passed == lp \in {"publish", "linear", "angular", "queue"}

\* While enable is reset the loop has either queued its one word or is past its
\* test, not both.
Muzzled ==
  /\ enable => stray = 0
  /\ ~enable => stray <= 1 /\ (Passed => stray = 0)

LEMMA MessageShape == \A m \in Messages : /\ m.held \in BOOLEAN
                                          /\ m.held => m.sticks \subseteq Parts
                                          /\ ~m.held => m.keys \subseteq {"stop", "unlock"}
  BY DEF Messages, Held, Released

LEMMA TeleopTypeInit == TeleopInit => TeleopTypeOK
  <1>1. NoKeys \in Messages  BY DEF NoKeys, Messages, Released
  <1>2. SUFFICES ASSUME TeleopInit PROVE TeleopTypeOK
    OBVIOUS
  <1>3. joy \in Messages /\ cb \in {"idle"} \cup (IF joy.held THEN HoldPcs ELSE ReleasePcs)
    BY <1>1, <1>2 DEF TeleopInit
  <1>4. velocity \subseteq Parts /\ word \subseteq Parts /\ last \subseteq Parts
    BY <1>2 DEF TeleopInit
  <1>5. stray \in 0..2 /\ lp = "active"
    BY <1>2 DEF TeleopInit
  <1>6. active \in BOOLEAN /\ enable \in BOOLEAN
    BY <1>2 DEF TeleopInit
  <1> QED  BY <1>3, <1>4, <1>5, <1>6 DEF TeleopTypeOK

LEMMA TeleopTypeStep == TeleopTypeOK /\ [TeleopNext]_teleopVars => TeleopTypeOK'
  <1> SUFFICES ASSUME TeleopTypeOK, [TeleopNext]_teleopVars PROVE TeleopTypeOK'
    OBVIOUS
  <1> USE MessageShape DEF TeleopTypeOK, HoldPcs, ReleasePcs
  <1>1. CASE Joy
    BY <1>1 DEF Joy
  <1>2. CASE HoldLinear
    BY <1>2 DEF HoldLinear, Assign, Parts
  <1>3. CASE HoldAngular
    BY <1>3 DEF HoldAngular, Assign, Parts
  <1>4. CASE FreeLinear
    BY <1>4 DEF FreeLinear, Assign, Parts
  <1>5. CASE FreeAngular
    BY <1>5 DEF FreeAngular, Assign, Parts
  <1>6. CASE SetActive
    BY <1>6 DEF SetActive
  <1>7. CASE PublishZero
    BY <1>7 DEF PublishZero
  <1>8. CASE Buttons
    <2>1. enable' \in BOOLEAN
      <3>1. enable' = enable \/ enable' = ("unlock" \in joy.keys)
        BY <1>8, Zenon DEF Buttons
      <3>2. ("unlock" \in joy.keys) \in BOOLEAN
        OBVIOUS
      <3> QED  BY <3>1, <3>2, Zenon
    <2>2. stray' \in 0..2
      BY <1>8 DEF Buttons
    <2> QED  BY <1>8, <2>1, <2>2 DEF Buttons
  <1>9. CASE TestActive \/ TestEnable
    BY <1>9 DEF TestActive, TestEnable
  <1>10. CASE Lock
    BY <1>10 DEF Lock
  <1>11. CASE SerialiseLinear \/ SerialiseAngular
    BY <1>11 DEF SerialiseLinear, SerialiseAngular, Serialise
  <1>12. CASE Queue
    BY <1>12 DEF Queue
  <1>13. CASE UNCHANGED teleopVars
    BY <1>13 DEF teleopVars
  <1> QED
    BY <1>1, <1>2, <1>3, <1>4, <1>5, <1>6, <1>7, <1>8, <1>9, <1>10, <1>11, <1>12, <1>13
       DEF TeleopNext, Callback, Loop

\* The types of the node's state hold in every behaviour.
THEOREM TeleopTypeCorrect == TeleopSpec => []TeleopTypeOK
  BY TeleopTypeInit, TeleopTypeStep, PTL DEF TeleopSpec

LEMMA ZeroedStep == TeleopTypeOK /\ Zeroed /\ [TeleopNext]_teleopVars => Zeroed'
  <1> SUFFICES ASSUME TeleopTypeOK, Zeroed, [TeleopNext]_teleopVars PROVE Zeroed'
    OBVIOUS
  <1> USE DEF TeleopTypeOK, Zeroed, Locked
  <1>1. CASE Joy
    BY <1>1 DEF Joy
  <1>2. CASE HoldLinear \/ HoldAngular
    BY <1>2 DEF HoldLinear, HoldAngular, Assign, HoldPcs, ReleasePcs
  <1>3. CASE FreeLinear
    BY <1>3 DEF FreeLinear, Assign
  <1>4. CASE FreeAngular
    BY <1>4 DEF FreeAngular, Assign
  <1>5. CASE SetActive
    BY <1>5 DEF SetActive, HoldPcs, ReleasePcs
  <1>6. CASE PublishZero
    BY <1>6 DEF PublishZero, HoldPcs, ReleasePcs, Parts
  <1>7. CASE Buttons
    BY <1>7 DEF Buttons
  <1>8. CASE TestActive \/ TestEnable
    BY <1>8 DEF TestActive, TestEnable
  <1>9. CASE Lock
    BY <1>9 DEF Lock
  <1>10. CASE SerialiseLinear \/ SerialiseAngular
    BY <1>10 DEF SerialiseLinear, SerialiseAngular, Serialise
  <1>11. CASE Queue
    BY <1>11 DEF Queue
  <1>12. CASE UNCHANGED teleopVars
    BY <1>12 DEF teleopVars
  <1> QED
    BY <1>1, <1>2, <1>3, <1>4, <1>5, <1>6, <1>7, <1>8, <1>9, <1>10, <1>11, <1>12
       DEF TeleopNext, Callback, Loop

\* ReleasedMeansZero for every interleaving of the callback and the loop.
THEOREM ReleasedMeansZeroHolds == TeleopSpec => []ReleasedMeansZero
  <1>1. TeleopInit => Zeroed
    BY DEF TeleopInit, Zeroed, Locked
  <1>2. TeleopTypeOK /\ Zeroed => ReleasedMeansZero
    BY DEF Zeroed, ReleasedMeansZero
  <1> QED
    BY <1>1, <1>2, TeleopTypeInit, TeleopTypeStep, ZeroedStep, PTL DEF TeleopSpec

LEMMA MuzzledStep == TeleopTypeOK /\ Muzzled /\ [TeleopNext]_teleopVars => Muzzled'
  <1> SUFFICES ASSUME TeleopTypeOK, Muzzled, [TeleopNext]_teleopVars PROVE Muzzled'
    OBVIOUS
  <1> USE DEF TeleopTypeOK, Muzzled, Passed
  <1>1. CASE Joy \/ PublishZero \/ SetActive
    BY <1>1 DEF Joy, PublishZero, SetActive
  <1>2. CASE HoldLinear \/ HoldAngular \/ FreeLinear \/ FreeAngular
    BY <1>2 DEF HoldLinear, HoldAngular, FreeLinear, FreeAngular, Assign
  <1>3. CASE Buttons
    BY <1>3 DEF Buttons
  <1>4. CASE TestActive \/ TestEnable \/ Lock
    BY <1>4 DEF TestActive, TestEnable, Lock
  <1>5. CASE SerialiseLinear \/ SerialiseAngular
    BY <1>5 DEF SerialiseLinear, SerialiseAngular, Serialise
  <1>6. CASE Queue
    BY <1>6 DEF Queue
  <1>7. CASE UNCHANGED teleopVars
    BY <1>7 DEF teleopVars
  <1> QED
    BY <1>1, <1>2, <1>3, <1>4, <1>5, <1>6, <1>7 DEF TeleopNext, Callback, Loop

\* StrayAtMostOnce for every interleaving of the callback and the loop.
THEOREM StrayAtMostOnceHolds == TeleopSpec => []StrayAtMostOnce
  <1>1. TeleopInit => Muzzled
    BY DEF TeleopInit, Muzzled, Passed
  <1>2. TeleopTypeOK /\ Muzzled => StrayAtMostOnce
    BY DEF TeleopTypeOK, Muzzled, StrayAtMostOnce
  <1> QED
    BY <1>1, <1>2, TeleopTypeInit, TeleopTypeStep, MuzzledStep, PTL DEF TeleopSpec

-----------------------------------------------------------------------------
\* From /cmd_vel to the wheels

USE QueueSizeAssumption, WindowAssumption, DriveModesAssumption

Words == SUBSET TwistParts

\* The queue after a word has been received: never longer than QueueSize, and
\* ending with that word.
LEMMA EnqueueKeeps ==
  ASSUME NEW q \in Seq(Words), Len(q) <= QueueSize, NEW w \in Words
  PROVE  /\ Enqueue(q, w) \in Seq(Words)
         /\ Len(Enqueue(q, w)) <= QueueSize
         /\ Enqueue(q, w) # <<>>
         /\ Enqueue(q, w)[Len(Enqueue(q, w))] = w
  <1>1. CASE Len(q) = QueueSize
    <2>1. q # <<>>
      BY <1>1
    <2>2. Tail(q) \in Seq(Words) /\ Len(Tail(q)) = Len(q) - 1
      BY <2>1
    <2>3. Enqueue(q, w) = Append(Tail(q), w)
      BY <1>1 DEF Enqueue
    <2> QED  BY <1>1, <2>2, <2>3
  <1>2. CASE Len(q) # QueueSize
    <2>1. Enqueue(q, w) = Append(q, w)
      BY <1>2 DEF Enqueue
    <2> QED  BY <1>2, <2>1
  <1> QED  BY <1>1, <1>2

\* Taking the first word leaves the last one, if there is another.
LEMMA TakeKeeps ==
  ASSUME NEW q \in Seq(Words), q # <<>>
  PROVE  /\ Head(q) \in Words
         /\ Tail(q) \in Seq(Words)
         /\ Len(Tail(q)) = Len(q) - 1
         /\ Tail(q) = <<>> => Head(q) = q[Len(q)]
         /\ Tail(q) # <<>> => Tail(q)[Len(Tail(q))] = q[Len(q)]
  <1>1. Len(q) \in Nat /\ Len(q) >= 1 /\ Head(q) = q[1]
    BY EmptySeq
  <1>2. Tail(q) \in Seq(Words) /\ Len(Tail(q)) = Len(q) - 1
    BY HeadTailProperties
  <1>3. \A i \in 1..Len(Tail(q)) : Tail(q)[i] = q[i + 1]
    BY HeadTailProperties
  <1>4. Tail(q) = <<>> => Len(q) = 1
    <2>1. Tail(q) = <<>> => Len(Tail(q)) = 0
      BY <1>2, EmptySeq
    <2> QED  BY <2>1, <1>2, <1>1
  <1>5. Tail(q) # <<>> => Len(q) > 1
    BY <1>2, <1>1
  <1> QED  BY <1>1, <1>2, <1>3, <1>4, <1>5

LEMMA DriveTypeInit == DriveInit => DriveTypeOK
  <1> SUFFICES ASSUME DriveInit PROVE DriveTypeOK
    OBVIOUS
  <1>1. queue \in Seq(SUBSET TwistParts) /\ Len(queue) <= QueueSize
    BY DEF DriveInit
  <1>2. moving \subseteq Publishers /\ heard \in BOOLEAN /\ msg \subseteq TwistParts /\ xyw_cmd \subseteq TwistParts
    BY DEF DriveInit
  <1>3. lag \in 0..Window
    BY DEF DriveInit
  <1>4. command \in BOOLEAN /\ dac \in BOOLEAN
    BY DEF DriveInit
  <1> QED  BY <1>1, <1>2, <1>3, <1>4 DEF DriveInit, DriveTypeOK

LEMMA DriveTypeStep == DriveTypeOK /\ [DriveNext]_driveVars => DriveTypeOK'
  <1> SUFFICES ASSUME DriveTypeOK, [DriveNext]_driveVars PROVE DriveTypeOK'
    OBVIOUS
  <1> USE DEF DriveTypeOK
  <1>1. ASSUME NEW p \in Publishers, NEW w \in SUBSET TwistParts, Publish(p, w)
        PROVE  DriveTypeOK'
    <2>1. queue' \in Seq(SUBSET TwistParts) /\ Len(queue') <= QueueSize
      BY <1>1, EnqueueKeeps DEF Publish, Words
    <2> QED  BY <1>1, <2>1 DEF Publish
  <1>2. CASE Take
    <2>1. queue' \in Seq(SUBSET TwistParts) /\ Len(queue') <= QueueSize /\ msg' \subseteq TwistParts
      BY <1>2, TakeKeeps DEF Take, Words
    <2> QED  BY <1>2, <2>1 DEF Take
  <1>3. CASE StoreLinear \/ StoreAngular
    BY <1>3 DEF StoreLinear, StoreAngular, Store
  <1>4. CASE Update
    <2>1. lag' \in 0..Window
      BY <1>4 DEF Update
    <2>2. command' \in BOOLEAN
      BY <1>4 DEF Update
    <2> QED  BY <1>4, <2>1, <2>2 DEF Update
  <1>5. CASE WriteSwitch \/ WriteCase \/ SetStatus
    BY <1>5 DEF WriteSwitch, WriteCase, SetStatus
  <1>6. CASE UNCHANGED driveVars
    BY <1>6 DEF driveVars
  <1> QED
    BY <1>1, <1>2, <1>3, <1>4, <1>5, <1>6 DEF DriveNext, Subscriber, MainLoop

\* The types of the controller's state hold in every behaviour.
THEOREM DriveTypeCorrect == DriveSpec => []DriveTypeOK
  BY DriveTypeInit, DriveTypeStep, PTL DEF DriveSpec

LEMMA LastWordStep == DriveTypeOK /\ LastWordCounts /\ [DriveNext]_driveVars => LastWordCounts'
  <1> SUFFICES ASSUME DriveTypeOK, LastWordCounts, [DriveNext]_driveVars, heard', moving' = {}
               PROVE  Newest' = {}
    BY DEF LastWordCounts
  <1> USE DEF DriveTypeOK, Newest
  <1>1. ASSUME NEW p \in Publishers, NEW w \in SUBSET TwistParts, Publish(p, w)
        PROVE  Newest' = {}
    <2>1. w = {}
      BY <1>1 DEF Publish
    <2>2. queue' # <<>> /\ queue'[Len(queue')] = w
      BY <1>1, EnqueueKeeps DEF Publish, Words
    <2> QED  BY <2>1, <2>2
  <1>2. CASE Take
    <2>1. heard /\ moving = {} /\ Newest = {}
      BY <1>2 DEF Take, LastWordCounts
    <2>2. queue[Len(queue)] = {}
      BY <1>2, <2>1 DEF Take
    <2>3. queue' = <<>> => msg' = {}
      BY <1>2, <2>2, TakeKeeps DEF Take, Words
    <2>4. queue' # <<>> => queue'[Len(queue')] = {}
      BY <1>2, <2>2, TakeKeeps DEF Take, Words
    <2> QED  BY <1>2, <2>3, <2>4 DEF Take
  <1>3. CASE StoreLinear
    BY <1>3 DEF StoreLinear, Store, LastWordCounts, TwistParts
  <1>4. CASE StoreAngular
    BY <1>4 DEF StoreAngular, Store, LastWordCounts, TwistParts
  <1>5. CASE Update \/ WriteSwitch \/ WriteCase \/ SetStatus \/ UNCHANGED driveVars
    BY <1>5 DEF Update, WriteSwitch, WriteCase, SetStatus, driveVars, LastWordCounts
  <1> QED
    BY <1>1, <1>2, <1>3, <1>4, <1>5 DEF DriveNext, Subscriber, MainLoop

\* LastWordCounts for any number of publishers and any length of the queue.
THEOREM LastWordCountsHolds == DriveSpec => []LastWordCounts
  <1>1. DriveInit => LastWordCounts
    BY DEF DriveInit, LastWordCounts, Newest
  <1> QED
    BY <1>1, DriveTypeInit, DriveTypeStep, LastWordStep, PTL DEF DriveSpec

-----------------------------------------------------------------------------
\* ComesToRest.  From here on every publisher's last word is zero.
Hushed == heard /\ moving = {}

\* No word after the n-th drives.
ZeroIn(q, n) == \A i \in 1..Len(q) : q[i] # {} => i <= n
ZeroAfter(n) == ZeroIn(queue, n)

LEMMA ZeroAppended ==
  ASSUME NEW q \in Seq(Words), NEW n \in Nat, ZeroIn(q, n)
  PROVE  ZeroIn(Append(q, {}), n)
  <1> DEFINE r == Append(q, {})
  <1>1. /\ Len(q) \in Nat /\ Len(r) = Len(q) + 1 /\ r[Len(q) + 1] = {}
        /\ \A i \in 1..Len(q) : r[i] = q[i]
    OBVIOUS
  <1> HIDE DEF r
  <1>2. ASSUME NEW i \in 1..Len(r), r[i] # {}
        PROVE  i <= n
    <2>1. i \in 1..Len(q) /\ q[i] # {}
      BY <1>1, <1>2
    <2> QED  BY <2>1 DEF ZeroIn
  <1>3. ZeroIn(r, n)
    BY <1>2 DEF ZeroIn
  <1> QED  BY <1>3 DEF r

LEMMA ZeroTaken ==
  ASSUME NEW q \in Seq(Words), q # <<>>, NEW n \in Nat, ZeroIn(q, n)
  PROVE  /\ ZeroIn(Tail(q), n)
         /\ \A m \in Nat : n = m + 1 => ZeroIn(Tail(q), m)
         /\ n = 0 => Head(q) = {}
  <1> DEFINE t == Tail(q)
  <1>1. /\ Len(q) \in Nat /\ Len(q) >= 1 /\ Len(t) = Len(q) - 1 /\ Head(q) = q[1]
        /\ \A i \in 1..Len(t) : t[i] = q[i + 1]
    BY HeadTailProperties, EmptySeq
  <1> HIDE DEF t
  <1>2. ASSUME NEW i \in 1..Len(t), t[i] # {}
        PROVE  i + 1 <= n
    <2>1. i + 1 \in 1..Len(q) /\ q[i + 1] # {}
      BY <1>1, <1>2
    <2> QED  BY <2>1 DEF ZeroIn
  <1>3. ZeroIn(t, n) /\ \A m \in Nat : n = m + 1 => ZeroIn(t, m)
    BY <1>1, <1>2 DEF ZeroIn
  <1>4. n = 0 => Head(q) = {}
    BY <1>1 DEF ZeroIn
  <1> QED  BY <1>3, <1>4 DEF t

\* The words that still drive leave the queue, whatever zeros are published.
LEMMA HushedQueue ==
  ASSUME DriveTypeOK, [DriveNext]_driveVars, Hushed', NEW n \in Nat
  PROVE  /\ ZeroAfter(n) => ZeroAfter(n)'
         /\ Take /\ ZeroAfter(n + 1) => ZeroAfter(n)'
         /\ queue # <<>> => queue' # <<>> \/ Take
         /\ Take => queue # <<>> /\ (ZeroAfter(0) => msg' = {})
  <1> USE DEF ZeroAfter, Hushed
  <1>0. queue \in Seq(Words)
    BY DEF DriveTypeOK, Words
  <1>1. ASSUME NEW p \in Publishers, NEW w \in SUBSET TwistParts, Publish(p, w)
        PROVE  queue' # <<>> /\ (ZeroAfter(n) => ZeroAfter(n)') /\ ~Take
    <2>1. w = {} /\ queue' = Enqueue(queue, {})
      BY <1>1 DEF Publish
    <2>2. queue' # <<>>
      BY <1>0, <2>1, EnqueueKeeps DEF DriveTypeOK, Words
    <2>3. ~Take
      BY <1>1, <2>1, <1>0 DEF Publish, Take
    <2>4. ZeroIn(queue, n) => ZeroIn(Enqueue(queue, {}), n)
      <3>1. CASE Len(queue) = QueueSize
        <4>1. queue # <<>> /\ Tail(queue) \in Seq(Words)
          BY <1>0, <3>1, EmptySeq, HeadTailProperties
        <4> QED  BY <1>0, <3>1, <4>1, ZeroAppended, ZeroTaken DEF Enqueue
      <3>2. CASE Len(queue) # QueueSize
        BY <1>0, <3>2, ZeroAppended DEF Enqueue
      <3> QED  BY <3>1, <3>2
    <2> QED  BY <2>1, <2>2, <2>3, <2>4
  <1>2. CASE Take
    <2>1. queue # <<>> /\ queue' = Tail(queue) /\ msg' = Head(queue)
      BY <1>2 DEF Take
    <2> QED  BY <1>0, <1>2, <2>1, ZeroTaken
  <1>3. CASE StoreLinear \/ StoreAngular \/ MainLoop \/ SetStatus \/ UNCHANGED driveVars
    <2>1. queue' = queue /\ ~Take
      BY <1>3 DEF StoreLinear, StoreAngular, Store, MainLoop, Update, WriteSwitch, WriteCase, SetStatus,
                  driveVars, Take
    <2> QED  BY <2>1
  <1> QED  BY <1>1, <1>2, <1>3 DEF DriveNext, Subscriber

\* The subscriber's way through a word it has taken.
LEMMA StoreSteps ==
  ASSUME DriveTypeOK, LastWordCounts, [DriveNext]_driveVars, Hushed, Hushed', ZeroAfter(0)
  PROVE  LET clean == xyw_cmd = {} /\ (store = "idle" \/ msg = {})
             full == store = "idle" /\ queue # <<>>
             first == store = "linear" /\ msg = {}
             second == store = "angular" /\ msg = {} /\ "linear" \notin xyw_cmd
         IN  /\ clean => clean'
             /\ store = "linear" => store' \in {"linear", "angular"}
             /\ store = "angular" => store' = "angular" \/ full' \/ clean'
             /\ store = "idle" => clean \/ full
             /\ full => full' \/ first'
             /\ first => first' \/ second'
             /\ second => second' \/ clean'
             /\ <<Subscriber>>_driveVars =>
                  /\ store = "linear" => store' = "angular"
                  /\ store = "angular" => full' \/ clean'
                  /\ full => first'
                  /\ first => second'
                  /\ second => clean'
  <1> USE DEF DriveTypeOK, LastWordCounts, Hushed, Newest, TwistParts
  <1>1. CASE Take
    <2>1. queue # <<>> /\ msg' = {} /\ store = "idle" /\ store' = "linear" /\ xyw_cmd' = xyw_cmd
      BY <1>1, HushedQueue DEF Take
    <2> QED  BY <2>1
  <1>2. CASE StoreLinear
    BY <1>2 DEF StoreLinear, Store
  <1>3. CASE StoreAngular
    <2>1. /\ store = "angular" /\ store' = "idle" /\ queue' = queue
          /\ xyw_cmd' = (xyw_cmd \ {"angular"}) \cup ({"angular"} \cap msg)
      BY <1>3 DEF StoreAngular, Store
    <2>2. queue = <<>> => xyw_cmd' = {}
      BY <2>1
    <2> QED  BY <2>1, <2>2
  <1>4. CASE ~Subscriber
    <2>1. UNCHANGED <<msg, store, xyw_cmd>>
      BY <1>4 DEF DriveNext, Publish, MainLoop, Update, WriteSwitch, WriteCase, SetStatus, driveVars
    <2>2. queue # <<>> => queue' # <<>>
      BY <1>4, HushedQueue DEF Subscriber
    <2> QED  BY <1>4, <2>1, <2>2
  <1> QED  BY <1>1, <1>2, <1>3, <1>4 DEF Subscriber

\* The subscriber on its way to the next word, whatever the words are.
LEMMA TakeSteps ==
  ASSUME DriveTypeOK, [DriveNext]_driveVars, Hushed', NEW n \in Nat, ZeroAfter(n + 1), ~ZeroAfter(n)
  PROVE  /\ queue # <<>>
         /\ ZeroAfter(n + 1)'
         /\ store = "linear" => store' \in {"linear", "angular"}
         /\ store = "angular" => store' \in {"angular", "idle"}
         /\ store = "idle" => store' = "idle" \/ ZeroAfter(n)'
         /\ <<Subscriber>>_driveVars =>
              /\ store = "linear" => store' = "angular"
              /\ store = "angular" => store' = "idle"
              /\ store = "idle" => ZeroAfter(n)'
  <1>1. n + 1 \in Nat
    OBVIOUS
  <1>2. ZeroAfter(n + 1)' /\ (Take => ZeroAfter(n)')
    BY <1>1, HushedQueue
  <1>3. queue # <<>>
    BY EmptySeq DEF ZeroAfter, ZeroIn
  <1>4. CASE Take \/ StoreLinear \/ StoreAngular
    BY <1>2, <1>3, <1>4 DEF Take, StoreLinear, StoreAngular, Store
  <1>5. CASE ~Subscriber
    <2>1. store' = store
      BY <1>5 DEF DriveNext, Publish, MainLoop, Update, WriteSwitch, WriteCase, SetStatus, driveVars
    <2> QED  BY <1>2, <1>3, <1>5, <2>1
  <1> QED  BY <1>4, <1>5 DEF Subscriber

\* A controller whose words are all zero: update() reads zero, whatever is being
\* stored meanwhile, and the filter forgets what it had.
Clean == xyw_cmd = {} /\ (store = "idle" \/ msg = {})

LEMMA MainSteps ==
  ASSUME DriveTypeOK, Clean, [DriveNext]_driveVars
  PROVE  /\ \/ UNCHANGED <<lag, command, dac, cycle>> /\ ~ <<MainLoop>>_driveVars
            \/ MainLoop
         /\ MainLoop => \/ cycle = "update" /\ cycle' = "write" /\ dac' = dac
                           /\ (lag > 0 => lag' < lag)
                           /\ (lag = 0 => lag' = 0 /\ ~command')
                        \/ cycle = "write" /\ cycle' = status /\ UNCHANGED <<lag, command, dac>>
                        \/ cycle \notin {"update", "write"} /\ cycle' = "update"
                           /\ UNCHANGED <<lag, command>>
                           /\ dac' \in {FALSE, command, dac}
                           /\ (cycle \notin Homing => dac' \in {FALSE, command})
  <1>1. CASE Update
    <2>1. Readable = {{}}
      BY DEF Clean, Readable
    <2>2. lag' = IF lag > 0 THEN lag - 1 ELSE 0
      BY <1>1, <2>1 DEF Update
    <2>3. cycle = "update" /\ cycle' = "write" /\ dac' = dac
      BY <1>1 DEF Update
    <2>4. lag \in Nat
      BY DEF DriveTypeOK
    <2>5. lag > 0 => lag' < lag
      BY <2>2, <2>4
    <2>6. lag = 0 => lag' = 0
      BY <2>2
    <2>7. ASSUME lag' = 0
          PROVE  ~command'
      <3>1. ~(lag' > 0)
        BY <2>7
      <3> QED  BY <1>1, <3>1, Zenon DEF Update
    <2> QED  BY <1>1, <2>3, <2>5, <2>6, <2>7 DEF MainLoop
  <1>2. CASE WriteSwitch
    BY <1>2 DEF WriteSwitch, MainLoop
  <1>3. CASE WriteCase
    <2>1. /\ cycle \notin {"update", "write"} /\ cycle' = "update" /\ UNCHANGED <<lag, command>>
          /\ dac' = IF cycle \in {"stop", "grab"} THEN FALSE
                    ELSE IF cycle \in {"both", "agv"} THEN command ELSE dac
      BY <1>3 DEF WriteCase
    <2>2. cycle \notin Homing => cycle \in {"stop", "grab", "both", "agv"}
      BY <2>1 DEF DriveTypeOK, Homing
    <2> QED  BY <1>3, <2>1, <2>2 DEF MainLoop
  <1>4. CASE ~MainLoop
    BY <1>4 DEF DriveNext, Subscriber, Take, StoreLinear, StoreAngular, Store, Publish, SetStatus, driveVars
  <1> QED  BY <1>1, <1>2, <1>3, <1>4 DEF MainLoop

\* The threads' fairness.  That they can step when they are due has no rule in
\* the provers (ENABLED).
DriveUnblocked ==
  /\ []ENABLED <<MainLoop>>_driveVars
  /\ [](store # "idle" \/ queue # <<>> => ENABLED <<Subscriber>>_driveVars)
DriveRuns ==
  /\ [][DriveNext]_driveVars /\ []DriveTypeOK /\ []LastWordCounts
  /\ WF_driveVars(Subscriber) /\ WF_driveVars(MainLoop) /\ DriveUnblocked
Resting == DriveRuns /\ []Hushed /\ [](status \notin Homing)

\* The rules of descent, from any moment on: for the place of the last word that
\* drives, which is never beyond QueueSize, and for the filter's memory.  Both
\* are valid; the provers lack the induction under a temporal operator.
WordsFall(n) == ZeroAfter(n + 1) ~> ZeroAfter(n)
AllWordsFall == \A n \in Nat : WordsFall(n)
LagFalls(n) == (lag = n) ~> (lag < n)
AllLagsFall == \A n \in Nat \ {0} : LagFalls(n)
DriveDescends == [](AllWordsFall => <>ZeroAfter(0)) /\ [](AllLagsFall => <>(lag = 0))

LEMMA QueueFalls ==
  ASSUME NEW n \in Nat
  PROVE  DriveRuns /\ []Hushed => WordsFall(n)
  <1> DEFINE P == ZeroAfter(n + 1)
             Q == ZeroAfter(n)
             I == store = "idle"
             L == store = "linear"
             A == store = "angular"
             Due == store # "idle" \/ queue # <<>>
  <1>1. DriveTypeOK /\ [DriveNext]_driveVars /\ Hushed' /\ P /\ ~Q =>
          /\ P' /\ Due
          /\ (L => L' \/ A') /\ (A => A' \/ I') /\ (I => I' \/ Q')
          /\ <<Subscriber>>_driveVars => (L => A') /\ (A => I') /\ (I => Q')
    BY TakeSteps
  <1>2. DriveTypeOK => I \/ L \/ A
    BY DEF DriveTypeOK
  <1>3. (ZeroAfter(n + 1) <=> P) /\ (ZeroAfter(n) <=> Q) /\ ((store # "idle" \/ queue # <<>>) <=> Due)
    OBVIOUS
  <1> HIDE DEF P, Q, I, L, A, Due
  <1> DEFINE Fair == DriveRuns /\ []Hushed
  <1>4. Fair => (I /\ P ~> Q)
    BY <1>1, <1>3, PTL DEF DriveRuns, DriveUnblocked
  <1>5. Fair => (A /\ P ~> Q)
    BY <1>1, <1>3, <1>4, PTL DEF DriveRuns, DriveUnblocked
  <1>6. Fair => (L /\ P ~> Q)
    BY <1>1, <1>3, <1>5, PTL DEF DriveRuns, DriveUnblocked
  <1> QED  BY <1>2, <1>3, <1>4, <1>5, <1>6, PTL DEF DriveRuns, WordsFall

\* Once every word that comes is zero the controller holds zero for good.
LEMMA HushedClean == DriveRuns /\ []Hushed /\ DriveDescends => <>[]Clean
  <1> DEFINE Z == ZeroAfter(0)
             C == xyw_cmd = {} /\ (store = "idle" \/ msg = {})
             I == store = "idle"
             L == store = "linear"
             A == store = "angular"
             Full == store = "idle" /\ queue # <<>>
             First == store = "linear" /\ msg = {}
             Second == store = "angular" /\ msg = {} /\ "linear" \notin xyw_cmd
             Due == store # "idle" \/ queue # <<>>
  <1>1. DriveTypeOK /\ LastWordCounts /\ [DriveNext]_driveVars /\ Hushed /\ Hushed' /\ Z =>
          /\ C => C'
          /\ L => L' \/ A'
          /\ A => A' \/ Full' \/ C'
          /\ I => C \/ Full
          /\ Full => Full' \/ First'
          /\ First => First' \/ Second'
          /\ Second => Second' \/ C'
          /\ <<Subscriber>>_driveVars =>
               /\ L => A'
               /\ A => Full' \/ C'
               /\ Full => First'
               /\ First => Second'
               /\ Second => C'
    BY StoreSteps
  <1>2. DriveTypeOK /\ [DriveNext]_driveVars /\ Hushed' => (Z => Z')
    BY HushedQueue
  <1>3. DriveTypeOK => I \/ L \/ A
    BY DEF DriveTypeOK
  <1>4. (L => Due) /\ (A => Due) /\ (Full => Due) /\ (First => Due) /\ (Second => Due)
    OBVIOUS
  <1>5. /\ (ZeroAfter(0) <=> Z) /\ (Clean <=> C)
        /\ ((store # "idle" \/ queue # <<>>) <=> Due)
    BY DEF Clean
  <1>6. DriveRuns /\ []Hushed => AllWordsFall
    BY QueueFalls DEF AllWordsFall
  <1> HIDE DEF Z, C, I, L, A, Full, First, Second, Due
  <1>7. DriveRuns /\ []Hushed /\ DriveDescends => <>[]Z
    BY <1>2, <1>5, <1>6, PTL DEF DriveRuns, DriveDescends
  <1> DEFINE Fair == DriveRuns /\ []Hushed /\ []Z
  <1>8. Fair => (Second ~> C)
    BY <1>1, <1>4, <1>5, PTL DEF DriveRuns, DriveUnblocked
  <1>9. Fair => (First ~> Second)
    BY <1>1, <1>4, <1>5, PTL DEF DriveRuns, DriveUnblocked
  <1>10. Fair => (Full ~> First)
    BY <1>1, <1>4, <1>5, PTL DEF DriveRuns, DriveUnblocked
  <1>11. Fair => (A ~> Full \/ C)
    BY <1>1, <1>4, <1>5, PTL DEF DriveRuns, DriveUnblocked
  <1>12. Fair => (L ~> A)
    BY <1>1, <1>4, <1>5, PTL DEF DriveRuns, DriveUnblocked
  <1>13. Fair => (I ~> Full \/ C)
    BY <1>1, PTL DEF DriveRuns
  <1>14. Fair => <>C
    BY <1>3, <1>8, <1>9, <1>10, <1>11, <1>12, <1>13, PTL DEF DriveRuns
  <1>15. Fair => [](C => []C)
    BY <1>1, PTL DEF DriveRuns
  <1> QED  BY <1>5, <1>7, <1>14, <1>15, PTL DEF DriveRuns, DriveUnblocked

LEMMA FilterFalls ==
  ASSUME NEW n \in Nat \ {0}
  PROVE  DriveRuns /\ []Clean => LagFalls(n)
  <1> DEFINE H == lag = n
             W == lag < n
             U == cycle = "update"
             S == cycle = "write"
             K == cycle \notin {"update", "write"}
  <1>1. DriveTypeOK /\ Clean /\ [DriveNext]_driveVars /\ H =>
          /\ K => (H /\ K)' \/ (H /\ U)'
          /\ S => (H /\ S)' \/ (H /\ K)'
          /\ U => (H /\ U)' \/ W'
          /\ <<MainLoop>>_driveVars => (K => (H /\ U)') /\ (S => (H /\ K)') /\ (U => W')
    <2>1. DriveTypeOK => status \notin {"update", "write"}
      BY DriveModesAssumption DEF DriveTypeOK
    <2>2. n > 0
      OBVIOUS
    <2> QED  BY <2>1, <2>2, MainSteps
  <1>2. U \/ S \/ K
    OBVIOUS
  <1>3. (lag = n <=> H) /\ (lag < n <=> W)
    OBVIOUS
  <1> HIDE DEF H, W, U, S, K
  <1> DEFINE Fair == DriveRuns /\ []Clean
  <1>4. Fair => (H /\ U ~> W)
    BY <1>1, PTL DEF DriveRuns, DriveUnblocked
  <1>5. Fair => (H /\ K ~> W)
    BY <1>1, <1>4, PTL DEF DriveRuns, DriveUnblocked
  <1>6. Fair => (H /\ S ~> W)
    BY <1>1, <1>5, PTL DEF DriveRuns, DriveUnblocked
  <1> QED  BY <1>2, <1>3, <1>4, <1>5, <1>6, PTL DEF LagFalls

\* The last cycles: the command becomes zero, a case of a homing mode that is
\* still under way leaves the outputs as they are, the next one writes zero.
LEMMA WheelsStop == Resting /\ []Clean /\ <>(lag = 0) => <>[]~dac
  <1> DEFINE N == lag = 0
             Q == lag = 0 /\ ~command
             D == lag = 0 /\ ~command /\ ~dac
             U == cycle = "update"
             S == cycle = "write"
             K == cycle \notin {"update", "write"}
             G == cycle \notin {"update", "write"} \cup Homing
             H == cycle \in Homing
             Ok == status \notin Homing
  <1>1. DriveTypeOK /\ Clean /\ Ok /\ [DriveNext]_driveVars =>
          /\ N => N'
          /\ Q => Q'
          /\ D => D'
          /\ K => K' \/ U'
          /\ S => S' \/ G'
          /\ H => H' \/ U'
          /\ N /\ U => U' \/ Q'
          /\ Q /\ G => G' \/ D'
          /\ U => U' \/ S'
    <2> SUFFICES ASSUME DriveTypeOK, Clean, Ok, [DriveNext]_driveVars
                 PROVE  /\ N => N'
                        /\ Q => Q'
                        /\ D => D'
                        /\ K => K' \/ U'
                        /\ S => S' \/ G'
                        /\ H => H' \/ U'
                        /\ N /\ U => U' \/ Q'
                        /\ Q /\ G => G' \/ D'
                        /\ U => U' \/ S'
      OBVIOUS
    <2>1. status \notin {"update", "write"} /\ "update" \notin Homing /\ "write" \notin Homing
      BY DriveModesAssumption DEF DriveTypeOK, Homing
    <2>2. CASE UNCHANGED <<lag, command, dac, cycle>>
      BY <2>2
    <2>3. CASE MainLoop
      <3>1. CASE cycle = "update" /\ cycle' = "write" /\ dac' = dac /\ (lag = 0 => lag' = 0 /\ ~command')
        BY <3>1, <2>1, Zenon
      <3>2. CASE cycle = "write" /\ cycle' = status /\ UNCHANGED <<lag, command, dac>>
        BY <3>2, <2>1
      <3>3. CASE /\ cycle \notin {"update", "write"} /\ cycle' = "update"
                 /\ UNCHANGED <<lag, command>>
                 /\ dac' \in {FALSE, command, dac}
                 /\ (cycle \notin Homing => dac' \in {FALSE, command})
        <4>1. (~command => ~command') /\ (lag = 0 => lag' = 0)
          BY <3>3, Zenon
        <4>2. ~command /\ ~dac => ~dac'
          BY <3>3, Zenon
        <4>3. cycle \notin Homing /\ ~command => ~dac'
          BY <3>3, Zenon
        <4>4. (cycle \in Homing => U') /\ (K => U') /\ ~U /\ ~S
          BY <3>3
        <4> QED  BY <4>1, <4>2, <4>3, <4>4, Zenon
      <3> QED  BY <2>3, <3>1, <3>2, <3>3, MainSteps, Zenon
    <2> QED  BY <2>2, <2>3, MainSteps
  <1>2. DriveTypeOK /\ Clean /\ Ok /\ <<MainLoop>>_driveVars /\ [DriveNext]_driveVars =>
          /\ K => U'
          /\ S => G'
          /\ U => S'
          /\ N /\ U => Q'
          /\ Q /\ G => D'
    <2> SUFFICES ASSUME DriveTypeOK, Clean, Ok, MainLoop, [DriveNext]_driveVars
                 PROVE  /\ K => U'
                        /\ S => G'
                        /\ U => S'
                        /\ N /\ U => Q'
                        /\ Q /\ G => D'
      OBVIOUS
    <2>1. status \notin {"update", "write"}
      BY DriveModesAssumption DEF DriveTypeOK
    <2>2. CASE cycle = "update" /\ cycle' = "write" /\ (lag = 0 => lag' = 0 /\ ~command')
      BY <2>2, Zenon
    <2>3. CASE cycle = "write" /\ cycle' = status /\ UNCHANGED <<lag, command, dac>>
      BY <2>3, <2>1
    <2>4. CASE /\ cycle \notin {"update", "write"} /\ cycle' = "update"
               /\ UNCHANGED <<lag, command>>
               /\ (cycle \notin Homing => dac' \in {FALSE, command})
      <3>1. (~command => ~command') /\ (lag = 0 => lag' = 0)
        BY <2>4, Zenon
      <3>2. cycle \notin Homing /\ ~command => ~dac'
        BY <2>4, Zenon
      <3>3. (K => U') /\ ~U /\ ~S
        BY <2>4
      <3> QED  BY <3>1, <3>2, <3>3, Zenon
    <2> QED  BY <2>2, <2>3, <2>4, MainSteps, Zenon
  <1>3. (U \/ S \/ K) /\ (G => K) /\ (K => G \/ H) /\ (Q => N) /\ (H => K) /\ (D => ~dac)
    BY DEF Homing
  <1>4. (lag = 0 <=> N) /\ (status \notin Homing <=> Ok)
    OBVIOUS
  <1> HIDE DEF N, Q, D, U, S, K, G, H, Ok
  <1> DEFINE Fair == Resting /\ []Clean
  <1>5. Fair => (K ~> U) /\ (S ~> K) /\ (U ~> S) /\ (S ~> G)
    BY <1>1, <1>2, <1>3, <1>4, PTL DEF Resting, DriveRuns, DriveUnblocked
  <1>6. Fair => [](N => []N) /\ [](Q => []Q) /\ [](D => []D)
    BY <1>1, <1>4, PTL DEF Resting, DriveRuns
  <1>7. Fair => (N /\ U ~> Q)
    BY <1>1, <1>2, <1>4, PTL DEF Resting, DriveRuns, DriveUnblocked
  <1>8. Fair => (N ~> Q)
    BY <1>3, <1>5, <1>6, <1>7, PTL
  <1>9. Fair => (Q /\ G ~> D)
    BY <1>1, <1>2, <1>4, PTL DEF Resting, DriveRuns, DriveUnblocked
  <1>10. Fair => (Q ~> D)
    BY <1>3, <1>5, <1>6, <1>9, PTL
  <1> QED  BY <1>3, <1>4, <1>6, <1>8, <1>10, PTL

\* The wheels come to rest for good once every publisher's last word is zero and
\* the status is not a homing mode: for any publishers, any length of the queue
\* and of the filter, whatever zeros still come and whatever was being stored.
THEOREM ComesToRestHolds ==
  FairDriveSpec /\ DriveUnblocked /\ DriveDescends => ComesToRest
  <1> DEFINE Ok == status \notin Homing
             Rest1 == heard /\ moving = {} /\ status \notin Homing
  <1>1. FairDriveSpec /\ DriveUnblocked => DriveRuns
    BY DriveTypeCorrect, LastWordCountsHolds, PTL DEF FairDriveSpec, DriveSpec, DriveRuns
  <1>2. Rest1 <=> Hushed /\ Ok
    BY DEF Hushed
  <1>3. DriveRuns /\ []Clean => AllLagsFall
    BY FilterFalls DEF AllLagsFall
  <1>4. (status \notin Homing <=> Ok) /\ ((heard /\ moving = {} /\ status \notin Homing) <=> Rest1)
    OBVIOUS
  <1> HIDE DEF Ok, Rest1
  <1>5. Resting /\ DriveDescends => <>[]~dac
    BY <1>3, HushedClean, WheelsStop, PTL DEF Resting, DriveRuns, DriveUnblocked, DriveDescends
  <1> QED
    BY <1>1, <1>2, <1>4, <1>5, PTL DEF Resting, DriveRuns, DriveUnblocked, DriveDescends, ComesToRest

-----------------------------------------------------------------------------
\* The driver of the pad

USE AutoRepeatAssumption, MaxEventsAssumption

\* Taking the first event moves the others up.
LEMMA TailOf ==
  ASSUME NEW q \in Seq(Events), q # <<>>
  PROVE  /\ Head(q) = q[1] /\ Head(q) \in Events
         /\ Tail(q) \in Seq(Events) /\ Len(Tail(q)) = Len(q) - 1
         /\ Len(q) \in Nat /\ Len(q) >= 1
         /\ \A i \in 1..Len(Tail(q)) : Tail(q)[i] = q[i + 1]
  BY HeadTailProperties, EmptySeq

\* What the kernel says of a pad that has just been opened.
Described(p) ==
  <<[kind |-> "axis", init |-> TRUE, value |-> p.axis],
    [kind |-> "button", init |-> TRUE, value |-> p.button]>>

LEMMA DescribedShape ==
  ASSUME NEW p \in [plugged : BOOLEAN, button : BOOLEAN, axis : BOOLEAN]
  PROVE  /\ Described(p) \in Seq(Events) /\ Len(Described(p)) = 2
         /\ Described(p) # <<>> /\ Head(Described(p)).init
         /\ Described(p)[1].kind = "axis" /\ Described(p)[1].init
         /\ Described(p)[2].kind = "button" /\ Described(p)[2].value = p.button
  BY DEF Described, Events

LEMMA ApplyType ==
  ASSUME JoyTypeOK, NEW e \in Events
  PROVE  Apply(e) \in Message
  BY DEF JoyTypeOK, Apply, Message, Events

LEMMA JoyTypeInit == JoyInit => JoyTypeOK
  <1> SUFFICES ASSUME JoyInit PROVE JoyTypeOK
    OBVIOUS
  <1>1. pad \in [plugged : BOOLEAN, button : BOOLEAN, axis : BOOLEAN]
    BY DEF JoyInit
  <1>2. events \in Seq(Events) /\ Len(events) <= MaxEvents
    BY DEF JoyInit
  <1>3. joy_msg \in Message /\ published \in Message
    BY DEF JoyInit, Message, Rest
  <1> QED  BY <1>1, <1>2, <1>3 DEF JoyInit, JoyTypeOK

LEMMA JoyTypeStep == JoyTypeOK /\ [JoyNext]_joyVars => JoyTypeOK'
  <1> SUFFICES ASSUME JoyTypeOK, [JoyNext]_joyVars PROVE JoyTypeOK'
    OBVIOUS
  <1> USE DEF JoyTypeOK
  <1>1. ASSUME NEW kind \in {"button", "axis"}, Move(kind)
        PROVE  JoyTypeOK'
    <2>1. pad' \in [plugged : BOOLEAN, button : BOOLEAN, axis : BOOLEAN] /\ pad[kind] \in BOOLEAN
      BY <1>1 DEF Move
    <2>2. [kind |-> kind, init |-> FALSE, value |-> ~pad[kind]] \in Events
      BY <2>1 DEF Events
    <2>3. events' \in Seq(Events) /\ Len(events') <= MaxEvents
      BY <1>1, <2>2 DEF Move
    <2> QED  BY <1>1, <2>1, <2>3 DEF Move
  <1>2. CASE PlugOrUnplug
    <2>1. pad' \in [plugged : BOOLEAN, button : BOOLEAN, axis : BOOLEAN]
      BY <1>2 DEF PlugOrUnplug
    <2>2. events' \in Seq(Events) /\ Len(events') <= MaxEvents
      BY <1>2 DEF PlugOrUnplug
    <2> QED  BY <1>2, <2>1, <2>2 DEF PlugOrUnplug
  <1>3. CASE Open
    <2>1. events' = Described(pad)
      BY <1>3 DEF Open, Described
    <2>2. events' \in Seq(Events) /\ Len(events') <= MaxEvents
      BY <2>1, DescribedShape
    <2>3. joy_msg' \in Message
      BY <1>3 DEF Open, Message, Rest
    <2> QED  BY <1>3, <2>2, <2>3 DEF Open
  <1>4. CASE Read
    <2>1. Apply(Head(events)) \in Message
      BY <1>4, TailOf, ApplyType DEF Read
    <2>2. events' \in Seq(Events) /\ Len(events') <= MaxEvents
      BY <1>4, TailOf DEF Read
    <2> QED  BY <1>4, <2>1, <2>2 DEF Read, PublishJoy, Collect
  <1>5. CASE TimerExpires \/ Lost \/ UNCHANGED joyVars
    BY <1>5 DEF TimerExpires, PublishJoy, Lost, joyVars
  <1> QED
    BY <1>1, <1>2, <1>3, <1>4, <1>5 DEF JoyNext, Operator, Driver

\* The types of the joystick driver's state hold in every behaviour; the kernel's
\* buffer stays within its size.
THEOREM JoyTypeCorrect == JoySpec => []JoyTypeOK
  BY JoyTypeInit, JoyTypeStep, PTL DEF JoySpec

\* An event of which the driver believes what it says of a part of the pad.
Tells(e, kind) == e.kind = kind /\ (kind = "axis" => ~e.init)

\* What may be believed of a part: the button as it is, no centred stick pushed.
Right(p, kind, v) == IF kind = "button" THEN v = p.button ELSE (v => p.axis)

\* The last event that tells of a part is right about it, and the message is
\* where no event does.
Follows(q, m, p, kind) ==
  /\ \A i \in 1..Len(q) :
       (Tells(q[i], kind) /\ \A j \in (i + 1)..Len(q) : ~Tells(q[j], kind))
         => Right(p, kind, q[i].value)
  /\ (\A i \in 1..Len(q) : ~Tells(q[i], kind)) => Right(p, kind, m[kind])

\* What has not been published is on its way: a timer is set, or an event that
\* will set it is next.
OnItsWay == published = joy_msg \/ tv_set \/ (events # <<>> /\ Head(events).init)

UpToDate ==
  fd = "live" =>
    OnItsWay /\ \A kind \in {"button", "axis"} : Follows(events, joy_msg, pad, kind)

LEMMA FollowsAppended ==
  ASSUME NEW q \in Seq(Events), NEW e \in Events, NEW kind, NEW m, NEW p, NEW p2,
         \/ Tells(e, kind) /\ Right(p2, kind, e.value)
         \/ ~Tells(e, kind) /\ Follows(q, m, p, kind) /\ \A v : Right(p, kind, v) => Right(p2, kind, v)
  PROVE  Follows(Append(q, e), m, p2, kind)
  <1> DEFINE n == Len(q)
             r == Append(q, e)
  <1>1. /\ n \in Nat /\ Len(r) = n + 1 /\ r[n + 1] = e
        /\ \A i \in 1..n : r[i] = q[i]
    OBVIOUS
  <1> HIDE DEF n, r
  <1>2. n = Len(q)
    BY DEF n
  <1>3. CASE Tells(e, kind) /\ Right(p2, kind, e.value)
    <2>1. ASSUME NEW i \in 1..(n + 1), \A j \in (i + 1)..(n + 1) : ~Tells(r[j], kind)
          PROVE  i = n + 1
      BY <1>1, <1>3, <2>1
    <2>2. ~ \A i \in 1..(n + 1) : ~Tells(r[i], kind)
      BY <1>1, <1>3
    <2>3. Follows(r, m, p2, kind)
      BY <1>1, <1>3, <2>1, <2>2 DEF Follows
    <2> QED  BY <2>3 DEF r
  <1>4. CASE ~Tells(e, kind) /\ Follows(q, m, p, kind) /\ \A v : Right(p, kind, v) => Right(p2, kind, v)
    <2>1. ASSUME NEW i \in 1..(n + 1), Tells(r[i], kind),
                 \A j \in (i + 1)..(n + 1) : ~Tells(r[j], kind)
          PROVE  Right(p2, kind, r[i].value)
      <3>1. i \in 1..n /\ r[i] = q[i] /\ \A j \in (i + 1)..n : ~Tells(q[j], kind)
        BY <1>1, <1>4, <2>1
      <3> QED  BY <3>1, <2>1, <1>2, <1>4 DEF Follows
    <2>2. (\A i \in 1..(n + 1) : ~Tells(r[i], kind)) => Right(p2, kind, m[kind])
      BY <1>1, <1>2, <1>4 DEF Follows
    <2>3. Follows(r, m, p2, kind)
      BY <1>1, <2>1, <2>2 DEF Follows
    <2> QED  BY <2>3 DEF r
  <1> QED  BY <1>3, <1>4

LEMMA FollowsTaken ==
  ASSUME NEW q \in Seq(Events), q # <<>>, NEW kind, NEW m, NEW m2, NEW p,
         Follows(q, m, p, kind),
         m2[kind] = IF Tells(Head(q), kind) THEN Head(q).value ELSE m[kind]
  PROVE  Follows(Tail(q), m2, p, kind)
  <1> DEFINE n == Len(q)
             t == Tail(q)
  <1>1. /\ n \in Nat /\ n >= 1 /\ Len(t) = n - 1 /\ Head(q) = q[1]
        /\ \A i \in 1..(n - 1) : t[i] = q[i + 1]
    BY TailOf
  <1> HIDE DEF t, n
  <1>2. n = Len(q)
    BY DEF n
  <1>3. ASSUME NEW i \in 1..(n - 1), Tells(t[i], kind),
               \A j \in (i + 1)..(n - 1) : ~Tells(t[j], kind)
        PROVE  Right(p, kind, t[i].value)
    <2>1. i + 1 \in 1..n /\ t[i] = q[i + 1]
      BY <1>1
    <2>2. ASSUME NEW j \in (i + 2)..n
          PROVE  ~Tells(q[j], kind)
      <3>1. j - 1 \in (i + 1)..(n - 1) /\ t[j - 1] = q[j]
        BY <1>1, <2>2
      <3> QED  BY <3>1, <1>3
    <2> QED  BY <2>1, <2>2, <1>2, <1>3 DEF Follows
  <1>4. ASSUME \A i \in 1..(n - 1) : ~Tells(t[i], kind)
        PROVE  Right(p, kind, m2[kind])
    <2>1. ASSUME NEW j \in 2..n
          PROVE  ~Tells(q[j], kind)
      <3>1. j - 1 \in 1..(n - 1) /\ t[j - 1] = q[j]
        BY <1>1, <2>1
      <3> QED  BY <3>1, <1>4
    <2>2. CASE Tells(q[1], kind)
      <3>1. 1 \in 1..n /\ \A j \in (1 + 1)..n : ~Tells(q[j], kind)
        BY <1>1, <2>1
      <3> QED  BY <3>1, <2>2, <1>1, <1>2 DEF Follows
    <2>3. CASE ~Tells(q[1], kind)
      <3>1. ASSUME NEW j \in 1..n
            PROVE  ~Tells(q[j], kind)
        <4>1. j = 1 \/ j \in 2..n
          BY <1>1
        <4> QED  BY <4>1, <2>1, <2>3
      <3> QED  BY <3>1, <2>3, <1>1, <1>2 DEF Follows
    <2> QED  BY <2>2, <2>3
  <1>5. Follows(t, m2, p, kind)
    BY <1>1, <1>3, <1>4 DEF Follows
  <1> QED  BY <1>5 DEF t

\* No step of the driver, of the kernel or of the operator loses the last state
\* of a part: it is in the message, or an event still to be read tells of it.
LEMMA UpToDateStep == JoyTypeOK /\ UpToDate /\ [JoyNext]_joyVars => UpToDate'
  <1> SUFFICES ASSUME JoyTypeOK, UpToDate, [JoyNext]_joyVars PROVE UpToDate'
    OBVIOUS
  <1> USE DEF JoyTypeOK
  <1>1. ASSUME NEW moved \in {"button", "axis"}, Move(moved), fd = "live"
        PROVE  UpToDate'
    <2> DEFINE e == [kind |-> moved, init |-> FALSE, value |-> ~pad[moved]]
    <2>1. /\ pad' = [pad EXCEPT ![moved] = ~@] /\ events' = Append(events, e)
          /\ UNCHANGED <<fd, joy_msg, tv_set, published>>
      BY <1>1 DEF Move
    <2>2. pad[moved] \in BOOLEAN /\ e \in Events
      BY DEF Events
    <2>3. Tells(e, moved) /\ Right(pad', moved, e.value)
      BY <2>1, <2>2 DEF Tells, Right
    <2>4. ASSUME NEW kind \in {"button", "axis"}, kind # moved
          PROVE  ~Tells(e, kind) /\ \A v : Right(pad, kind, v) => Right(pad', kind, v)
      BY <2>1, <2>4 DEF Tells, Right
    <2>5. \A kind \in {"button", "axis"} : Follows(events, joy_msg, pad, kind)
      BY <1>1 DEF UpToDate
    <2>6. Follows(Append(events, e), joy_msg, pad', moved)
      BY <2>2, <2>3, FollowsAppended
    <2>7. ASSUME NEW kind \in {"button", "axis"}, kind # moved
          PROVE  Follows(Append(events, e), joy_msg, pad', kind)
      BY <2>2, <2>4, <2>5, <2>7, FollowsAppended
    <2> HIDE DEF e
    <2>8. OnItsWay'
      <3>1. events # <<>> => events' # <<>> /\ Head(events') = Head(events)
        BY <2>1, <2>2
      <3> QED  BY <2>1, <3>1, <1>1 DEF UpToDate, OnItsWay
    <2>9. \A kind \in {"button", "axis"} : Follows(events', joy_msg', pad', kind)
      BY <2>1, <2>6, <2>7
    <2> QED  BY <2>8, <2>9 DEF UpToDate
  <1>2. CASE fd' # "live"
    BY <1>2 DEF UpToDate
  <1>3. CASE Open
    <2>1. events' = Described(pad) /\ joy_msg' = Rest /\ pad' = pad
      BY <1>3 DEF Open, Described
    <2>2. OnItsWay'
      BY <2>1, DescribedShape DEF OnItsWay
    <2>3. Follows(Described(pad), Rest, pad, "button")
      <3>1. Tells(Described(pad)[2], "button")
        BY DescribedShape DEF Tells
      <3>2. ~Tells(Described(pad)[1], "button")
        BY DescribedShape DEF Tells
      <3>3. \A i \in 1..2 : i = 1 \/ i = 2
        OBVIOUS
      <3> QED  BY <3>1, <3>2, <3>3, DescribedShape DEF Follows, Right
    <2>4. Follows(Described(pad), Rest, pad, "axis")
      <3>1. ~Tells(Described(pad)[1], "axis") /\ ~Tells(Described(pad)[2], "axis")
        BY DescribedShape DEF Tells
      <3>2. \A i \in 1..2 : ~Tells(Described(pad)[i], "axis")
        BY <3>1
      <3> QED  BY <3>2, DescribedShape DEF Follows, Right, Rest
    <2> QED  BY <2>1, <2>2, <2>3, <2>4 DEF UpToDate
  <1>4. CASE Read
    <2> DEFINE e == Head(events)
    <2>1. /\ fd = "live" /\ events # <<>> /\ events' = Tail(events)
          /\ joy_msg' = Apply(e) /\ pad' = pad
      BY <1>4 DEF Read
    <2>2. e \in Events
      BY <2>1, TailOf
    <2>3. published' = joy_msg' \/ tv_set'
      BY <1>4 DEF Read, PublishJoy, Collect
    <2>4. ASSUME NEW kind \in {"button", "axis"}
          PROVE  Apply(e)[kind] = IF Tells(e, kind) THEN e.value ELSE joy_msg[kind]
      BY <2>2 DEF Apply, Tells, Events, Message
    <2> HIDE DEF e
    <2>5. ASSUME NEW kind \in {"button", "axis"}
          PROVE  Follows(events', joy_msg', pad', kind)
      BY <2>1, <2>4, FollowsTaken DEF UpToDate, e
    <2> QED  BY <2>3, <2>5 DEF UpToDate, OnItsWay
  <1>5. CASE TimerExpires
    BY <1>5 DEF TimerExpires, PublishJoy, UpToDate, OnItsWay
  <1>6. CASE UNCHANGED joyVars
    BY <1>6 DEF joyVars, UpToDate, OnItsWay
  <1>7. CASE PlugOrUnplug \/ Lost \/ (\E moved \in {"button", "axis"} : Move(moved) /\ fd # "live")
    BY <1>2, <1>7 DEF PlugOrUnplug, Lost, Move
  <1> QED
    BY <1>1, <1>3, <1>4, <1>5, <1>6, <1>7 DEF JoyNext, Operator, Driver

LEMMA UpToDateInit == JoyInit => UpToDate
  BY DEF JoyInit, UpToDate

\* The driver sleeps in select() without a timer only if the last message on joy
\* shows the button as it is and no centred stick as pushed, for any size of the
\* kernel's buffer and either setting of the autorepeat: what was read while the
\* pad was opened, moved or plugged in again has been published.
SleepsUpToDate ==
  (fd = "live" /\ events = <<>> /\ ~tv_set)
    => (published.button = pad.button /\ (published.axis => pad.axis))

LEMMA DrainedShows ==
  ASSUME UpToDate, fd = "live", events = <<>>
  PROVE  /\ joy_msg.button = pad.button /\ (joy_msg.axis => pad.axis)
         /\ published = joy_msg \/ tv_set
  <1>1. Right(pad, "button", joy_msg.button) /\ Right(pad, "axis", joy_msg.axis)
    BY DEF UpToDate, Follows
  <1> QED  BY <1>1 DEF Right, UpToDate, OnItsWay

\* So it is in every behaviour of the driver.
THEOREM SleepsUpToDateHolds == JoySpec => []SleepsUpToDate
  <1>1. UpToDate => SleepsUpToDate
    BY DrainedShows DEF SleepsUpToDate
  <1> QED
    BY <1>1, UpToDateInit, UpToDateStep, JoyTypeCorrect, PTL DEF JoySpec

-----------------------------------------------------------------------------
\* What the driver owes a plugged pad: to open it, to read what is there, to
\* publish what it has read.
Owes ==
  \/ fd = "dead"
  \/ fd = "closed" /\ pad.plugged
  \/ fd = "live" /\ (events # <<>> \/ (tv_set /\ published # joy_msg))

\* Only the operator changes the pad, and each of its steps does.
LEMMA OperatorMovesPad ==
  ASSUME JoyTypeOK, Operator
  PROVE  pad' # pad
  <1> USE DEF JoyTypeOK
  <1>1. CASE PlugOrUnplug
    BY <1>1 DEF PlugOrUnplug
  <1>2. CASE Move("button")
    BY <1>2 DEF Move
  <1>3. CASE Move("axis")
    BY <1>3 DEF Move
  <1> QED  BY <1>1, <1>2, <1>3 DEF Operator

\* The way of the driver with a pad that is left alone.
LEMMA DriverAlone ==
  ASSUME JoyTypeOK, UpToDate, [JoyNext]_joyVars, pad' = pad
  PROVE  /\ fd = "dead" => fd' \in {"dead", "closed"}
         /\ fd = "closed" => fd' \in {"closed", "live"}
         /\ fd = "live" => fd' = "live"
         /\ (fd = "live" /\ events = <<>>) => events' = <<>> /\ UNCHANGED joy_msg
         /\ (fd = "live" /\ events = <<>> /\ published = joy_msg) => UNCHANGED published
         /\ <<Driver>>_joyVars =>
              /\ fd = "dead" => fd' = "closed"
              /\ fd = "closed" => fd' = "live"
              /\ (fd = "live" /\ events = <<>>) => published' = joy_msg
  <1>1. CASE Driver
    <2>1. CASE Open
      BY <2>1 DEF Open
    <2>2. CASE Read
      BY <2>2 DEF Read
    <2>3. CASE TimerExpires
      BY <2>3 DEF TimerExpires, PublishJoy
    <2>4. CASE Lost
      BY <2>4 DEF Lost
    <2> QED  BY <1>1, <2>1, <2>2, <2>3, <2>4 DEF Driver
  <1>2. CASE UNCHANGED joyVars
    BY <1>2 DEF joyVars
  <1> QED  BY <1>1, <1>2, OperatorMovesPad DEF JoyNext

\* The rule of descent for the events to be read, from any moment on.  It is valid
\* for a natural number; what the provers lack is an induction under a temporal
\* operator, so it is a hypothesis where it is used.
EventsFall(n) == (Len(events) = n) ~> (Len(events) < n)
AllEventsFall == \A n \in Nat \ {0} : EventsFall(n)
EventsDescend == [](AllEventsFall => <>(events = <<>>))

\* The fairness of the driver; that it can step while it owes something is the
\* other thing the provers have no rule for (ENABLED).
DriverRuns ==
  /\ [][JoyNext]_joyVars /\ []JoyTypeOK /\ []UpToDate
  /\ WF_joyVars(Driver) /\ [](Owes => ENABLED <<Driver>>_joyVars)

LEMMA ReadingFalls ==
  ASSUME NEW n \in Nat \ {0}
  PROVE  DriverRuns /\ [](fd = "live") /\ [][FALSE]_pad => EventsFall(n)
  <1> DEFINE Live == fd = "live"
             Here == Len(events) = n
             Lower == Len(events) < n
  <1>1. JoyTypeOK /\ UpToDate /\ [JoyNext]_joyVars /\ [FALSE]_pad /\ Live =>
          /\ Here => Here' \/ Lower'
          /\ <<Driver>>_joyVars => (Here => Lower')
    <2> SUFFICES ASSUME JoyTypeOK, [JoyNext]_joyVars, pad' = pad, Live, Here
                 PROVE  /\ Here' \/ Lower'
                        /\ <<Driver>>_joyVars => Lower'
      OBVIOUS
    <2>1. events \in Seq(Events) /\ events # <<>>
      BY EmptySeq DEF JoyTypeOK
    <2>2. CASE Read
      BY <2>1, <2>2, TailOf DEF Read
    <2>3. ~Open /\ ~TimerExpires /\ ~Lost
      BY <2>1 DEF Open, TimerExpires, Lost
    <2>4. CASE UNCHANGED joyVars
      BY <2>4 DEF joyVars
    <2> QED  BY <2>2, <2>3, <2>4, OperatorMovesPad DEF JoyNext, Driver
  <1>2. JoyTypeOK /\ Live /\ Here => Owes
    BY EmptySeq DEF Owes, JoyTypeOK
  <1>3. (fd = "live" <=> Live) /\ (Len(events) = n <=> Here) /\ (Len(events) < n <=> Lower)
    OBVIOUS
  <1> HIDE DEF Live, Here, Lower
  <1> QED  BY <1>1, <1>2, <1>3, PTL DEF DriverRuns, EventsFall

\* Once the operator leaves a plugged pad alone, its state is published for good:
\* from the fairness of the driver, for any size of the kernel's buffer and either
\* setting of the autorepeat.
THEOREM LastStateHolds ==
  /\ FairJoySpec
  /\ [](Owes => ENABLED <<Driver>>_joyVars)
  /\ EventsDescend
  => LastStatePublished
  <1> DEFINE Plugged == pad.plugged
             Dead == fd = "dead"
             Closed == fd = "closed"
             Live == fd = "live"
             Empty == events = <<>>
             Drained == fd = "live" /\ events = <<>>
             Done == fd = "live" /\ events = <<>> /\ published = joy_msg
             Goal == published.button = pad.button /\ (published.axis => pad.axis)
             Inv == JoyTypeOK /\ UpToDate
  <1>1. Inv /\ [JoyNext]_joyVars /\ [FALSE]_pad =>
          /\ Dead => Dead' \/ Closed'
          /\ Closed => Closed' \/ Live'
          /\ Live => Live'
          /\ Drained => Drained'
          /\ Done => Done'
    BY DriverAlone
  <1>2. Inv /\ [JoyNext]_joyVars /\ [FALSE]_pad /\ <<Driver>>_joyVars =>
          /\ Dead => Closed'
          /\ Closed => Live'
          /\ Drained => Done'
    BY DriverAlone
  <1>3. Inv => (Dead \/ Closed \/ Live) /\ (Live /\ Empty => Drained)
    BY DEF JoyTypeOK
  <1>4. Inv => /\ Dead => Owes
               /\ Plugged /\ Closed => Owes
               /\ Drained => Done \/ Owes
    BY DrainedShows DEF Owes
  <1>5. Inv /\ Done => Goal
    BY DrainedShows
  <1>6. (pad.plugged <=> Plugged) /\ (events = <<>> <=> Empty)
    OBVIOUS
  <1>7. (published.button = pad.button /\ (published.axis => pad.axis)) <=> Goal
    OBVIOUS
  <1>8. FairJoySpec /\ [](Owes => ENABLED <<Driver>>_joyVars) => DriverRuns
    BY UpToDateInit, UpToDateStep, JoyTypeInit, JoyTypeStep, PTL DEF JoySpec, FairJoySpec, DriverRuns
  <1>9. DriverRuns /\ []Live /\ [][FALSE]_pad => AllEventsFall
    BY ReadingFalls DEF AllEventsFall
  <1>10. Inv <=> JoyTypeOK /\ UpToDate
    OBVIOUS
  <1> HIDE DEF Plugged, Dead, Closed, Live, Empty, Drained, Done, Goal, Inv
  <1> DEFINE Alone == DriverRuns /\ <>[]Plugged /\ <>[][FALSE]_pad
  <1>11. Alone => <>[](Closed \/ Live)
    BY <1>1, <1>2, <1>3, <1>4, <1>10, PTL DEF DriverRuns
  <1>12. Alone => <>[]Live
    BY <1>1, <1>2, <1>3, <1>4, <1>10, <1>11, PTL DEF DriverRuns
  <1>13. Alone /\ EventsDescend => []<>Empty
    BY <1>6, <1>9, <1>12, PTL DEF DriverRuns, EventsDescend
  <1>14. Alone /\ []<>Empty => <>[]Drained
    BY <1>1, <1>3, <1>10, <1>12, PTL DEF DriverRuns
  <1>15. Alone /\ []<>Empty => <>[]Done
    BY <1>1, <1>2, <1>4, <1>10, <1>14, PTL DEF DriverRuns
  <1> QED
    BY <1>5, <1>6, <1>7, <1>8, <1>10, <1>13, <1>15, PTL DEF DriverRuns, LastStatePublished
=============================================================================
