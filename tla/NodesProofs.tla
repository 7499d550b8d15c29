---------------------------- MODULE NodesProofs ----------------------------
(* Theorems about the nodes around the core: the pose estimation, for any  *)
(* of its sensors, any timeout and any length of time, the merging of      *)
(* scans, and the types of all the nodes of MCNodes together.              *)
EXTENDS MCNodes, JoyDriveProofs, ImuSerialProofs

-----------------------------------------------------------------------------
\* The pose estimation node

USE UsedAssumption, TimesAssumption

\* HeardUpTo is the least of the clock and the stamps of the sensors.
LEMMA HeardIsLeast ==
  ASSUME EkfTypeOK, NEW on \in SUBSET Used
  PROVE  /\ HeardUpTo(on) \in Times
         /\ HeardUpTo(on) <= clock
         /\ \A s \in on : HeardUpTo(on) <= stamp[s]
         /\ \A b \in Nat : b <= clock /\ (\A s \in on : b <= stamp[s]) => b <= HeardUpTo(on)
  <1> DEFINE Until(t, s) == IF s \in on /\ stamp[s] < t THEN stamp[s] ELSE t
  <1>1. clock \in Times /\ \A s \in on : stamp[s] \in Times
    BY DEF EkfTypeOK
  <1>2. ASSUME NEW t \in Times, NEW s \in Sensors
        PROVE  /\ Until(t, s) \in Times
               /\ Until(t, s) <= t
               /\ s \in on => Until(t, s) <= stamp[s]
               /\ \A b \in Nat : b <= t /\ (s \in on => b <= stamp[s]) => b <= Until(t, s)
    BY <1>1 DEF Times
  <1> DEFINE t1 == Until(clock, "odom")
             t2 == Until(t1, "imu")
             t3 == Until(t2, "vo")
             t4 == Until(t3, "gps")
  <1>3. HeardUpTo(on) = t4
    BY DEF HeardUpTo
  <1>4. \A s \in on : s \in {"odom", "imu", "vo", "gps"}
    BY DEF Sensors
  <1>5. t1 \in Times /\ t2 \in Times /\ t3 \in Times /\ t4 \in Times
    BY <1>1, <1>2 DEF Sensors
  <1>6. t1 <= clock /\ t2 <= t1 /\ t3 <= t2 /\ t4 <= t3
    BY <1>1, <1>2, <1>5 DEF Sensors
  <1>7. /\ "odom" \in on => t1 <= stamp["odom"]
        /\ "imu" \in on => t2 <= stamp["imu"]
        /\ "vo" \in on => t3 <= stamp["vo"]
        /\ "gps" \in on => t4 <= stamp["gps"]
    BY <1>1, <1>2, <1>5 DEF Sensors
  <1>8. ASSUME NEW b \in Nat, b <= clock, \A s \in on : b <= stamp[s]
        PROVE  b <= t4
    <2>1. b <= t1  BY <1>8, <1>1, <1>2 DEF Sensors
    <2>2. b <= t2  BY <1>8, <2>1, <1>5, <1>2 DEF Sensors
    <2>3. b <= t3  BY <1>8, <2>2, <1>5, <1>2 DEF Sensors
    <2> QED  BY <1>8, <2>3, <1>5, <1>2 DEF Sensors
  <1> HIDE DEF t1, t2, t3, t4
  <1>9. \A s \in on : t4 <= stamp[s]
    BY <1>1, <1>4, <1>5, <1>6, <1>7 DEF Times
  <1> QED
    BY <1>1, <1>3, <1>5, <1>6, <1>8, <1>9 DEF Times

LEMMA EkfTypeInit == EkfInit => EkfTypeOK
  <1> SUFFICES ASSUME EkfInit PROVE EkfTypeOK
    OBVIOUS
  <1>1. 0 \in Times
    BY DEF Times
  <1>2. clock \in Times /\ filter_stamp \in Times /\ est_time \in Times
    BY <1>1 DEF EkfInit
  <1>3. /\ stamp \in [Used -> Times] /\ got \in [Used -> Times]
        /\ init_stamp \in [Used -> Times] /\ old \in [Used -> Times]
    BY <1>1 DEF EkfInit
  <1>4. buffer \in [Used -> SUBSET Times]
    BY DEF EkfInit
  <1>5. /\ activated \subseteq Used /\ initializing \subseteq Used /\ begun \subseteq Used
        /\ ready \in BOOLEAN /\ halfway \in BOOLEAN /\ late \in BOOLEAN
    BY DEF EkfInit
  <1> QED
    BY <1>2, <1>3, <1>4, <1>5, Zenon DEF EkfTypeOK

LEMMA UpdateType ==
  ASSUME EkfTypeOK, NEW on \in SUBSET Used, NEW t \in Times, UpdateEstimate(on, t)
  PROVE  /\ est_time' \in Times /\ begun' \subseteq Used /\ old' \in [Used -> Times]
         /\ halfway' \in BOOLEAN
  BY DEF UpdateEstimate, Reached, EkfTypeOK

LEMMA StartType ==
  ASSUME EkfTypeOK, NEW on \in SUBSET Used, Start(on)
  PROVE  /\ est_time' \in Times /\ ready' \in BOOLEAN
         /\ UNCHANGED <<begun, old, halfway>>
  <1> DEFINE from == IF "gps" \in Used
                       THEN IF "gps" \in on /\ on # {"gps"} THEN {"gps"} ELSE {}
                       ELSE IF "odom" \in on THEN {"odom"} ELSE on \cap {"vo"}
  <1>1. from \subseteq Used
    OBVIOUS
  <1>2. /\ ready' = (from # {})
        /\ est_time' = IF from = {} THEN est_time ELSE stamp[CHOOSE s \in from : TRUE]
        /\ UNCHANGED <<begun, old, halfway>>
    BY DEF Start
  <1> HIDE DEF from
  <1>3. from # {} => (CHOOSE s \in from : TRUE) \in Used
    BY <1>1
  <1>4. est_time' \in Times
    BY <1>2, <1>3 DEF EkfTypeOK
  <1> QED  BY <1>2, <1>4

LEMMA EkfTypeStep == EkfTypeOK /\ [EkfNext]_ekfVars => EkfTypeOK'
  <1> SUFFICES ASSUME EkfTypeOK, [EkfNext]_ekfVars PROVE EkfTypeOK'
    OBVIOUS
  <1>1. CASE Tick
    BY <1>1 DEF Tick, EkfTypeOK, node, filter, Times
  <1>2. ASSUME NEW s \in Used, NEW t \in Times, Receive(s, t)
        PROVE  EkfTypeOK'
    BY <1>2, Zenon DEF Receive, Stamp, EkfTypeOK
  <1>3. ASSUME NEW t \in Times, Untransformed(t)
        PROVE  EkfTypeOK'
    BY <1>3, Zenon DEF Untransformed, Stamp, EkfTypeOK, filter
  <1>4. CASE Spin
    <2> DEFINE on == activated \cap Alive
    <2>1. on \in SUBSET Used /\ initializing' \subseteq Used
      BY <1>4 DEF EkfTypeOK, Spin
    <2>2. HeardUpTo(on) \in Times
      BY <2>1, HeardIsLeast
    <2>3. /\ est_time' \in Times /\ begun' \subseteq Used /\ old' \in [Used -> Times]
          /\ halfway' \in BOOLEAN /\ ready' \in BOOLEAN
      <3>1. CASE on = {}
        BY <1>4, <3>1 DEF Spin, EkfTypeOK
      <3>2. CASE on # {} /\ ready
        BY <1>4, <3>2, <2>1, <2>2, UpdateType DEF Spin, EkfTypeOK
      <3>3. CASE on # {} /\ ~ready
        BY <1>4, <3>3, <2>1, StartType DEF Spin, EkfTypeOK
      <3> QED  BY <3>1, <3>2, <3>3
    <2> QED
      BY <1>4, <2>1, <2>2, <2>3 DEF Spin, EkfTypeOK
  <1>5. CASE UNCHANGED ekfVars
    BY <1>5 DEF ekfVars, node, filter, EkfTypeOK
  <1> QED
    BY <1>1, <1>2, <1>3, <1>4, <1>5 DEF EkfNext

\* The types of the node's state hold in every behaviour.
THEOREM EkfTypeCorrect == EkfSpec => []EkfTypeOK
  BY EkfTypeInit, EkfTypeStep, PTL DEF EkfSpec

-----------------------------------------------------------------------------
\* No sensor has begun before the filter is initialized.
Counted == IncrementsFromEstimate /\ (~ready => begun = {})

LEMMA IndexType == \A s \in Sensors : Index(s) \in 1..4
  <1> SUFFICES ASSUME NEW s \in Sensors PROVE Index(s) \in 1..4
    OBVIOUS
  <1>1. \E i \in 1..4 : Order[i] = s
    BY DEF Order, Sensors
  <1> QED
    BY <1>1 DEF Index

LEMMA CountedUpdate ==
  ASSUME Counted, ready, NEW on \in SUBSET Used, NEW t \in Times, UpdateEstimate(on, t),
         UNCHANGED ready, EkfTypeOK
  PROVE  Counted'
  <1> DEFINE reached == Reached(on, t)
             taken == reached \cap on
  <1>1. CASE t <= est_time
    BY <1>1 DEF UpdateEstimate, Counted, IncrementsFromEstimate
  <1>2. CASE ~(t <= est_time)
    <2>1. /\ begun' = (begun \ reached) \cup taken
          /\ old' = [s \in Used |-> IF s \in taken THEN t ELSE old[s]]
          /\ est_time' = IF on \subseteq taken THEN t ELSE est_time
          /\ halfway' = (~(on \subseteq taken) /\ (halfway \/ taken # {}))
      BY <1>2 DEF UpdateEstimate
    <2>2. on \subseteq taken => reached = Used
      <3> SUFFICES ASSUME on \subseteq taken, NEW r \in on PROVE Covers(r, t)
        BY DEF Reached
      <3>1. Index(r) <= Index(r)
        BY IndexType
      <3> QED  BY <3>1 DEF Reached
    <2> HIDE DEF reached
    <2>3. begun \subseteq Used /\ taken \subseteq Used
      BY DEF EkfTypeOK
    \* all sensors were reached: those that are activated have just been used
    <2>4. CASE on \subseteq taken
      BY <2>1, <2>2, <2>3, <2>4 DEF Counted, IncrementsFromEstimate
    \* nothing was used: at most some sensors have been forgotten
    <2>5. CASE ~(on \subseteq taken) /\ taken = {} /\ ~halfway
      BY <2>1, <2>3, <2>5 DEF Counted, IncrementsFromEstimate
    <2>6. CASE ~(on \subseteq taken) /\ (taken # {} \/ halfway)
      BY <2>1, <2>6 DEF Counted, IncrementsFromEstimate
    <2> QED  BY <2>4, <2>5, <2>6
  <1> QED  BY <1>1, <1>2

LEMMA CountedStep == EkfTypeOK /\ Counted /\ [EkfNext]_ekfVars => Counted'
  <1> SUFFICES ASSUME EkfTypeOK, Counted, [EkfNext]_ekfVars PROVE Counted'
    OBVIOUS
  <1>1. CASE Tick \/ UNCHANGED ekfVars
    BY <1>1 DEF Tick, ekfVars, node, filter, Counted, IncrementsFromEstimate
  <1>2. ASSUME NEW s \in Used, NEW t \in Times, Receive(s, t)
        PROVE  Counted'
    BY <1>2 DEF Receive, Counted, IncrementsFromEstimate
  <1>3. ASSUME NEW t \in Times, Untransformed(t)
        PROVE  Counted'
    BY <1>3 DEF Untransformed, filter, Counted, IncrementsFromEstimate
  <1>4. CASE Spin
    <2> DEFINE on == activated \cap Alive
    <2>1. on \in SUBSET Used /\ HeardUpTo(on) \in Times
      BY HeardIsLeast DEF EkfTypeOK
    <2>2. CASE on = {}
      BY <1>4, <2>2 DEF Spin, Counted, IncrementsFromEstimate
    <2>3. CASE on # {} /\ ready
      BY <1>4, <2>1, <2>3, CountedUpdate DEF Spin
    <2>4. CASE on # {} /\ ~ready
      <3>1. begun' = {}
        BY <1>4, <2>4 DEF Spin, Start, Counted
      <3> QED  BY <3>1 DEF Counted, IncrementsFromEstimate
    <2> QED  BY <2>2, <2>3, <2>4
  <1> QED
    BY <1>1, <1>2, <1>3, <1>4 DEF EkfNext

\* Between complete updates the increments of every begun sensor start at the
\* time of the estimate, also after a sensor was lost and came back
\* (OdomEstimation::update).
THEOREM IncrementsFromEstimateHolds == EkfSpec => []IncrementsFromEstimate
  <1>1. EkfInit => Counted
    BY DEF EkfInit, Counted, IncrementsFromEstimate
  <1>2. Counted => IncrementsFromEstimate
    BY DEF Counted
  <1> QED
    BY <1>1, <1>2, CountedStep, EkfTypeCorrect, PTL DEF EkfSpec

-----------------------------------------------------------------------------
\* The filter does not pass the last message of an activated sensor, and has come
\* to its first measurement.
Activated ==
  /\ filter_stamp <= clock
  /\ ~late =>
       /\ \A s \in activated : /\ filter_stamp <= stamp[s]
                             /\ \E a \in buffer[s] : a <= filter_stamp
       /\ \A s \in initializing : init_stamp[s] \in buffer[s]

LEMMA ActivatedStep == EkfTypeOK /\ Activated /\ [EkfNext]_ekfVars => Activated'
  <1> SUFFICES ASSUME EkfTypeOK, Activated, [EkfNext]_ekfVars PROVE Activated'
    OBVIOUS
  <1>1. CASE Tick \/ UNCHANGED ekfVars
    BY <1>1 DEF Tick, ekfVars, node, filter, Activated, EkfTypeOK, Times
  <1>2. ASSUME NEW s \in Used, NEW t \in Times, Receive(s, t)
        PROVE  Activated'
    <2>1. /\ clock' = clock /\ filter_stamp' = filter_stamp
          /\ filter_stamp <= clock
      BY <1>2 DEF Receive, Activated
    <2> SUFFICES ASSUME ~late'
                 PROVE  /\ \A r \in activated' : /\ filter_stamp <= stamp'[r]
                                               /\ \E a \in buffer'[r] : a <= filter_stamp
                        /\ \A r \in initializing' : init_stamp'[r] \in buffer'[r]
      BY <2>1 DEF Activated
    <2>a. ~late /\ ~(t < clock) /\ t <= clock
      BY <1>2, Zenon DEF Receive, Stamp
    <2>2. ~late /\ t = clock
      BY <2>a DEF EkfTypeOK, Times
    <2>3. /\ stamp' = [stamp EXCEPT ![s] = t]
          /\ buffer' = [buffer EXCEPT ![s] = @ \cup {t}]
          /\ init_stamp' = IF s \in activated \cup initializing THEN init_stamp
                           ELSE [init_stamp EXCEPT ![s] = t]
          /\ activated' \subseteq activated \cup {s}
          /\ s \in activated' => s \in activated \/ filter_stamp >= init_stamp'[s]
          /\ initializing' \subseteq initializing \cup {s}
          /\ s \in initializing' => s \notin activated
      BY <1>2 DEF Receive, Stamp
    <2>4. \A r \in Used : r # s => /\ stamp'[r] = stamp[r] /\ buffer'[r] = buffer[r]
                                   /\ init_stamp'[r] = init_stamp[r]
      BY <2>3 DEF EkfTypeOK
    <2>5. stamp'[s] = clock /\ buffer'[s] = buffer[s] \cup {clock}
      BY <2>2, <2>3 DEF EkfTypeOK
    <2>6. s \notin activated => init_stamp'[s] \in buffer'[s]
      BY <2>2, <2>3, <2>5 DEF Activated, EkfTypeOK
    <2>7. ASSUME NEW r \in activated'
          PROVE  filter_stamp <= stamp'[r] /\ \E a \in buffer'[r] : a <= filter_stamp
      <3>1. CASE r # s
        BY <3>1, <2>2, <2>3, <2>4, <2>7 DEF Activated, EkfTypeOK
      <3>2. CASE r = s /\ s \in activated
        BY <3>2, <2>1, <2>2, <2>5 DEF Activated
      <3>3. CASE r = s /\ s \notin activated
        <4>1. init_stamp'[s] <= filter_stamp
          BY <3>3, <2>3, <2>7, <1>2, EkfTypeStep DEF EkfTypeOK, Times
        <4> QED  BY <4>1, <3>3, <2>1, <2>5, <2>6
      <3> QED  BY <3>1, <3>2, <3>3
    <2>8. ASSUME NEW r \in initializing'
          PROVE  init_stamp'[r] \in buffer'[r]
      BY <2>2, <2>3, <2>4, <2>6, <2>8 DEF Activated, EkfTypeOK
    <2> QED  BY <2>7, <2>8
  <1>3. ASSUME NEW t \in Times, Untransformed(t)
        PROVE  Activated'
    <2>1. /\ stamp' = [stamp EXCEPT !["imu"] = t] /\ late' = (late \/ t < clock) /\ t <= clock
          /\ UNCHANGED <<clock, filter_stamp, activated, initializing, init_stamp, buffer>>
      BY <1>3 DEF Untransformed, Stamp, filter
    <2>a. ~late' => ~late /\ ~(t < clock)
      BY <2>1, Zenon
    <2>2. ~late' => ~late /\ t = clock
      BY <2>1, <2>a DEF EkfTypeOK, Times
    <2>3. \A s \in Used : stamp'[s] = IF s = "imu" THEN t ELSE stamp[s]
      BY <2>1 DEF EkfTypeOK
    <2> QED
      BY <2>1, <2>2, <2>3 DEF Activated, EkfTypeOK
  <1>4. CASE Spin
    <2> DEFINE on == activated \cap Alive
    <2>1. on \in SUBSET Used
      BY DEF EkfTypeOK
    <2>2. /\ activated' = on /\ initializing' \subseteq initializing
          /\ filter_stamp' = HeardUpTo(on)
          /\ UNCHANGED <<clock, stamp, init_stamp, buffer, late>>
      BY <1>4 DEF Spin
    <2>3. /\ HeardUpTo(on) \in Times /\ HeardUpTo(on) <= clock
          /\ \A s \in on : HeardUpTo(on) <= stamp[s]
      BY <2>1, HeardIsLeast
    <2>4. ~late => filter_stamp <= HeardUpTo(on)
      BY <2>1, HeardIsLeast DEF Activated, EkfTypeOK, Times
    <2>5. \A s \in on : \A a \in buffer[s] : a \in Nat
      BY <2>1 DEF EkfTypeOK, Times
    <2>6. filter_stamp \in Nat
      BY DEF EkfTypeOK, Times
    <2> DEFINE t == HeardUpTo(on)
    <2>7. t \in Nat /\ filter_stamp' = t /\ t <= clock'
      BY <2>2, <2>3 DEF Times
    <2>8. ASSUME ~late', NEW s \in activated'
          PROVE  t <= stamp'[s] /\ \E a \in buffer'[s] : a <= t
      <3>1. s \in on /\ s \in activated /\ ~late
        BY <2>2, <2>8
      <3>2. PICK a \in buffer[s] : a <= filter_stamp
        BY <3>1 DEF Activated
      <3>3. a \in Nat /\ filter_stamp <= t
        BY <3>1, <3>2, <2>4, <2>5
      <3>4. a <= t
        BY <3>2, <3>3, <2>6, <2>7
      <3> QED  BY <3>1, <3>2, <3>4, <2>2, <2>3
    <2>9. ASSUME ~late', NEW s \in initializing'
          PROVE  init_stamp'[s] \in buffer'[s]
      BY <2>2, <2>9 DEF Activated
    <2> HIDE DEF t
    <2> QED
      BY <2>7, <2>8, <2>9 DEF Activated
  <1> QED
    BY <1>1, <1>2, <1>3, <1>4 DEF EkfNext

\* With messages that come as they are stamped no activated sensor is asked for a
\* time before its first measurement (the activation in the callbacks and the
\* choice of the filter time in spin()).
THEOREM NeverTooEarlyHolds == EkfSpec => []NeverTooEarly
  <1>1. EkfInit => Activated
    BY DEF EkfInit, Activated
  <1>2. EkfTypeOK /\ Activated => NeverTooEarly
    <2> SUFFICES ASSUME EkfTypeOK, Activated, ~late, NEW s \in activated \cap Alive
                 PROVE  \E a \in buffer[s] : a <= HeardUpTo(activated \cap Alive)
      BY DEF NeverTooEarly
    <2> DEFINE on == activated \cap Alive
    <2>1. HeardUpTo(on) \in Times /\ filter_stamp <= HeardUpTo(on)
      BY HeardIsLeast DEF Activated, EkfTypeOK, Times
    <2>2. PICK a \in buffer[s] : a <= filter_stamp
      BY DEF Activated
    <2>3. a \in Nat /\ filter_stamp \in Nat
      BY DEF EkfTypeOK, Times
    <2> QED  BY <2>1, <2>2, <2>3 DEF Times
  <1> QED
    BY <1>1, <1>2, ActivatedStep, EkfTypeCorrect, PTL DEF EkfSpec

-----------------------------------------------------------------------------
\* The merging of scans

LEMMA MergerTypeInit == MergerInit => MergerTypeOK
  BY DEF MergerInit, MergerTypeOK

LEMMA MergerTypeStep == MergerTypeOK /\ [MergerNext]_mergerVars => MergerTypeOK'
  <1> SUFFICES ASSUME MergerTypeOK, [MergerNext]_mergerVars PROVE MergerTypeOK'
    OBVIOUS
  <1> USE DEF MergerTypeOK
  <1>1. CASE LookForTopics
    BY <1>1 DEF LookForTopics
  <1>2. ASSUME NEW l \in Lasers, Advertise(l) \/ SendScan(l)
        PROVE  MergerTypeOK'
    BY <1>2 DEF Advertise, SendScan
  <1>3. ASSUME NEW l \in Lasers, ScanCallback(l)
        PROVE  MergerTypeOK'
    BY <1>3 DEF ScanCallback, Transformed, TransformFails, TakeScan, Complete
  <1>4. CASE UNCHANGED mergerVars
    BY <1>4 DEF mergerVars
  <1> QED  BY <1>1, <1>2, <1>3, <1>4 DEF MergerNext

\* The types of the merger's state hold in every behaviour, for any lasers.
THEOREM MergerTypeCorrect == MergerSpec => []MergerTypeOK
  BY MergerTypeInit, MergerTypeStep, PTL DEF MergerSpec

\* The callback of the last laser merges all clouds.
Merge == \E l \in Lasers : Complete(l) /\ Transformed(l)

\* A cloud that is kept stays until the clouds of all lasers are merged.
LEMMA CloudStays ==
  ASSUME NEW l \in Lasers, [MergerNext]_mergerVars
  PROVE  /\ l \in clouds_modified => l \in clouds_modified' \/ <<Merge>>_mergerVars
         /\ Transformed(l) => l \in clouds_modified' \/ <<Merge>>_mergerVars
  <1>1. ASSUME NEW k \in Lasers, Transformed(k), Complete(k)
        PROVE  <<Merge>>_mergerVars
    BY <1>1 DEF Merge, Transformed, TakeScan, mergerVars
  <1>2. ASSUME NEW k \in Lasers, Transformed(k), ~Complete(k)
        PROVE  clouds_modified' = clouds_modified \cup {k}
    BY <1>2 DEF Transformed
  <1>3. UNCHANGED clouds_modified \/ \E k \in Lasers : Transformed(k)
    BY DEF MergerNext, LookForTopics, Advertise, SendScan, ScanCallback, TransformFails, mergerVars
  <1> QED  BY <1>1, <1>2, <1>3

\* With the two lasers of the launch files, merged scans go on as long as both
\* lasers' scans can be transformed now and then, whatever fails in between.
THEOREM MergeGoesOnHolds ==
  ASSUME NEW a, NEW b, Lasers = {a, b}
  PROVE  MergerSpec => MergeGoesOn
  <1> DEFINE A == a \in clouds_modified
             Both == \A l \in Lasers : Recurs(l)
  <1>1. [MergerNext]_mergerVars =>
          /\ A => A' \/ <<Merge>>_mergerVars
          /\ <<Transformed(a)>>_mergerVars => A' \/ <<Merge>>_mergerVars
    BY CloudStays
  <1>2. MergerTypeOK /\ <<Transformed(b)>>_mergerVars => (A => <<Merge>>_mergerVars)
    <2> SUFFICES ASSUME MergerTypeOK, <<Transformed(b)>>_mergerVars, A
                 PROVE  <<Merge>>_mergerVars
      OBVIOUS
    <2>1. Complete(b)
      BY DEF MergerTypeOK, Complete
    <2> QED  BY <2>1 DEF Merge
  <1>3. Both => Recurs(a) /\ Recurs(b)
    OBVIOUS
  <1>4. <<Merge>>_mergerVars <=> <<\E l \in Lasers : Complete(l) /\ Transformed(l)>>_mergerVars
    BY DEF Merge
  <1>5. (\A l \in Lasers : Recurs(l)) <=> Both
    OBVIOUS
  <1> HIDE DEF A, Both
  <1> QED
    BY <1>1, <1>2, <1>3, <1>4, <1>5, MergerTypeCorrect, PTL DEF MergerSpec, MergeGoesOn, Recurs

-----------------------------------------------------------------------------
\* All the nodes of MCNodes

\* The types of the state of all the nodes hold together, for any values of their
\* constants, whichever node moves.
THEOREM NodesTypeCorrect == FairNodesSpec => []NodesTypeOK
  <1> DEFINE Inv == NodesTypeOK /\ Bounded
  <1>1. NodesInit => Inv
    BY TeleopTypeInit, DriveTypeInit, JoyTypeInit, EkfTypeInit, MergerTypeInit, TypeInit
       DEF NodesInit, NodesTypeOK
  <1>2. Inv /\ [NodesNext]_nodesVars => Inv'
    <2> SUFFICES ASSUME Inv, [NodesNext]_nodesVars PROVE Inv'
      OBVIOUS
    <2>1. /\ [TeleopNext]_teleopVars /\ [DriveNext]_driveVars /\ [JoyNext]_joyVars
          /\ [EkfNext]_ekfVars /\ [MergerNext]_mergerVars /\ [ImuNext]_imuVars
      BY DEF NodesNext, Still, nodesVars
    <2> QED
      BY <2>1, TeleopTypeStep, DriveTypeStep, JoyTypeStep, EkfTypeStep, MergerTypeStep, TypeStep
         DEF NodesTypeOK
  <1>3. Inv => NodesTypeOK
    OBVIOUS
  <1> HIDE DEF Inv
  <1> QED  BY <1>1, <1>2, <1>3, PTL DEF FairNodesSpec
=============================================================================
