------------------------------ MODULE PoseEkf ------------------------------
(***************************************************************************)
(* The pose estimation node (robot_pose_ekf): which sensors are active,    *)
(* at which time the Kalman filter is updated, and from where it counts    *)
(* the increments of a sensor.  ros::spin() runs all callbacks and the     *)
(* timer in one thread.  Poses and covariances are left out; a measurement *)
(* is its time stamp.  Times are whole units of sensor_timeout.            *)
(***************************************************************************)
EXTENDS Integers

CONSTANTS
  Used,     \* the sensors with *_used_ (odom and imu in the launch files)
  Timeout,  \* sensor_timeout
  MaxTime   \* bound: the clock stops here

Order == <<"odom", "imu", "vo", "gps">>
Sensors == {"odom", "imu", "vo", "gps"}
\* Their measurements are used as increments; a gps position is used as it is.
Relative == {"odom", "imu", "vo"}
Times == 0..MaxTime

ASSUME UsedAssumption == Used \subseteq Sensors
ASSUME TimesAssumption == Timeout \in Nat /\ MaxTime \in Nat

VARIABLES
  clock,         \* Time::now()
  stamp,         \* *_stamp_, of the last message
  got,           \* *_time_, when it was received
  activated,     \* *_active_
  initializing,  \* *_initializing_
  init_stamp,    \* *_init_stamp_
  filter_stamp,  \* filter_stamp_
  buffer,        \* the stamps of the measurements in transformer_
  ready,         \* filter_initialized_
  est_time,      \* filter_time_old_, the time of filter_estimate_old_
  begun,         \* *_initialized_: an earlier measurement is in old
  old,           \* the time of *_meas_old_
  halfway,       \* history: an update has used a sensor and then given up
  late           \* history: a message arrived later than it was stamped

node == <<stamp, got, activated, initializing, init_stamp, filter_stamp>>
filter == <<buffer, ready, est_time, begun, old, halfway>>
ekfVars == <<clock, node, filter, late>>

EkfTypeOK ==
  /\ clock \in Times /\ filter_stamp \in Times /\ est_time \in Times
  /\ stamp \in [Used -> Times] /\ got \in [Used -> Times]
  /\ init_stamp \in [Used -> Times] /\ old \in [Used -> Times]
  /\ buffer \in [Used -> SUBSET Times]
  /\ activated \subseteq Used /\ initializing \subseteq Used /\ begun \subseteq Used
  /\ ready \in BOOLEAN /\ halfway \in BOOLEAN /\ late \in BOOLEAN

EkfInit ==
  /\ clock = 0 /\ filter_stamp = 0 /\ est_time = 0
  /\ stamp = [s \in Used |-> 0] /\ got = [s \in Used |-> 0]
  /\ init_stamp = [s \in Used |-> 0] /\ old = [s \in Used |-> 0]
  /\ buffer = [s \in Used |-> {}]
  /\ activated = {} /\ initializing = {} /\ begun = {}
  /\ ready = FALSE /\ halfway = FALSE /\ late = FALSE

Tick ==
  /\ clock < MaxTime
  /\ clock' = clock + 1
  /\ UNCHANGED <<node, filter, late>>

-----------------------------------------------------------------------------
\* The sensors' callbacks

\* The messages of a sensor arrive in the order of their stamps.
Stamp(s, t) ==
  /\ stamp[s] <= t /\ t <= clock
  /\ stamp' = [stamp EXCEPT ![s] = t]
  /\ late' = (late \/ t < clock)

\* Mutant of Receive: a sensor is active from its first message on.
ReceiveActivates(s, t) ==
  /\ Stamp(s, t)
  /\ got' = [got EXCEPT ![s] = clock]
  /\ buffer' = [buffer EXCEPT ![s] = @ \cup {t}]
  /\ activated' = activated \cup {s}
  /\ UNCHANGED <<clock, initializing, init_stamp, filter_stamp, ready, est_time, begun, old,
                 halfway>>

\* A sensor is activated once the filter has come to its first measurement.
Receive(s, t) ==
  /\ Stamp(s, t)
  /\ got' = [got EXCEPT ![s] = clock]
  /\ buffer' = [buffer EXCEPT ![s] = @ \cup {t}]
  /\ init_stamp' = IF s \in activated \cup initializing THEN init_stamp
                   ELSE [init_stamp EXCEPT ![s] = t]
  /\ LET due == s \in activated \/ filter_stamp >= init_stamp'[s] IN
     /\ activated' = IF due THEN activated \cup {s} ELSE activated
     /\ initializing' = IF due THEN initializing \ {s} ELSE initializing \cup {s}
  /\ UNCHANGED <<clock, filter_stamp, ready, est_time, begun, old, halfway>>

\* imuCallback stores the stamp before it waits for the transform to the base,
\* which may not come.
Untransformed(t) ==
  /\ "imu" \in Used
  /\ Stamp("imu", t)
  /\ UNCHANGED <<clock, got, activated, initializing, init_stamp, filter_stamp, filter>>

-----------------------------------------------------------------------------
\* spin()

\* canTransform: the buffer interpolates between its measurements.
Covers(s, t) == \E a, b \in buffer[s] : a <= t /\ t <= b

Index(s) == CHOOSE i \in 1..4 : Order[i] = s
\* The sensors that update() gets to: those before the first that is active and
\* has no measurement for time t.
Reached(on, t) ==
  {s \in Used : \A r \in on : Index(r) <= Index(s) => Covers(r, t)}

\* Mutant of UpdateEstimate: the sensors that are not active stay begun.
UpdateNeverForgets(on, t) ==
  IF t <= est_time
    THEN UNCHANGED <<est_time, begun, old, halfway>>
    ELSE LET taken == Reached(on, t) \cap on IN
         /\ begun' = begun \cup taken
         /\ old' = [s \in Used |-> IF s \in taken THEN t ELSE old[s]]
         /\ est_time' = IF on \subseteq taken THEN t ELSE est_time
         /\ halfway' = (~(on \subseteq taken) /\ (halfway \/ taken # {}))

\* Each sensor in turn: its increment since old, or its first measurement.  The
\* estimate and its time are stored only if all sensors were reached.
UpdateEstimate(on, t) ==
  IF t <= est_time
    THEN UNCHANGED <<est_time, begun, old, halfway>>
    ELSE LET reached == Reached(on, t)
             taken == reached \cap on IN
         /\ begun' = (begun \ reached) \cup taken
         /\ old' = [s \in Used |-> IF s \in taken THEN t ELSE old[s]]
         /\ est_time' = IF on \subseteq taken THEN t ELSE est_time
         /\ halfway' = (~(on \subseteq taken) /\ (halfway \/ taken # {}))

\* The first pose: from gps when it is used, else from odom or vo.
Start(on) ==
  LET from == IF "gps" \in Used
                THEN IF "gps" \in on /\ on # {"gps"} THEN {"gps"} ELSE {}
                ELSE IF "odom" \in on THEN {"odom"} ELSE on \cap {"vo"} IN
  /\ ready' = (from # {})
  /\ est_time' = IF from = {} THEN est_time ELSE stamp[CHOOSE s \in from : TRUE]
  /\ UNCHANGED <<begun, old, halfway>>

\* The sensors that sent something within the timeout, and the time up to which
\* all the active ones have been heard.
Alive == {s \in Used : clock - got[s] <= Timeout}
HeardUpTo(on) ==
  LET Until(t, s) == IF s \in on /\ stamp[s] < t THEN stamp[s] ELSE t IN
  Until(Until(Until(Until(clock, "odom"), "imu"), "vo"), "gps")

Spin ==
  LET on == activated \cap Alive
      t == HeardUpTo(on) IN
  /\ activated' = on
  /\ initializing' = initializing \cap Alive
  /\ filter_stamp' = t
  /\ IF on = {} THEN UNCHANGED <<ready, est_time, begun, old, halfway>>
     ELSE IF ready THEN UpdateEstimate(on, t) /\ UNCHANGED ready
     ELSE Start(on)
  /\ UNCHANGED <<clock, stamp, got, init_stamp, buffer, late>>

EkfNext ==
  \/ Tick \/ Spin
  \/ \E s \in Used, t \in Times : Receive(s, t)
  \/ \E t \in Times : Untransformed(t)

EkfSpec == EkfInit /\ [][EkfNext]_ekfVars

-----------------------------------------------------------------------------
\* The increment of a sensor is added to the estimate, so it has to begin where
\* the estimate stands, also when the sensor fell silent for a while and came
\* back.  An update that gives up halfway breaks this until the next complete one.
IncrementsFromEstimate ==
  (ready /\ ~halfway) => \A s \in begun \cap Relative : old[s] = est_time

\* What the activation of the sensors is for: the filter never asks an active
\* sensor for a time before its first measurement ("filter time older than ...
\* message buffer").  This needs messages that arrive as they are stamped: with
\* late ones the filter can start before the first measurement of the imu.
NeverTooEarly ==
  LET on == activated \cap Alive IN
  ~late => \A s \in on : \E a \in buffer[s] : a <= HeardUpTo(on)
=============================================================================
