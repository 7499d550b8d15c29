----------------------------- MODULE ScanMerger -----------------------------
(***************************************************************************)
(* The node that merges the scans of several lasers (laserscan_multi_merger *)
(* in ira_laser_tools).  Its constructor waits until the master lists every *)
(* topic; then ros::spin() runs the scan callbacks in one thread.  Points  *)
(* are left out.  The master, the lasers and tf are external.              *)
(***************************************************************************)
EXTENDS Integers

CONSTANT Lasers  \* the topics in the parameter laserscan_topics

VARIABLES
  tokens,      \* topics not found yet
  advertised,  \* topics the master lists as laser scans
  subscribed,  \* the constructor has subscribed
  slot,        \* lasers with a scan in the subscription's queue of one
  clouds_modified

mergerVars == <<tokens, advertised, subscribed, slot, clouds_modified>>

MergerTypeOK ==
  /\ tokens \subseteq Lasers /\ advertised \subseteq Lasers
  /\ subscribed \in BOOLEAN
  /\ slot \subseteq Lasers /\ clouds_modified \subseteq Lasers

MergerInit ==
  /\ tokens = Lasers /\ advertised = {}
  /\ subscribed = FALSE
  /\ slot = {} /\ clouds_modified = {}

\* A laser's driver starts or ends.
Advertise(l) ==
  /\ advertised' = IF l \in advertised THEN advertised \ {l} ELSE advertised \cup {l}
  /\ UNCHANGED <<tokens, subscribed, slot, clouds_modified>>

\* One round of the parser; it subscribes when no topic is left to find.
LookForTopics ==
  /\ ~subscribed
  /\ tokens' = tokens \ advertised
  /\ subscribed' = (tokens' = {})
  /\ UNCHANGED <<advertised, slot, clouds_modified>>

\* A scan takes the place of one that waits.
SendScan(l) ==
  /\ subscribed /\ l \in advertised
  /\ slot' = slot \cup {l}
  /\ UNCHANGED <<tokens, advertised, subscribed, clouds_modified>>

\* scanCallback takes the scan and waits for its transform.
TakeScan(l) ==
  /\ l \in slot
  /\ slot' = slot \ {l}
  /\ UNCHANGED <<tokens, advertised, subscribed>>

\* Mutant of TransformFails: a failed transform takes the laser's cloud back.
FailureForgets(l) ==
  /\ TakeScan(l)
  /\ clouds_modified' = clouds_modified \ {l}

\* The scan is dropped, the laser's earlier cloud stays.
TransformFails(l) ==
  /\ TakeScan(l)
  /\ UNCHANGED clouds_modified

\* All lasers have sent a scan since the last merge, this one included.
Complete(l) == clouds_modified \cup {l} = Lasers

\* The cloud is stored; the last laser's callback merges all of them.
Transformed(l) ==
  /\ TakeScan(l)
  /\ clouds_modified' = IF Complete(l) THEN {} ELSE clouds_modified \cup {l}

ScanCallback(l) == Transformed(l) \/ TransformFails(l)

MergerNext ==
  \/ LookForTopics
  \/ \E l \in Lasers : Advertise(l) \/ SendScan(l) \/ ScanCallback(l)

MergerSpec == MergerInit /\ [][MergerNext]_mergerVars

-----------------------------------------------------------------------------
\* As long as every laser's scans can be transformed now and then, merged scans
\* go on, however many transforms fail in between and in whatever order and at
\* whatever rates the lasers send.
Recurs(l) == []<><<Transformed(l)>>_mergerVars
MergeGoesOn ==
  (\A l \in Lasers : Recurs(l))
    => []<><<\E l \in Lasers : Complete(l) /\ Transformed(l)>>_mergerVars
=============================================================================
