---------------------------- MODULE AgvHwProofs ----------------------------
(***************************************************************************)
(* Proofs about the hardware node, for any callers, any modes they use and *)
(* any number of polls.                                                    *)
(***************************************************************************)
EXTENDS AgvHw, TLAPS

\* Polling is bounded: the counter of an unfinished poll is below the limit.
PollBound ==
  \A c \in Clients : tries[c] < MaxTries

TypeInv == TypeOK /\ PollBound

LEMMA InitType == Init => TypeInv
<1> SUFFICES ASSUME Init PROVE TypeInv
  OBVIOUS
<1>1. tries \in [Clients -> 0..MaxTries] /\ PollBound
  BY MaxTriesAssumption DEF Init, PollBound
<1>2. /\ pc \in [Clients -> Pcs]
      /\ call \in [Clients -> Requests \cup {NoRequest}]
      /\ ok \in [Clients -> BOOLEAN] /\ grab \in [Clients -> BOOLEAN]
  BY DEF Init, Pcs
<1>3. axis \in [{"open", "lift"} -> AxisStates]
  BY DEF Init, AxisStates
<1> QED BY <1>1, <1>2, <1>3 DEF Init, TypeInv, TypeOK, Statuses

LEMMA LoopKeepsType ==
  ASSUME TypeInv, Loop \/ DatumArrives \/ \E a \in {"open", "lift"} : AxisArrives(a)
  PROVE  TypeInv'
<1> USE DEF TypeInv, TypeOK, PollBound, server, card
<1>1. CASE WriteSwitch \/ DatumArrives
  BY <1>1 DEF WriteSwitch, DatumArrives
<1>2. CASE WriteCase
  <2>1. dac' \subseteq Drives
    BY <1>2 DEF WriteCase, Outputs, Drives
  <2>2. axis' \in [{"open", "lift"} -> AxisStates] /\ datum' \in {"none", "running", "home"}
    BY <1>2 DEF WriteCase, AxisStates
  <2> QED BY <1>2, <2>1, <2>2 DEF WriteCase
<1>3. ASSUME NEW a \in {"open", "lift"}, AxisArrives(a)
      PROVE  TypeInv'
  BY <1>3 DEF AxisArrives, AxisStates
<1> QED BY <1>1, <1>2, <1>3 DEF Loop

LEMMA RequestKeepsType ==
  ASSUME TypeInv, NEW c \in Clients, Request(c)
  PROVE  TypeInv'
<1>1. PICK r \in Requests : call' = [call EXCEPT ![c] = r] /\ status' = r.mode
  BY DEF Request
<1>2. r.mode \in Statuses
  BY <1>1, ModesAssumption DEF Requests
<1> QED BY <1>1, <1>2, MaxTriesAssumption
        DEF Request, Goto, TypeInv, TypeOK, PollBound, card, Pcs

\* The polls of a served call go up by one below the limit, or start again.
PollStep(c) ==
  \/ UNCHANGED tries
  \/ tries' = [tries EXCEPT ![c] = 0]
  \/ tries[c] + 1 # MaxTries /\ tries' = [tries EXCEPT ![c] = @ + 1]

LEMMA PollStepBounded ==
  ASSUME TypeInv, NEW c \in Clients, PollStep(c)
  PROVE  tries' \in [Clients -> 0..MaxTries] /\ PollBound'
<1>1. MaxTries \in Nat /\ MaxTries > 0
  BY MaxTriesAssumption
<1>2. tries \in [Clients -> 0..MaxTries] /\ \A d \in Clients : tries[d] < MaxTries
  BY DEF TypeInv, TypeOK, PollBound
<1>3. CASE UNCHANGED tries
  BY <1>2, <1>3 DEF PollBound
<1>4. CASE tries' = [tries EXCEPT ![c] = 0]
  BY <1>1, <1>2, <1>4 DEF PollBound
<1>5. CASE tries[c] + 1 # MaxTries /\ tries' = [tries EXCEPT ![c] = @ + 1]
  <2>1. tries[c] + 1 \in 0..MaxTries /\ tries[c] + 1 < MaxTries
    BY <1>1, <1>2, <1>5
  <2> QED BY <1>2, <1>5, <2>1 DEF PollBound
<1> QED BY <1>3, <1>4, <1>5 DEF PollStep

\* A call in Grab_Server.
LEMMA ServeKeepsType ==
  ASSUME TypeInv, NEW c \in Clients, Serve(c)
  PROVE  TypeInv'
<1>1. PollStep(c)
  BY DEF Serve, GrabBranch, OpenPoll, LiftStart, LiftPoll, HomeBranch, FrontStart, FrontPoll,
         RearStart, RearPoll, DatumPoll, ZeroDone, ResetBranch, OpeningPoll, LoweringPoll, PollStep
<1>2. tries' \in [Clients -> 0..MaxTries] /\ PollBound'
  BY <1>1, PollStepBounded
<1>3. pc' \in [Clients -> Pcs]
  BY DEF Serve, GrabBranch, OpenPoll, LiftStart, LiftPoll, HomeBranch, FrontStart, FrontPoll,
         RearStart, RearPoll, Datum, DatumPoll, ZeroDone, ResetBranch, OpeningPoll, LoweringPoll,
         Goto, TypeInv, TypeOK, Pcs
<1>4. axis' \in [{"open", "lift"} -> AxisStates]
  BY DEF Serve, GrabBranch, OpenPoll, LiftStart, LiftPoll, HomeBranch, FrontStart, FrontPoll,
         RearStart, RearPoll, Datum, DatumPoll, ZeroDone, ResetBranch, OpeningPoll, LoweringPoll,
         TypeInv, TypeOK, AxisStates, card
<1>5. /\ dac' \subseteq Drives
      /\ enabled' \in BOOLEAN /\ datum' \in {"none", "running", "home"}
  BY DEF Serve, GrabBranch, OpenPoll, LiftStart, LiftPoll, HomeBranch, FrontStart, FrontPoll,
         RearStart, RearPoll, Datum, DatumPoll, ZeroDone, ResetBranch, OpeningPoll, LoweringPoll,
         TypeInv, TypeOK, card, Drives
<1>6. UNCHANGED <<status, wst, call>>
  BY DEF Serve, GrabBranch, OpenPoll, LiftStart, LiftPoll, HomeBranch, FrontStart, FrontPoll,
         RearStart, RearPoll, DatumPoll, ZeroDone, ResetBranch, OpeningPoll, LoweringPoll
<1>7. ok' \in [Clients -> BOOLEAN] /\ grab' \in [Clients -> BOOLEAN]
  <2>1. ok \in [Clients -> BOOLEAN] /\ grab \in [Clients -> BOOLEAN]
    BY DEF TypeInv, TypeOK
  <2>2. \/ UNCHANGED <<ok, grab>>
        \/ \E v \in BOOLEAN : ok' = [ok EXCEPT ![c] = v] /\ UNCHANGED grab
        \/ \E v \in BOOLEAN : grab' = [grab EXCEPT ![c] = v] /\ UNCHANGED ok
        \/ \E v \in BOOLEAN : ok' = [ok EXCEPT ![c] = v] /\ grab' = [grab EXCEPT ![c] = v]
    <3>1. CASE LiftPoll(c)
      <4>1. Idle("lift") \in BOOLEAN
        BY DEF Idle
      <4> QED BY <3>1, <4>1 DEF LiftPoll
    <3>2. CASE LoweringPoll(c)
      <4>1. (axis["lift"] = "limit") \in BOOLEAN
        OBVIOUS
      <4> QED BY <3>2, <4>1 DEF LoweringPoll
    <3>3. CASE ZeroDone(c) \/ ResetBranch(c)
      BY <3>3 DEF ZeroDone, ResetBranch
    <3>4. CASE UNCHANGED <<ok, grab>>
      BY <3>4
    <3> QED BY <3>1, <3>2, <3>3, <3>4
            DEF Serve, GrabBranch, OpenPoll, LiftStart, HomeBranch, FrontStart, FrontPoll,
                RearStart, RearPoll, DatumPoll, OpeningPoll
  <2> QED BY <2>1, <2>2
<1> QED BY <1>2, <1>3, <1>4, <1>5, <1>6, <1>7 DEF TypeInv, TypeOK

\* The types and the bound of the polls hold in every behaviour.
LEMMA TypeInvariant == Spec => []TypeInv
<1>1. TypeInv /\ [Next]_vars => TypeInv'
  <2> SUFFICES ASSUME TypeInv, [Next]_vars PROVE TypeInv'
    OBVIOUS
  <2>1. CASE UNCHANGED vars
    BY <2>1 DEF vars, server, card, TypeInv, TypeOK, PollBound
  <2> QED BY <2>1, LoopKeepsType, RequestKeepsType, ServeKeepsType DEF Next
<1> QED BY <1>1, InitType, PTL DEF Spec

\* Every variable keeps its type: in particular no motion is polled more often
\* than the code's limit allows, whatever the callers ask for.
THEOREM TypeCorrect == Spec => []TypeOK
<1>1. TypeInv => TypeOK
  BY DEF TypeInv
<1> QED BY <1>1, TypeInvariant, PTL
-----------------------------------------------------------------------------
\* While nobody but c calls the node: the jaws stand at their switch before the
\* lift is lowered, and a positive answer that no gripper move gave is that of a
\* reset whose axes still stand at their switches.
Zeroed == \A a \in {"open", "lift"} : axis[a] = "limit"

ResetInv(c) ==
  /\ \A d \in Clients \ {c} : pc[d] = "idle"
  /\ pc[c] # "idle" => status = call[c].mode
  /\ pc[c] \in {"open", "lift", "lifting"} => call[c].mode \in {"both", "grab"}
  /\ pc[c] \in {"opening", "lowering"} => call[c].mode = "grab_zero"
  /\ pc[c] = "lowering" => axis["open"] = "limit"
  /\ (grab[c] /\ call[c].mode \notin {"both", "grab"}) =>
       pc[c] = "idle" /\ ok[c] /\ call[c].mode = "grab_zero" /\ Zeroed

\* An axis at its switch stays there until it is commanded again.
LEMMA LoopKeepsReset ==
  ASSUME TypeOK, NEW c \in Clients, ResetInv(c),
         Loop \/ DatumArrives \/ \E a \in {"open", "lift"} : AxisArrives(a)
  PROVE  ResetInv(c)'
<1>1. UNCHANGED <<status, server>>
  BY DEF Loop, WriteSwitch, WriteCase, DatumArrives, AxisArrives
<1>2. \A a \in {"open", "lift"} : axis[a] = "limit" => axis'[a] = "limit"
  BY DEF Loop, WriteSwitch, WriteCase, DatumArrives, AxisArrives, Idle, TypeOK, card
<1> QED BY <1>1, <1>2 DEF ResetInv, Zeroed, server

LEMMA RequestKeepsReset ==
  ASSUME TypeOK, NEW c \in Clients, ResetInv(c), Request(c)
  PROVE  ResetInv(c)'
<1>1. PICK r \in Requests : call' = [call EXCEPT ![c] = r] /\ status' = r.mode
  BY DEF Request
<1>2. /\ pc' = [pc EXCEPT ![c] = "grab"]
      /\ grab' = [grab EXCEPT ![c] = FALSE]
  BY DEF Request, Goto
<1> QED BY <1>1, <1>2 DEF ResetInv, TypeOK

LEMMA ServeKeepsReset ==
  ASSUME TypeOK, NEW c \in Clients, ResetInv(c), NEW d \in Clients, Serve(d)
  PROVE  ResetInv(c)'
<1> USE DEF ResetInv, TypeOK, Zeroed
<1>1. UNCHANGED <<status, call>> /\ pc[d] # "idle"
  BY DEF Serve, GrabBranch, OpenPoll, LiftStart, LiftPoll, HomeBranch, FrontStart, FrontPoll,
         RearStart, RearPoll, DatumPoll, ZeroDone, ResetBranch, OpeningPoll, LoweringPoll
<1>2. d = c /\ status = call[c].mode
  BY <1>1
<1>3. CASE GrabBranch(c) \/ OpenPoll(c) \/ LiftStart(c) \/ LiftPoll(c)
  <2>1. /\ pc' \in [Clients -> Pcs]
        /\ pc'[c] \notin {"opening", "lowering", "idle"}
        /\ \A e \in Clients \ {c} : pc'[e] = pc[e]
    BY <1>3 DEF GrabBranch, OpenPoll, LiftStart, LiftPoll, Goto, Pcs
  <2>2. /\ pc'[c] \in {"open", "lift", "lifting"} => call[c].mode \in {"both", "grab"}
        /\ pc[c] # "idle"
    BY <1>2, <1>3 DEF GrabBranch, OpenPoll, LiftStart, LiftPoll, Goto
  <2>3. grab' = grab \/ call[c].mode \in {"both", "grab"}
    BY <1>3 DEF GrabBranch, OpenPoll, LiftStart, LiftPoll
  <2> QED BY <1>1, <1>2, <2>1, <2>2, <2>3
<1>4. CASE HomeBranch(c) \/ FrontStart(c) \/ FrontPoll(c) \/ RearStart(c) \/ RearPoll(c)
           \/ ZeroDone(c)
  <2>1. /\ pc'[c] \notin {"open", "lift", "lifting", "opening", "lowering"}
        /\ \A e \in Clients \ {c} : pc'[e] = pc[e]
        /\ pc[c] # "idle"
    BY <1>4 DEF HomeBranch, FrontStart, FrontPoll, RearStart, RearPoll, Datum, DatumPoll,
                ZeroDone, Goto
  <2>2. UNCHANGED <<grab, axis>>
    BY <1>4 DEF HomeBranch, FrontStart, FrontPoll, RearStart, RearPoll, DatumPoll, ZeroDone
  <2> QED BY <1>1, <1>2, <2>1, <2>2
<1>5. CASE ResetBranch(c)
  BY <1>1, <1>2, <1>5 DEF ResetBranch, Goto
<1>6. CASE OpeningPoll(c)
  BY <1>1, <1>2, <1>6 DEF OpeningPoll, Goto
<1>7. CASE LoweringPoll(c)
  <2>1. pc[c] = "lowering" /\ axis["open"] = "limit" /\ UNCHANGED axis
    BY <1>7 DEF LoweringPoll, card
  <2>2. CASE axis["lift"] = "limit" \/ tries[c] + 1 = MaxTries
    <3>1. /\ pc' = [pc EXCEPT ![c] = "idle"]
          /\ ok' = [ok EXCEPT ![c] = (axis["lift"] = "limit")]
          /\ grab' = [grab EXCEPT ![c] = (axis["lift"] = "limit")]
      BY <1>7, <2>2 DEF LoweringPoll, Goto
    <3>2. CASE axis["lift"] = "limit"
      BY <1>1, <1>2, <2>1, <3>1, <3>2
    <3>3. CASE axis["lift"] # "limit"
      <4>1. ~grab'[c]
        BY <3>1, <3>3
      <4> QED BY <1>1, <1>2, <2>1, <3>1, <4>1
    <3> QED BY <3>2, <3>3
  <2>3. CASE ~(axis["lift"] = "limit" \/ tries[c] + 1 = MaxTries)
    <3>1. UNCHANGED <<pc, ok, grab>>
      BY <1>7, <2>3 DEF LoweringPoll
    <3> QED BY <1>1, <1>2, <2>1, <3>1
  <2> QED BY <2>2, <2>3
<1> QED BY <1>2, <1>3, <1>4, <1>5, <1>6, <1>7 DEF Serve

\* While nobody but c calls the node: a homing that has returned true has left the
\* drive axes enabled.
HomingInv(c) ==
  /\ pc[c] \in {"reset", "opening", "lowering"} => call[c].mode # "agv_zero"
  /\ (ok[c] /\ call[c].mode = "agv_zero") => pc[c] = "idle" /\ enabled

LEMMA OthersKeepHoming ==
  ASSUME TypeOK, NEW c \in Clients, HomingInv(c),
         \/ Loop \/ DatumArrives \/ \E a \in {"open", "lift"} : AxisArrives(a)
         \/ Request(c)
  PROVE  HomingInv(c)'
<1> USE DEF TypeOK, HomingInv
<1>1. CASE Loop \/ DatumArrives \/ \E a \in {"open", "lift"} : AxisArrives(a)
  <2>1. UNCHANGED <<enabled, server>>
    BY <1>1 DEF Loop, WriteSwitch, WriteCase, DatumArrives, AxisArrives, card
  <2> QED BY <2>1 DEF server
<1>2. CASE Request(c)
  <2>1. /\ pc' = [pc EXCEPT ![c] = "grab"]
        /\ ok' = [ok EXCEPT ![c] = FALSE]
    BY <1>2 DEF Request, Goto
  <2> QED BY <2>1
<1> QED BY <1>1, <1>2

LEMMA ServeKeepsHoming ==
  ASSUME TypeOK, NEW c \in Clients, ResetInv(c), HomingInv(c), NEW d \in Clients, Serve(d)
  PROVE  HomingInv(c)'
<1> USE DEF TypeOK, HomingInv
<1>1. UNCHANGED <<status, call>> /\ pc[d] # "idle"
  BY DEF Serve, GrabBranch, OpenPoll, LiftStart, LiftPoll, HomeBranch, FrontStart, FrontPoll,
         RearStart, RearPoll, DatumPoll, ZeroDone, ResetBranch, OpeningPoll, LoweringPoll
<1>2. d = c /\ status = call[c].mode
  BY <1>1 DEF ResetInv
<1>3. CASE GrabBranch(c) \/ OpenPoll(c) \/ LiftStart(c) \/ LiftPoll(c)
  BY <1>1, <1>2, <1>3 DEF GrabBranch, OpenPoll, LiftStart, LiftPoll, Goto
<1>4. CASE HomeBranch(c) \/ FrontStart(c) \/ FrontPoll(c) \/ RearStart(c) \/ RearPoll(c)
  BY <1>1, <1>2, <1>4 DEF HomeBranch, FrontStart, FrontPoll, RearStart, RearPoll, Datum,
                          DatumPoll, Goto
<1>5. CASE ZeroDone(c) \/ ResetBranch(c) \/ OpeningPoll(c)
  BY <1>1, <1>2, <1>5 DEF ZeroDone, ResetBranch, OpeningPoll, Goto
<1>6. CASE LoweringPoll(c)
  <2>1. call[c].mode # "agv_zero"
    BY <1>6 DEF LoweringPoll
  <2>2. pc'[c] \in {"idle", "lowering"}
    BY <1>6 DEF LoweringPoll, Goto
  <2> QED BY <1>1, <2>1, <2>2
<1> QED BY <1>2, <1>3, <1>4, <1>5, <1>6 DEF Serve
-----------------------------------------------------------------------------
\* CallsReturn: where a call can be next, and how many polls it has left.
Polling == {"open", "lifting", "front", "rearing", "opening", "lowering"}

After(l) ==
  CASE l = "grab" -> {"open", "lift", "home"}
    [] l = "open" -> {"lift"}
    [] l = "lift" -> {"lifting", "home"}
    [] l = "lifting" -> {"home"}
    [] l = "home" -> {"ahead", "reset"}
    [] l = "ahead" -> {"front", "rear"}
    [] l = "front" -> {"rear", "idle"}
    [] l = "rear" -> {"rearing", "zero"}
    [] l = "rearing" -> {"zero", "idle"}
    [] l = "zero" -> {"idle"}
    [] l = "reset" -> {"opening", "idle"}
    [] l = "opening" -> {"lowering", "idle"}
    [] l = "lowering" -> {"idle"}

Left(c, l) == IF pc[c] = l THEN MaxTries - tries[c] ELSE 0

LEMMA ServeMovesOn ==
  ASSUME TypeInv, NEW c \in Clients, Serve(c)
  PROVE  \/ pc'[c] \in After(pc[c])
         \/ pc[c] \in Polling /\ pc'[c] = pc[c] /\ tries'[c] = tries[c] + 1
<1> USE DEF TypeInv, TypeOK
<1>1. CASE GrabBranch(c) \/ LiftStart(c) \/ HomeBranch(c)
  BY <1>1 DEF GrabBranch, LiftStart, HomeBranch, Goto, After
<1>2. CASE FrontStart(c) \/ RearStart(c) \/ ZeroDone(c) \/ ResetBranch(c)
  BY <1>2 DEF FrontStart, RearStart, Datum, ZeroDone, ResetBranch, Goto, After
<1>3. CASE OpenPoll(c) \/ LiftPoll(c)
  BY <1>3 DEF OpenPoll, LiftPoll, Goto, After, Polling
<1>4. CASE FrontPoll(c) \/ RearPoll(c)
  BY <1>4 DEF FrontPoll, RearPoll, DatumPoll, Goto, After, Polling
<1>5. CASE OpeningPoll(c) \/ LoweringPoll(c)
  BY <1>5 DEF OpeningPoll, LoweringPoll, Goto, After, Polling
<1> QED BY <1>1, <1>2, <1>3, <1>4, <1>5 DEF Serve

LEMMA ServeKeepsOthers ==
  ASSUME TypeInv, NEW c \in Clients, NEW d \in Clients, d # c, Serve(d)
  PROVE  pc'[c] = pc[c] /\ tries'[c] = tries[c]
<1> USE DEF TypeInv, TypeOK
<1>1. CASE GrabBranch(d) \/ LiftStart(d) \/ HomeBranch(d)
  BY <1>1 DEF GrabBranch, LiftStart, HomeBranch, Goto
<1>2. CASE FrontStart(d) \/ RearStart(d) \/ ZeroDone(d) \/ ResetBranch(d)
  BY <1>2 DEF FrontStart, RearStart, Datum, ZeroDone, ResetBranch, Goto
<1>3. CASE OpenPoll(d) \/ LiftPoll(d)
  BY <1>3 DEF OpenPoll, LiftPoll, Goto
<1>4. CASE FrontPoll(d) \/ RearPoll(d)
  BY <1>4 DEF FrontPoll, RearPoll, DatumPoll, Goto
<1>5. CASE OpeningPoll(d) \/ LoweringPoll(d)
  BY <1>5 DEF OpeningPoll, LoweringPoll, Goto
<1> QED BY <1>1, <1>2, <1>3, <1>4, <1>5 DEF Serve

\* A call that is under way is moved by its own thread only.
LEMMA CallMoves ==
  ASSUME TypeInv, NEW c \in Clients, pc[c] # "idle", [Next]_vars
  PROVE  \/ Serve(c)
         \/ pc'[c] = pc[c] /\ tries'[c] = tries[c]
<1>1. CASE Loop \/ DatumArrives \/ (\E a \in {"open", "lift"} : AxisArrives(a)) \/ UNCHANGED vars
  BY <1>1 DEF Loop, WriteSwitch, WriteCase, DatumArrives, AxisArrives, server, vars
<1>2. ASSUME NEW d \in Clients, Request(d)
      PROVE  pc'[c] = pc[c] /\ tries'[c] = tries[c]
  BY <1>2 DEF Request, Goto, TypeInv, TypeOK
<1>3. ASSUME NEW d \in Clients, Serve(d), d # c
      PROVE  pc'[c] = pc[c] /\ tries'[c] = tries[c]
  BY <1>3, ServeKeepsOthers
<1> QED BY <1>1, <1>2, <1>3 DEF Next

\* While a call polls, what it has left is a positive number that falls.
LEMMA PollsFall ==
  ASSUME TypeInv, NEW c \in Clients, NEW l \in Polling, [Next]_vars
  PROVE  /\ Left(c, l) \in Nat /\ (pc[c] = l <=> Left(c, l) # 0)
         /\ pc[c] = l => \/ pc'[c] \in After(l)
                         \/ pc'[c] = l /\ Left(c, l)' = Left(c, l)
                         \/ pc'[c] = l /\ Left(c, l)' < Left(c, l)
         /\ pc[c] = l /\ Serve(c) => \/ pc'[c] \in After(l)
                                     \/ pc'[c] = l /\ Left(c, l)' < Left(c, l)
<1>1. MaxTries \in Nat /\ tries[c] \in Nat /\ tries[c] < MaxTries
  BY MaxTriesAssumption DEF TypeInv, TypeOK, PollBound
<1>2. Left(c, l) \in Nat /\ (pc[c] = l <=> Left(c, l) # 0)
  BY <1>1 DEF Left
<1>3. ASSUME pc[c] = l, tries'[c] = tries[c] + 1, pc'[c] = l
      PROVE  Left(c, l)' < Left(c, l)
  <2>1. Left(c, l)' = MaxTries - (tries[c] + 1) /\ Left(c, l) = MaxTries - tries[c]
    BY <1>3 DEF Left
  <2> QED BY <2>1, <1>1
<1>4. ASSUME pc[c] = l, tries'[c] = tries[c], pc'[c] = l
      PROVE  Left(c, l)' = Left(c, l)
  BY <1>4 DEF Left
<1>5. l # "idle"
  BY DEF Polling
<1> QED BY <1>2, <1>3, <1>4, <1>5, ServeMovesOn, CallMoves

\* The rule of descent for the polls of a call: a natural number that falls from
\* every positive value becomes 0.  The rule is valid; what the provers lack is
\* an induction under a temporal operator, so it is a hypothesis where it is used.
Falls(c, l, n) == (Left(c, l) = n) ~> (Left(c, l) < n)
Descends(c, l) == (\A n \in Nat \ {0} : Falls(c, l, n)) => []<>(Left(c, l) = 0)

\* The other one the provers cannot discharge: a call under way can step.  With
\* the fairness of its thread it does step, again and again.
CanStep(c) == [](pc[c] # "idle" => ENABLED <<Serve(c)>>_vars)
Steps(c) == []([](pc[c] # "idle") => <><<Serve(c)>>_vars)

LEMMA FairnessSteps ==
  ASSUME NEW c \in Clients
  PROVE  Served(c) /\ CanStep(c) => Steps(c)
<1> DEFINE Busy == pc[c] # "idle"
<1>1. pc[c] # "idle" <=> Busy
  OBVIOUS
<1> HIDE DEF Busy
<1> QED BY <1>1, PTL DEF Served, CanStep, Steps

\* A call gets on from label l.
GetsOn(c, l) == (pc[c] = l) ~> (pc[c] \in After(l))

Runs(c) == [][Next]_vars /\ []TypeInv /\ Steps(c)

LEMMA LabelGetsOn ==
  ASSUME NEW c \in Clients, NEW l \in Pcs \ (Polling \cup {"idle"})
  PROVE  Runs(c) => GetsOn(c, l)
<1> DEFINE At == pc[c] = l
           Out == pc[c] \in After(l)
           Busy == pc[c] # "idle"
<1>1. TypeInv /\ [Next]_vars => (At => (At \/ Out)')
  BY ServeMovesOn, CallMoves
<1>2. TypeInv /\ <<Serve(c)>>_vars => (At => Out')
  BY ServeMovesOn
<1>3. At => Busy
  OBVIOUS
<1>4. (pc[c] = l <=> At) /\ (pc[c] \in After(l) <=> Out) /\ (pc[c] # "idle" <=> Busy)
  OBVIOUS
<1> HIDE DEF At, Out, Busy
<1> QED BY <1>1, <1>2, <1>3, <1>4, PTL DEF Runs, Steps, GetsOn

LEMMA PollingFalls ==
  ASSUME NEW c \in Clients, NEW l \in Polling, NEW n \in Nat \ {0}
  PROVE  Runs(c) => Falls(c, l, n)
<1> DEFINE Here == Left(c, l) = n
           Lower == Left(c, l) < n
           Busy == pc[c] # "idle"
<1>1. TypeInv /\ [Next]_vars => (Here => (Here \/ Lower)')
  <2> SUFFICES ASSUME TypeInv, [Next]_vars, Here PROVE (Here \/ Lower)'
    OBVIOUS
  <2>1. pc[c] = l
    BY PollsFall
  <2>2. pc'[c] \in After(l) => Left(c, l)' = 0
    BY DEF After, Left, Polling
  <2> QED BY <2>1, <2>2, PollsFall
<1>2. TypeInv /\ <<Serve(c)>>_vars => (Here => Lower')
  <2> SUFFICES ASSUME TypeInv, Serve(c), Here PROVE Lower'
    OBVIOUS
  <2>0. [Next]_vars
    BY DEF Next
  <2>1. pc[c] = l
    BY <2>0, PollsFall
  <2>2. pc'[c] \in After(l) => Left(c, l)' = 0
    BY DEF After, Left, Polling
  <2> QED BY <2>0, <2>1, <2>2, PollsFall
<1>3. Here => Busy
  BY DEF Left, Polling
<1>4. (Left(c, l) = n <=> Here) /\ (Left(c, l) < n <=> Lower) /\ (pc[c] # "idle" <=> Busy)
  OBVIOUS
<1> HIDE DEF Here, Lower, Busy
<1> QED BY <1>1, <1>2, <1>3, <1>4, PTL DEF Runs, Steps, Falls

LEMMA PollingGetsOn ==
  ASSUME NEW c \in Clients, NEW l \in Polling
  PROVE  Runs(c) /\ Descends(c, l) => GetsOn(c, l)
<1>1. Runs(c) => \A n \in Nat \ {0} : Falls(c, l, n)
  BY PollingFalls
<1>2. Runs(c) /\ Descends(c, l) => []<>(Left(c, l) = 0)
  BY <1>1 DEF Descends
<1> DEFINE At == pc[c] = l
           Out == pc[c] \in After(l)
           Nothing == Left(c, l) = 0
<1>3. TypeInv /\ [Next]_vars => (At => (At \/ Out)')
  <2> SUFFICES ASSUME TypeInv, [Next]_vars, At PROVE (At \/ Out)'
    OBVIOUS
  <2> QED BY PollsFall
<1>4. TypeInv /\ [Next]_vars => ~(At /\ Nothing)
  BY PollsFall
<1>5. (pc[c] = l <=> At) /\ (pc[c] \in After(l) <=> Out) /\ (Left(c, l) = 0 <=> Nothing)
  OBVIOUS
<1> HIDE DEF At, Out, Nothing
<1> QED BY <1>2, <1>3, <1>4, <1>5, PTL DEF Runs, GetsOn

LEMMA CallEnds ==
  ASSUME NEW c \in Clients
  PROVE  Runs(c) /\ (\A l \in Polling : Descends(c, l)) => Returns(c)
<1>1. Runs(c) /\ (\A l \in Polling : Descends(c, l)) =>
        \A l \in Pcs \ {"idle"} : GetsOn(c, l)
  BY LabelGetsOn, PollingGetsOn
<1>2. (\A l \in Pcs \ {"idle"} : GetsOn(c, l)) =>
        /\ GetsOn(c, "grab") /\ GetsOn(c, "open") /\ GetsOn(c, "lift") /\ GetsOn(c, "lifting")
        /\ GetsOn(c, "home") /\ GetsOn(c, "ahead") /\ GetsOn(c, "front") /\ GetsOn(c, "rear")
        /\ GetsOn(c, "rearing") /\ GetsOn(c, "zero") /\ GetsOn(c, "reset")
        /\ GetsOn(c, "opening") /\ GetsOn(c, "lowering")
  BY DEF Pcs
<1> DEFINE At(l) == pc[c] = l
           Out(l) == pc[c] \in After(l)
<1>3. /\ Out("grab") => At("open") \/ At("lift") \/ At("home")
      /\ Out("open") => At("lift")
      /\ Out("lift") => At("lifting") \/ At("home")
      /\ Out("lifting") => At("home")
      /\ Out("home") => At("ahead") \/ At("reset")
      /\ Out("ahead") => At("front") \/ At("rear")
      /\ Out("front") => At("rear") \/ At("idle")
      /\ Out("rear") => At("rearing") \/ At("zero")
      /\ Out("rearing") => At("zero") \/ At("idle")
      /\ Out("zero") => At("idle")
      /\ Out("reset") => At("opening") \/ At("idle")
      /\ Out("opening") => At("lowering") \/ At("idle")
      /\ Out("lowering") => At("idle")
  BY DEF After
<1>4. TypeInv =>
        \/ At("grab") \/ At("open") \/ At("lift") \/ At("lifting") \/ At("home") \/ At("ahead")
        \/ At("front") \/ At("rear") \/ At("rearing") \/ At("zero") \/ At("reset")
        \/ At("opening") \/ At("lowering") \/ At("idle")
  BY DEF TypeInv, TypeOK, Pcs
<1>5. (pc[c] # "idle" <=> ~At("idle")) /\ (pc[c] = "idle" <=> At("idle"))
  OBVIOUS
<1> HIDE DEF At, Out
<1> DEFINE Polled == Runs(c) /\ \A l \in Polling : Descends(c, l)
<1>6. Polled => (At("lowering") ~> At("idle"))
  BY <1>1, <1>2, <1>3, PTL DEF GetsOn, At, Out
<1>7. Polled => (At("opening") ~> At("idle"))
  BY <1>1, <1>2, <1>3, <1>6, PTL DEF GetsOn, At, Out
<1>8. Polled => (At("reset") ~> At("idle"))
  BY <1>1, <1>2, <1>3, <1>7, PTL DEF GetsOn, At, Out
<1>9. Polled => (At("zero") ~> At("idle"))
  BY <1>1, <1>2, <1>3, PTL DEF GetsOn, At, Out
<1>10. Polled => (At("rearing") ~> At("idle"))
  BY <1>1, <1>2, <1>3, <1>9, PTL DEF GetsOn, At, Out
<1>11. Polled => (At("rear") ~> At("idle"))
  BY <1>1, <1>2, <1>3, <1>10, <1>9, PTL DEF GetsOn, At, Out
<1>12. Polled => (At("front") ~> At("idle"))
  BY <1>1, <1>2, <1>3, <1>11, PTL DEF GetsOn, At, Out
<1>13. Polled => (At("ahead") ~> At("idle"))
  BY <1>1, <1>2, <1>3, <1>12, <1>11, PTL DEF GetsOn, At, Out
<1>14. Polled => (At("home") ~> At("idle"))
  BY <1>1, <1>2, <1>3, <1>13, <1>8, PTL DEF GetsOn, At, Out
<1>15. Polled => (At("lifting") ~> At("idle"))
  BY <1>1, <1>2, <1>3, <1>14, PTL DEF GetsOn, At, Out
<1>16. Polled => (At("lift") ~> At("idle"))
  BY <1>1, <1>2, <1>3, <1>15, <1>14, PTL DEF GetsOn, At, Out
<1>17. Polled => (At("open") ~> At("idle"))
  BY <1>1, <1>2, <1>3, <1>16, PTL DEF GetsOn, At, Out
<1>18. Polled => (At("grab") ~> At("idle"))
  BY <1>1, <1>2, <1>3, <1>17, <1>16, <1>14, PTL DEF GetsOn, At, Out
<1> QED
  BY <1>4, <1>5, <1>6, <1>7, <1>8, <1>9, <1>10, <1>11, <1>12, <1>13, <1>14, <1>15, <1>16, <1>17,
     <1>18, PTL DEF Runs, Returns

\* The two kinds of fact that the provers have no rule for and that the liveness
\* theorems name as hypotheses: the steps of the threads are possible when they
\* are due, and the polls of a call descend.
Unblocked == []ENABLED <<Loop>>_vars /\ \A c \in Clients : CanStep(c)
Descent == \A c \in Clients : \A l \in Polling : Descends(c, l)

\* Every call of /robot_control returns, for any callers and modes, any number
\* of polls and whatever branches status_ takes it through.
THEOREM CallsReturnHolds == FairSpec /\ Unblocked /\ Descent => CallsReturn
<1>1. FairSpec => Spec /\ \A c \in Clients : Served(c)
  BY PTL DEF FairSpec
<1>2. Unblocked => \A c \in Clients : CanStep(c)
  BY DEF Unblocked
<1>3. ASSUME NEW c \in Clients
      PROVE  Spec /\ Served(c) /\ CanStep(c) => Runs(c)
  BY FairnessSteps, TypeInvariant, PTL DEF Spec, Runs
<1>4. \A c \in Clients : Runs(c) /\ (\A l \in Polling : Descends(c, l)) => Returns(c)
  BY CallEnds
<1> QED BY <1>1, <1>2, <1>3, <1>4 DEF Descent, CallsReturn

-----------------------------------------------------------------------------
\* What a stop has to outlive: the calls that are past their look at status_ and
\* may still command a motion.
Committed ==
  {c \in Clients : pc[c] \in {"open", "lift", "ahead", "front", "rear", "rearing", "opening"}}

\* Only a served call commands an axis, and only a committed one does it while
\* status_ says stop.
LEMMA ServeUnderStop ==
  ASSUME TypeOK, status = "stop", NEW c \in Clients, Serve(c)
  PROVE  /\ UNCHANGED <<status, wst>>
         /\ Committed' \subseteq Committed
         /\ c \notin Committed => UNCHANGED <<dac, axis>>
<1> USE DEF TypeOK, Committed
<1>1. CASE GrabBranch(c) \/ OpenPoll(c) \/ LiftStart(c) \/ LiftPoll(c)
  BY <1>1 DEF GrabBranch, OpenPoll, LiftStart, LiftPoll, Goto, card
<1>2. CASE HomeBranch(c) \/ ZeroDone(c) \/ ResetBranch(c)
  BY <1>2 DEF HomeBranch, ZeroDone, ResetBranch, Goto
<1>3. CASE FrontStart(c) \/ RearStart(c)
  BY <1>3 DEF FrontStart, RearStart, Datum, Goto
<1>4. CASE FrontPoll(c) \/ RearPoll(c)
  BY <1>4 DEF FrontPoll, RearPoll, DatumPoll, Goto
<1>5. CASE OpeningPoll(c) \/ LoweringPoll(c)
  BY <1>5 DEF OpeningPoll, LoweringPoll, Goto, card
<1> QED BY <1>1, <1>2, <1>3, <1>4, <1>5 DEF Serve

LEMMA OthersUnderStop ==
  ASSUME TypeOK,
         \/ Loop \/ DatumArrives
         \/ \E a \in {"open", "lift"} : AxisArrives(a)
         \/ \E c \in Clients : Request(c)
         \/ UNCHANGED vars
  PROVE  /\ Committed' \subseteq Committed
         /\ (dac' = dac \/ WriteCase)
         /\ \A a \in {"open", "lift"} : Idle(a) => Idle(a)'
<1>1. CASE Loop \/ DatumArrives
  <2>1. UNCHANGED pc /\ (dac' = dac \/ WriteCase)
    BY <1>1 DEF Loop, WriteSwitch, WriteCase, DatumArrives, card, server
  <2>2. \A a \in {"open", "lift"} : Idle(a) => Idle(a)'
    BY <1>1 DEF Loop, WriteSwitch, WriteCase, DatumArrives, card, Idle
  <2> QED BY <2>1, <2>2 DEF Committed
<1>2. ASSUME NEW b \in {"open", "lift"}, AxisArrives(b)
      PROVE  /\ Committed' \subseteq Committed
             /\ dac' = dac
             /\ \A a \in {"open", "lift"} : Idle(a) => Idle(a)'
  BY <1>2 DEF AxisArrives, server, Committed, Idle, TypeOK
<1>3. ASSUME NEW c \in Clients, Request(c)
      PROVE  Committed' \subseteq Committed /\ UNCHANGED <<dac, axis>>
  BY <1>3 DEF Request, Goto, card, Committed, TypeOK
<1>4. CASE UNCHANGED vars
  BY <1>4 DEF vars, card, server, Committed, Idle
<1> QED BY <1>1, <1>2, <1>3, <1>4 DEF Idle

\* While status_ says stop no call gets past its look at status_ into a branch
\* that moves something: those under way can only become fewer.
THEOREM StopDrains ==
  Spec => [][status = "stop" => Committed' \subseteq Committed]_vars
<1>1. TypeOK /\ [Next]_vars => [status = "stop" => Committed' \subseteq Committed]_vars
  BY ServeUnderStop, OthersUnderStop DEF Next
<1> QED BY <1>1, TypeCorrect, PTL DEF Spec
-----------------------------------------------------------------------------
\* A stop has taken effect: nobody may command a motion, the write cycle under
\* way (if any) is one of the stop mode, and nothing moves.
Quiet == Committed = {} /\ wst \in {"none", "stop"} /\ Still

\* From then on nothing moves for as long as status_ says stop.
LEMMA QuietStays ==
  ASSUME TypeOK, Quiet, status = "stop", [Next]_vars
  PROVE  Quiet'
<1>1. CASE WriteCase
  <2>1. UNCHANGED pc /\ wst' = "none" /\ dac' = {}
    BY <1>1 DEF WriteCase, server, Quiet, Outputs
  <2>2. \A a \in {"open", "lift"} : Idle(a)'
    BY <1>1, OthersUnderStop DEF Loop, Quiet, Still
  <2> QED BY <2>1, <2>2 DEF Quiet, Still, Committed
<1>2. CASE WriteSwitch \/ DatumArrives \/ (\E a \in {"open", "lift"} : AxisArrives(a))
           \/ (\E c \in Clients : Request(c)) \/ UNCHANGED vars
  <2>1. wst' \in {"none", "stop"} /\ dac' = dac
    BY <1>2 DEF WriteSwitch, DatumArrives, AxisArrives, Request, vars, card, Quiet
  <2> QED BY <1>2, <2>1, OthersUnderStop DEF Loop, Quiet, Still
<1>3. ASSUME NEW c \in Clients, Serve(c)
      PROVE  Quiet'
  BY <1>3, ServeUnderStop DEF Quiet, Still, Idle
<1> QED BY <1>1, <1>2, <1>3 DEF Next, Loop

\* The three write cycles a stop may take once no call is committed: the end of
\* the one that switched on an older status, the switch on the stop, its case.
LEMMA StopCycles ==
  ASSUME TypeOK, Committed = {}, status = "stop", [Next]_vars
  PROVE  /\ wst \in {"none", "stop"} => wst' \in {"none", "stop"}
         /\ wst = "stop" => wst' = "stop" \/ Quiet'
         /\ <<Loop>>_vars =>
              /\ wst \notin {"none", "stop"} => wst' = "none"
              /\ wst = "none" => wst' = "stop"
              /\ wst = "stop" => Quiet'
<1>1. CASE Loop
  <2>1. /\ wst = "none" => wst' = "stop"
        /\ wst # "none" => wst' = "none"
    BY <1>1 DEF Loop, WriteSwitch, WriteCase
  <2>2. CASE wst = "stop"
    <3>1. WriteCase
      BY <1>1, <2>2 DEF Loop, WriteSwitch
    <3>2. UNCHANGED pc /\ wst' = "none" /\ dac' = {} /\ \A a \in {"open", "lift"} : Idle(a)'
      BY <2>2, <3>1 DEF WriteCase, server, Outputs, Idle
    <3> QED BY <2>2, <3>2 DEF Quiet, Still, Committed
  <2> QED BY <2>1, <2>2
<1>2. CASE ~Loop
  <2>1. wst' = wst
    BY <1>2, ServeUnderStop DEF Next, DatumArrives, AxisArrives, Request, vars
  <2> QED BY <1>2, <2>1
<1> QED BY <1>1, <1>2

\* A stop that stays, with no committed call left, ends with every axis still for
\* good: for any callers, from the fairness of the main loop.
LEMMA DrainedStopLatches ==
  FairSpec /\ Unblocked => (<>[](status = "stop" /\ Committed = {}) => <>[]Still)
<1> DEFINE Drained == status = "stop" /\ Committed = {}
           Old == wst \notin {"none", "stop"}
           Between == wst = "none"
           Stopping == wst = "stop"
<1>1. TypeOK /\ Drained /\ Drained' /\ [Next]_vars =>
        /\ Quiet => Quiet'
        /\ Old => Old' \/ Between' \/ Stopping'
        /\ Between => Between' \/ Stopping'
        /\ Stopping => Stopping' \/ Quiet'
  <2> SUFFICES ASSUME TypeOK, Drained, [Next]_vars
               PROVE  /\ Quiet => Quiet'
                      /\ Between => Between' \/ Stopping'
                      /\ Stopping => Stopping' \/ Quiet'
    OBVIOUS
  <2> QED BY QuietStays, StopCycles
<1>2. TypeOK /\ Drained /\ Drained' /\ [Next]_vars /\ <<Loop>>_vars =>
        /\ Old => Between'
        /\ Between => Stopping'
        /\ Stopping => Quiet'
  BY StopCycles
<1>3. Old \/ Between \/ Stopping
  OBVIOUS
<1>4. Quiet => Still
  BY DEF Quiet
<1>5. <>[](status = "stop" /\ Committed = {}) <=> <>[]Drained
  OBVIOUS
<1> HIDE DEF Drained, Old, Between, Stopping
<1>6. FairSpec /\ Unblocked /\ <>[]Drained => <>[]Quiet
  BY <1>1, <1>2, <1>3, TypeCorrect, PTL DEF FairSpec, Spec, Unblocked
<1> QED BY <1>4, <1>5, <1>6, PTL

\* A call that is over while status_ says stop commits to nothing any more.
LEMMA OverIsOut ==
  ASSUME TypeOK, [Next]_vars, status = "stop", NEW c \in Clients
  PROVE  (pc[c] = "idle" => c \notin Committed) /\ (c \notin Committed => c \notin Committed')
BY ServeUnderStop, OthersUnderStop DEF Next, Committed

\* With the two threads of the task node as callers, an emergency stop that
\* nobody lifts ends with every axis still, for good: for any modes and any
\* number of polls.
THEOREM StopLatchesHolds ==
  ASSUME NEW c, NEW d, Clients = {c, d}
  PROVE  FairSpec /\ Unblocked /\ Descent => StopLatches
<1> DEFINE Stop == status = "stop"
           OutC == c \notin Committed
           OutD == d \notin Committed
           OverC == pc[c] = "idle"
           OverD == pc[d] = "idle"
           Drained == status = "stop" /\ Committed = {}
<1>1. TypeOK /\ Stop /\ [Next]_vars =>
        (OutC => OutC') /\ (OutD => OutD') /\ (OverC => OutC) /\ (OverD => OutD)
  BY OverIsOut
<1>2. Stop /\ OutC /\ OutD => Drained
  BY DEF Committed
<1>3. FairSpec /\ Unblocked /\ Descent => Returns(c) /\ Returns(d)
  BY CallsReturnHolds DEF CallsReturn
<1>4. /\ (pc[c] # "idle" <=> ~OverC) /\ (pc[c] = "idle" <=> OverC)
      /\ (pc[d] # "idle" <=> ~OverD) /\ (pc[d] = "idle" <=> OverD)
  OBVIOUS
<1>5. (status = "stop" <=> Stop) /\ ((status = "stop" /\ Committed = {}) <=> Drained)
  OBVIOUS
<1> HIDE DEF Stop, OutC, OutD, OverC, OverD, Drained
<1>6. Spec /\ []<>OverC /\ []<>OverD => (<>[]Stop => <>[]Drained)
  BY <1>1, <1>2, TypeCorrect, PTL DEF Spec
<1> QED
  BY <1>3, <1>4, <1>5, <1>6, DrainedStopLatches, PTL DEF FairSpec, Returns, StopLatches

-----------------------------------------------------------------------------
\* Gripper-only mode halts the wheels within three steps of the main loop unless
\* the mode changes: the end of a write cycle of an older mode, the switch, its
\* case.  For any callers, whatever their calls do to the steering meanwhile.
THEOREM GripModeHaltsHolds == FairSpec /\ Unblocked => GripModeHaltsWheels
<1> DEFINE Goal == dac = {} \/ status # "grab"
           Old == status = "grab" /\ wst \notin {"none", "grab"}
           Between == status = "grab" /\ wst = "none"
           Gripping == status = "grab" /\ wst = "grab"
<1>1. [Next]_vars =>
        /\ Old => (Old \/ Between \/ Goal)'
        /\ Between => (Between \/ Gripping \/ Goal)'
        /\ Gripping => (Gripping \/ Goal)'
  <2> SUFFICES ASSUME [Next]_vars
               PROVE  /\ Old => (Old \/ Between \/ Goal)'
                      /\ Between => (Between \/ Gripping \/ Goal)'
                      /\ Gripping => (Gripping \/ Goal)'
    OBVIOUS
  <2>1. CASE Loop
    BY <2>1 DEF Loop, WriteSwitch, WriteCase, Outputs
  <2>2. CASE ~Loop
    <3>1. wst' = wst
      BY <2>2 DEF Next, DatumArrives, AxisArrives, Request, vars, Serve, GrabBranch, OpenPoll,
                  LiftStart, LiftPoll, HomeBranch, FrontStart, FrontPoll, RearStart, RearPoll,
                  DatumPoll, ZeroDone, ResetBranch, OpeningPoll, LoweringPoll
    <3> QED BY <3>1
  <2> QED BY <2>1, <2>2
<1>2. <<Loop>>_vars =>
        /\ Old => (Between \/ Goal)'
        /\ Between => (Gripping \/ Goal)'
        /\ Gripping => Goal'
  BY DEF Loop, WriteSwitch, WriteCase, Outputs
<1>3. status = "grab" => Old \/ Between \/ Gripping
  OBVIOUS
<1>4. (dac = {} \/ status # "grab") <=> Goal
  OBVIOUS
<1> HIDE DEF Goal, Old, Between, Gripping
<1>5. FairSpec /\ Unblocked =>
        (Gripping ~> Goal) /\ (Between ~> Gripping \/ Goal) /\ (Old ~> Between \/ Goal)
  BY <1>1, <1>2, PTL DEF FairSpec, Spec, Unblocked
<1> QED BY <1>3, <1>4, <1>5, PTL DEF GripModeHaltsWheels
=============================================================================
