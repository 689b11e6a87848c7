-------------------------- MODULE Cia402PdoProofs --------------------------
(***************************************************************************)
(* For any number of axes, runs, faults and turns of a shaft: the process  *)
(* image keeps its types, and no enabled drive is asked to jump.  The      *)
(* second needs to know of the axes the callback has already been at in    *)
(* this cycle that their targets are fresh: the exchange may enable them.  *)
(***************************************************************************)
EXTENDS Cia402Pdo, TLAPS

\* The axes whose outputs are the ones the next exchange sends.
Handled(a) == axis = 0 \/ a < axis

\* A handled axis that is enabled has a target one step away.
StepsSoFar ==
    \A a \in Axes : Handled(a) /\ control[a] = 15 => aim[a] \in {-1, 1}

Inv == TypeOK /\ StepsSoFar /\ NoJump

----------------------------------------------------------------------------

\* What AxisAssumption says, bound by bound.
LEMMA Constants == /\ N \in Nat /\ N >= 1 /\ MaxRuns \in Nat
                   /\ MaxFaults \in Nat /\ MaxAim \in Nat /\ MaxAim >= 1
                   /\ MaxSlip \in Nat
  BY AxisAssumption

\* servo_switch_op gives a control word, whatever the status word.
LEMMA SwitchOpType ==
  ASSUME NEW word, NEW old \in Controls
  PROVE  SwitchOp(word, old) \in Controls
  BY DEF SwitchOp, Controls

\* A target is a step away as soon as the control word enables the axis.
LEMMA TargetStep ==
  ASSUME NEW word, NEW old, servo_dir \in {-1, 1}, word = 15
  PROVE  Target(word, old) \in {-1, 1}
  BY DEF Target

\* Target keeps an aim within the bound it is told apart in.
LEMMA TargetType ==
  ASSUME NEW word, NEW old \in -MaxAim..MaxAim, servo_dir \in {-1, 1}
  PROVE  Target(word, old) \in -MaxAim..MaxAim
  BY Constants DEF Target

\* Clip gives an aim within that bound.
LEMMA ClipType ==
  ASSUME NEW x \in Int
  PROVE  Clip(x) \in -MaxAim..MaxAim
  BY Constants DEF Clip

\* A step that the shaft slips from is no jump, wherever Clip cuts it off.
LEMMA ClipStep ==
  ASSUME NEW x \in {-1, 1}, NEW slip \in -MaxSlip..MaxSlip
  PROVE  Clip(x - slip) \in -(1 + MaxSlip)..1 + MaxSlip
  BY Constants DEF Clip

\* A drive gets enabled by the control word 15 only.
LEMMA EnabledBy15 ==
  ASSUME NEW state \in DriveStates \ {"enabled"}, NEW word,
         Obey(state, word) = "enabled"
  PROVE  word = 15
  BY DEF Obey, DriveStates

\* A drive stays in the states of CiA 402, whatever it is told.
LEMMA ObeyType ==
  ASSUME NEW state \in DriveStates, NEW word
  PROVE  Obey(state, word) \in DriveStates
  BY DEF Obey, DriveStates

\* Before the first exchange no axis is enabled.
LEMMA InitInv == Init => Inv
<1> SUFFICES ASSUME Init PROVE Inv
  OBVIOUS
<1>1. TypeOK
  <2>1. control \in [Axes -> Controls] /\ drive \in [Axes -> DriveStates]
    BY DEF Init, Controls, DriveStates
  <2>2. status \in [Axes -> DriveStates]
    BY <2>1 DEF Init
  <2>3. aim \in [Axes -> -MaxAim..MaxAim]
    BY DEF Init
  <2>4. axis \in 0..N /\ runs \in 0..MaxRuns /\ faults \in 0..MaxFaults
    BY Constants DEF Init
  <2>5. servo_run \in BOOLEAN /\ servo_dir \in {-1, 1} /\ running \in BOOLEAN
    BY DEF Init
  <2> QED
    BY <2>1, <2>2, <2>3, <2>4, <2>5 DEF TypeOK
<1>2. StepsSoFar
  BY DEF Init, StepsSoFar
<1>3. NoJump
  BY DEF Init, NoJump
<1> QED
  BY <1>1, <1>2, <1>3 DEF Inv

\* The callback at one axis: its outputs are a step away or not enabled, and
\* those of the axes before it are as they were.
LEMMA AxisInv ==
  ASSUME Inv, NEW warn \in BOOLEAN, Axis(warn)
  PROVE  Inv'
<1> USE DEF Inv
<1> DEFINE read == [state |-> status[axis], warn |-> warn]
           word == SwitchOp(read, control[axis])
<1>1. axis \in 1..N /\ control[axis] \in Controls /\ aim[axis] \in -MaxAim..MaxAim
  BY DEF Axis, Axes, TypeOK
<1>2. word \in Controls
  BY <1>1, SwitchOpType
<1>3. Target(word, aim[axis]) \in -MaxAim..MaxAim
  BY <1>1, TargetType DEF TypeOK
<1>4. 2 \in Controls
  BY DEF Controls
<1>5. control' \in [Axes -> Controls]
  <2>1. CASE running
    BY <1>2, <2>1 DEF Axis, TypeOK
  <2>2. CASE ~running
    BY <1>4, <2>2 DEF Axis, TypeOK
  <2> QED
    BY <2>1, <2>2
<1>6. aim' \in [Axes -> -MaxAim..MaxAim]
  <2>1. CASE running
    BY <1>3, <2>1 DEF Axis, TypeOK
  <2>2. CASE ~running
    BY <2>2 DEF Axis, TypeOK
  <2> QED
    BY <2>1, <2>2
<1>7. axis' \in 0..N /\ (axis' = 0 \/ axis' = axis + 1)
  BY <1>1, Constants DEF Axis, PastEnd
<1>8. servo_run' \in BOOLEAN
  BY DEF Axis, StopAll, TypeOK
<1>9. TypeOK'
  BY <1>5, <1>6, <1>7, <1>8 DEF Axis, TypeOK, bounds
<1>10. ASSUME NEW a \in Axes, Handled(a)', control'[a] = 15
       PROVE  aim'[a] \in {-1, 1}
  <2>1. a \in 1..N /\ a <= axis
    <3>1. CASE axis' = 0
      BY <3>1, <1>1, Constants DEF Axis, PastEnd, Axes
    <3>2. CASE axis' = axis + 1
      BY <3>2, <1>1, <1>10 DEF Handled, Axes
    <3> QED
      BY <3>1, <3>2, <1>7
  <2>2. CASE a = axis
    <3>1. running /\ word = 15
      BY <2>2, <1>1, <1>10 DEF Axis, TypeOK
    <3>2. aim'[a] = Target(word, aim[axis])
      BY <2>2, <3>1, <1>1 DEF Axis, TypeOK
    <3> QED
      BY <3>1, <3>2, TargetStep DEF TypeOK
  <2>3. CASE a # axis
    <3>1. a < axis
      BY <2>1, <2>3, <1>1
    <3>2. control'[a] = control[a] /\ aim'[a] = aim[a]
      BY <2>3, <1>1 DEF Axis, TypeOK
    <3> QED
      BY <3>1, <3>2, <1>10 DEF StepsSoFar, Handled
  <2> QED
    BY <2>2, <2>3
<1>11. ASSUME NEW a \in Axes, drive'[a] = "enabled"
       PROVE  aim'[a] \in -(1 + MaxSlip)..1 + MaxSlip
  <2>1. aim[a] \in -(1 + MaxSlip)..1 + MaxSlip
    BY <1>11 DEF Axis, NoJump
  <2>2. CASE running /\ a = axis
    <3>1. aim'[a] = Target(word, aim[a])
      BY <2>2, <1>1 DEF Axis, TypeOK
    <3> QED
      BY <3>1, <2>1, Constants DEF Target, TypeOK
  <2>3. CASE ~(running /\ a = axis)
    BY <2>1, <2>3 DEF Axis, TypeOK
  <2> QED
    BY <2>2, <2>3
<1> QED
  BY <1>9, <1>10, <1>11 DEF StepsSoFar, NoJump

\* An exchange begins with no axis handled.
LEMMA ExchangeInv ==
  ASSUME Inv, NEW obeying \in SUBSET Axes, Exchange(obeying)
  PROVE  Inv'
<1> USE DEF Inv
<1>1. \A a \in Axes : drive[a] \in DriveStates
  BY DEF TypeOK
<1>2. drive' \in [Axes -> DriveStates]
  BY <1>1, ObeyType DEF Exchange, TypeOK
<1>3. status' \in [Axes -> DriveStates]
  BY <1>2 DEF Exchange
<1>p. PICK slip \in [Axes -> -MaxSlip..MaxSlip] :
        aim' = [a \in Axes |->
                 IF drive[a] # "enabled" THEN Clip(aim[a] - slip[a])
                 ELSE IF drive'[a] = "enabled" THEN 0 ELSE aim[a]]
  BY DEF Exchange
<1>4. aim' \in [Axes -> -MaxAim..MaxAim]
  <2>1. ASSUME NEW a \in Axes PROVE aim'[a] \in -MaxAim..MaxAim
    <3>1. aim[a] \in -MaxAim..MaxAim /\ slip[a] \in -MaxSlip..MaxSlip
      BY DEF TypeOK
    <3>2. aim[a] - slip[a] \in Int
      BY <3>1, Constants
    <3>3. Clip(aim[a] - slip[a]) \in -MaxAim..MaxAim
      BY <3>2, ClipType
    <3>4. 0 \in -MaxAim..MaxAim
      BY Constants
    <3> QED
      BY <1>p, <3>1, <3>3, <3>4
  <2>2. aim' = [a \in Axes |-> aim'[a]]
    BY <1>p
  <2> QED
    BY <2>1, <2>2
<1>5. axis' = 1 /\ axis' \in 0..N
  BY Constants DEF Exchange
<1>6. TypeOK'
  BY <1>2, <1>3, <1>4, <1>5 DEF Exchange, TypeOK, shared, bounds
<1>7. StepsSoFar'
  <2>1. \A a \in Axes : ~Handled(a)'
    BY <1>5 DEF Handled, Axes
  <2> QED
    BY <2>1 DEF StepsSoFar
<1>8. ASSUME NEW a \in Axes, drive'[a] = "enabled"
      PROVE  aim'[a] \in -(1 + MaxSlip)..1 + MaxSlip
  <2>1. CASE drive[a] = "enabled"
    BY <1>p, <1>8, <2>1, Constants
  <2>2. CASE drive[a] # "enabled"
    <3>1. drive'[a] = Obey(drive[a], control[a])
      BY <1>8, <2>2 DEF Exchange
    <3>2. control[a] = 15
      BY <1>1, <1>8, <2>2, <3>1, EnabledBy15
    <3>3. aim[a] \in {-1, 1}
      BY <3>2 DEF Exchange, StepsSoFar, Handled
    <3>4. aim'[a] = Clip(aim[a] - slip[a])
      BY <1>p, <2>2
    <3> QED
      BY <3>3, <3>4, ClipStep
  <2> QED
    BY <2>1, <2>2
<1> QED
  BY <1>6, <1>7, <1>8 DEF NoJump

\* The callback, the exchange, the shell commands and the drives keep the
\* invariant.
LEMMA StepInv == Inv /\ [Next]_vars => Inv'
<1> SUFFICES ASSUME Inv, [Next]_vars PROVE Inv'
  OBVIOUS
<1> USE DEF Inv
<1>1. ASSUME NEW warn \in BOOLEAN, Axis(warn) PROVE Inv'
  BY <1>1, AxisInv
<1>2. ASSUME NEW obeying \in SUBSET Axes, Exchange(obeying)
      PROVE  Inv'
  BY <1>2, ExchangeInv
<1>3. CASE MotorRun
  BY <1>3, Constants DEF MotorRun, TypeOK, StepsSoFar, Handled, NoJump
<1>4. CASE MotorStop
  BY <1>4 DEF MotorStop, TypeOK, StepsSoFar, Handled, NoJump, bounds
<1>5. CASE MotorDir
  BY <1>5 DEF MotorDir, TypeOK, StepsSoFar, Handled, NoJump, bounds
<1>6. ASSUME NEW a \in Axes, Fault(a) PROVE Inv'
  <2>1. faults' \in 0..MaxFaults
    BY <1>6, Constants DEF Fault, TypeOK
  <2>2. drive' \in [Axes -> DriveStates]
    BY <1>6 DEF Fault, TypeOK, DriveStates
  <2>3. \A b \in Axes : drive'[b] = "enabled" => drive[b] = "enabled"
    BY <1>6 DEF Fault, TypeOK
  <2> QED
    BY <1>6, <2>1, <2>2, <2>3 DEF Fault, TypeOK, StepsSoFar, Handled, NoJump, shared
<1>7. ASSUME NEW a \in Axes, Reset(a) PROVE Inv'
  <2>1. drive' \in [Axes -> DriveStates]
    BY <1>7 DEF Reset, TypeOK, DriveStates
  <2>2. \A b \in Axes : drive'[b] = "enabled" => drive[b] = "enabled"
    BY <1>7 DEF Reset, TypeOK
  <2> QED
    BY <1>7, <2>1, <2>2 DEF Reset, TypeOK, StepsSoFar, Handled, NoJump, shared, bounds
<1>8. CASE UNCHANGED vars
  BY <1>8 DEF vars, shared, bounds, TypeOK, StepsSoFar, Handled, NoJump
<1> QED
  BY <1>1, <1>2, <1>3, <1>4, <1>5, <1>6, <1>7, <1>8
     DEF Next, Cycle, Shell, Drives

\* Whatever the drives, the shell and the bus do, the image, the flags and the
\* counters keep their types.
THEOREM TypeCorrect == Spec => []TypeOK
<1>1. Inv => TypeOK
  BY DEF Inv
<1> QED
  BY InitInv, StepInv, <1>1, PTL DEF Spec

\* No enabled drive is asked to jump, for any number of axes and however far
\* a shaft was turned while its drive was off: what an exchange asks of a drive
\* it enables was computed in the callback just before.
THEOREM NoJumpAlways == Spec => []NoJump
<1>1. Inv => NoJump
  BY DEF Inv
<1> QED
  BY InitInv, StepInv, <1>1, PTL DEF Spec
============================================================================
