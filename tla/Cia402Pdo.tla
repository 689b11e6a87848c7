----------------------------- MODULE Cia402Pdo -----------------------------
(***************************************************************************)
(* What the EtherCAT process-data callback of the fault-recovery program   *)
(* (pdo_callback, servo_switch_op) makes of the drives' CiA 402 status     *)
(* words, axis after axis, while the shell starts and stops the motors.    *)
(* The drives are an environment that obeys its control words, faults and  *)
(* is reset from outside: the program never sends a fault reset.           *)
(***************************************************************************)
EXTENDS Integers

CONSTANTS
    N,          \* axes on the bus, in the order of the process image
    MaxRuns,    \* bound: motor_run commands
    MaxFaults,  \* bound: faults of drives
    MaxSlip,    \* bound: steps a shaft that is not held turns between cycles
    MaxAim      \* bound: how far a target is told apart from the position

ASSUME AxisAssumption ==
    /\ N \in Nat \ {0} /\ {MaxRuns, MaxFaults, MaxSlip} \subseteq Nat
    /\ MaxAim \in Nat \ {0}

Axes == 1..N

\* control_word of the outputs; the names of what a drive does about them
Controls == {0, 2, 6, 7, 15}

VARIABLES
    servo_run, servo_dir,   \* shared with the shell; dir is -1 or 1
    running,                \* servo_run as the callback read it at its start
    control,                \* control_word of every axis
    aim,                    \* dest_pos less cur_pos, in CIA402_TARGET_STEP
    status,                 \* the states the last exchange's status words tell
    drive,                  \* the state every drive is in
    axis,                   \* the axis the callback is at, 0 for none
    runs, faults

shared == <<servo_run, servo_dir>>
bounds == <<runs, faults>>
vars == <<shared, running, control, aim, status, drive, axis, bounds>>

DriveStates == {"disabled", "ready", "switched_on", "enabled", "quick_stop",
                "fault"}

Init ==
    /\ servo_run = FALSE /\ servo_dir = 1 /\ running = FALSE
    /\ control = [a \in Axes |-> 0] /\ aim \in [Axes -> -MaxAim..MaxAim]
    /\ drive \in [Axes -> {"disabled", "fault"}]
    /\ status = drive
    /\ axis = 0 /\ runs = 0 /\ faults = 0

----------------------------------------------------------------------------
(* The callback                                                             *)

\* MUTANT: a drive that is switched on is never enabled.
BugSwitchOp(word, old) ==
    CASE word.state = "fault" -> 0
      [] word.state = "disabled" /\ ~word.warn -> 6
      [] word.state = "ready" /\ ~word.warn -> 7
      [] OTHER -> old

\* servo_switch_op: the control word that takes a drive one state further.  A
\* word with a warning or any other of its ten low bits set is not recognised
\* and leaves the control word as it is.
SwitchOp(word, old) ==
    CASE word.state = "fault" -> 0
      [] word.state = "disabled" /\ ~word.warn -> 6
      [] word.state = "ready" /\ ~word.warn -> 7
      [] word.state = "switched_on" /\ ~word.warn -> 15
      [] OTHER -> old

Clip(x) == IF x > MaxAim THEN MaxAim ELSE IF x < -MaxAim THEN -MaxAim ELSE x

\* MUTANT: an enabled axis is stepped from its last target.
BugTarget(word, old) ==
    CASE word = 7 -> 0
      [] word = 15 -> Clip(old + servo_dir)
      [] OTHER -> old

\* The target of an axis: where it stands when it is switched on, a step from
\* where it stands when it is enabled.
Target(word, old) ==
    CASE word = 7 -> 0
      [] word = 15 -> servo_dir
      [] OTHER -> old

\* MUTANT: a faulted axis stops itself but not the others.
BugStopAll(word) == UNCHANGED servo_run

\* A fault of one axis stops them all, from the next cycle on.
StopAll(word) ==
    servo_run' = (servo_run /\ word.state # "fault")

\* MUTANT: the loop goes one axis too far.
BugPastEnd == IF axis > N THEN 0 ELSE axis + 1

\* The loops end where the inputs begin.
PastEnd == IF axis = N THEN 0 ELSE axis + 1

\* One turn of either loop of pdo_callback, the only one of the cycle to read
\* this axis' status word, which may carry a warning.
Axis(warn) ==
    /\ axis \in Axes
    /\ LET read == [state |-> status[axis], warn |-> warn]
           word == SwitchOp(read, control[axis])
       IN  /\ StopAll(read)
           /\ IF running
              THEN /\ control' = [control EXCEPT ![axis] = word]
                   /\ aim' = [aim EXCEPT ![axis] = Target(word, @)]
              ELSE /\ control' = [control EXCEPT ![axis] = 2]
                   /\ UNCHANGED aim
    /\ axis' = PastEnd
    /\ UNCHANGED <<servo_dir, running, status, drive, bounds>>

----------------------------------------------------------------------------
(* The shell                                                                *)

MotorRun ==
    /\ runs < MaxRuns /\ runs' = runs + 1
    /\ servo_run' = TRUE
    /\ UNCHANGED <<servo_dir, running, control, aim, status, drive, axis,
                   faults>>

MotorStop ==
    /\ servo_run' = FALSE
    /\ UNCHANGED <<servo_dir, running, control, aim, status, drive, axis,
                   bounds>>

MotorDir ==
    /\ servo_dir' = -servo_dir
    /\ UNCHANGED <<servo_run, running, control, aim, status, drive, axis,
                   bounds>>

----------------------------------------------------------------------------
(* The drives                                                               *)

\* Where a control word takes a drive.
Obey(state, word) ==
    CASE state = "fault" -> "fault"
      [] word = 0 -> "disabled"
      [] state = "disabled" /\ word = 6 -> "ready"
      [] state = "ready" /\ word = 7 -> "switched_on"
      [] state = "switched_on" /\ word = 15 -> "enabled"
      [] state \in {"switched_on", "enabled"} /\ word = 6 -> "ready"
      [] state = "enabled" /\ word = 7 -> "switched_on"
      [] state = "enabled" /\ word = 2 -> "quick_stop"
      [] state \in {"ready", "switched_on", "quick_stop"} /\ word = 2 ->
           "disabled"
      [] OTHER -> state

\* One exchange of the process image: the drives have obeyed it or not yet.
\* One that was enabled has gone to its target, or has stopped where it was if
\* the word ended its operation; the shaft of another may have turned, while
\* the exchange that enables it lasts too.  Then the callback begins and reads
\* servo_run.
Exchange(obeying) ==
    /\ axis = 0
    /\ drive' = [a \in Axes |-> IF a \in obeying THEN Obey(drive[a], control[a])
                                                 ELSE drive[a]]
    /\ status' = drive'
    /\ \E slip \in [Axes -> -MaxSlip..MaxSlip] :
         aim' = [a \in Axes |->
                   IF drive[a] # "enabled" THEN Clip(aim[a] - slip[a])
                   ELSE IF drive'[a] = "enabled" THEN 0 ELSE aim[a]]
    /\ axis' = 1 /\ running' = servo_run
    /\ UNCHANGED <<shared, control, bounds>>

Fault(a) ==
    /\ faults < MaxFaults /\ faults' = faults + 1
    /\ drive' = [drive EXCEPT ![a] = "fault"]
    /\ UNCHANGED <<shared, running, control, aim, status, axis, runs>>

\* A reset from outside the program.
Reset(a) ==
    /\ drive[a] = "fault"
    /\ drive' = [drive EXCEPT ![a] = "disabled"]
    /\ UNCHANGED <<shared, running, control, aim, status, axis, bounds>>

Cycle ==
    \/ \E warn \in BOOLEAN : Axis(warn)
    \/ \E obeying \in SUBSET Axes : Exchange(obeying)
Shell == MotorRun \/ MotorStop \/ MotorDir
Drives == \E a \in Axes : Fault(a) \/ Reset(a)

Next == Cycle \/ Shell \/ Drives

\* The cyclic task goes on; again and again the drives obey their control words
\* and the word of each axis is read without a warning, if not in one cycle for
\* all of them.  Nobody has to command, fault or reset anything.
Prompt ==
    /\ SF_vars(Exchange(Axes))
    /\ \A a \in Axes : SF_vars(axis = a /\ Axis(FALSE))

Spec == Init /\ [][Next]_vars /\ Prompt

----------------------------------------------------------------------------
(* Properties                                                               *)

\* The types of the process image, the drives and the flags.
TypeOK ==
    /\ servo_run \in BOOLEAN /\ servo_dir \in {-1, 1} /\ running \in BOOLEAN
    /\ control \in [Axes -> Controls] /\ aim \in [Axes -> -MaxAim..MaxAim]
    /\ {status, drive} \subseteq [Axes -> DriveStates]
    /\ axis \in 0..N /\ runs \in 0..MaxRuns /\ faults \in 0..MaxFaults

\* However far the shaft of an axis was turned while its drive was off, and
\* whatever target was left in the process image, a drive that is (or in this
\* exchange gets) enabled is asked to go one step, and what its shaft slipped
\* in the exchange that enabled it, but never back to where it once was.
NoJump ==
    \A a \in Axes : drive[a] = "enabled" => aim[a] \in -(1 + MaxSlip)..1 + MaxSlip

\* When a drive stays faulted and nobody says motor_run any more, no axis is
\* left enabled: each leaves its operation although only one has faulted.
FaultStopsAll ==
    \A a \in Axes : <>[](drive[a] = "fault")
                      => <>[](\A b \in Axes : drive[b] # "enabled")

\* After motor_run every drive that is not faulted gets enabled, from whatever
\* state the last run or the last stop left it in.
RunEnables ==
    <>[](servo_run /\ \A a \in Axes : drive[a] # "fault")
      => <>[](\A a \in Axes : drive[a] = "enabled")

============================================================================
