---------------------------- MODULE AlarmService ----------------------------
(***************************************************************************)
(* What the CANopen stack promises of an alarm, without rows, threads,     *)
(* hardware and time: it is set on a handle nobody has, falls due in a     *)
(* round with others, is called once in that round in the order of the     *)
(* handles unless it is deleted before, and then is free again or, when    *)
(* periodic, set again.  While a round runs only its callbacks set and     *)
(* delete, and it ends when nothing is due any more.                       *)
(***************************************************************************)
EXTENDS Integers

CONSTANTS
    Handles,    \* TIMER_HANDLE
    Periods     \* periods asked for, 0 for a one-shot alarm

VARIABLES
    alarms,     \* per handle, its status and period
    at          \* "idle", "round" or, inside one, "callback"

vars == <<alarms, at>>

Alarm(status, period) == [status |-> status, period |-> period]
Free == Alarm("free", 0)
DueHandles == {h \in Handles : alarms[h].status = "due"}

Init ==
    /\ at = "idle"
    /\ \E first \in Handles :
         alarms = [h \in Handles |-> IF h = first THEN Alarm("set", 0) ELSE Free]

\* Who sets or deletes is outside the rounds or in a callback.
Outside == at # "round" /\ at' = at

Set(h, period) ==
    /\ Outside /\ alarms[h] = Free
    /\ alarms' = [alarms EXCEPT ![h] = Alarm("set", period)]

Delete(h) ==
    /\ Outside
    /\ alarms' = [alarms EXCEPT ![h] = Free]

\* What is due is called before anything falls due again.
Fall ==
    /\ at = "idle" /\ DueHandles = {}
    /\ at' = "round"
    /\ \E S \in SUBSET {h \in Handles : alarms[h].status = "set"} :
         alarms' = [h \in Handles |-> IF h \in S THEN Alarm("due", alarms[h].period)
                                                 ELSE alarms[h]]

Call(h) ==
    /\ at = "round" /\ h \in DueHandles
    /\ \A other \in DueHandles : h <= other
    /\ alarms' = [alarms EXCEPT ![h] =
                    IF alarms[h].period = 0 THEN Free
                                            ELSE Alarm("set", alarms[h].period)]
    /\ at' = "callback"

Return == at = "callback" /\ at' = "round" /\ UNCHANGED alarms

EndRound == at = "round" /\ DueHandles = {} /\ at' = "idle" /\ UNCHANGED alarms

Next ==
    \/ \E h \in Handles :
         (\E period \in Periods : Set(h, period)) \/ Delete(h) \/ Call(h)
    \/ Fall \/ Return \/ EndRound

Spec == Init /\ [][Next]_vars
============================================================================
