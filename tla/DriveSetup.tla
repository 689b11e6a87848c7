---------------------------- MODULE DriveSetup ----------------------------
(***************************************************************************)
(* What the CANopen master promises of the configuration of a drive,       *)
(* without threads, semaphore, line and frames: one configuration at a     *)
(* time, its writes acknowledged one after the other from the first, and   *)
(* a drive that is told to operate after the last of them only.            *)
(***************************************************************************)
EXTENDS Integers

CONSTANT Steps  \* writes of a configuration

VARIABLES
    phase,      \* "idle", "writing" or "complete"
    written,    \* the writes acknowledged since the last one began
    operating   \* the drive has been told to operate since its power-up

vars == <<phase, written, operating>>

Init == phase = "idle" /\ written = {} /\ operating = FALSE

\* A drive that operates is not configured again.
Begin ==
    /\ phase = "idle" /\ ~operating
    /\ phase' = "writing" /\ written' = {}
    /\ UNCHANGED operating

Write ==
    /\ phase = "writing"
    /\ \E n \in 0..Steps - 1 : written = 0..n - 1 /\ written' = 0..n
    /\ UNCHANGED <<phase, operating>>

\* A write that failed for good, or an emergency.
Abandon ==
    /\ phase = "writing"
    /\ phase' = "idle"
    /\ UNCHANGED <<written, operating>>

Complete ==
    /\ phase = "writing" /\ written = 0..Steps - 1
    /\ phase' = "complete"
    /\ UNCHANGED <<written, operating>>

Operate ==
    /\ phase = "complete"
    /\ phase' = "idle" /\ operating' = TRUE
    /\ UNCHANGED written

PowerLoss ==
    /\ phase = "idle" /\ operating
    /\ operating' = FALSE
    /\ UNCHANGED <<phase, written>>

Next == Begin \/ Write \/ Abandon \/ Complete \/ Operate \/ PowerLoss

Spec == Init /\ [][Next]_vars
============================================================================
