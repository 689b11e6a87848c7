------------------------- MODULE MasterSupervisor -------------------------
(***************************************************************************)
(* What the fault-recovery service promises about the EtherCAT master it   *)
(* supervises, without threads, fault log or flags: the master comes up    *)
(* once at boot and then only on command, a start is never begun over a    *)
(* pending stop, and motors move only under a running master.              *)
(***************************************************************************)
EXTENDS TLAPS

VARIABLES
    master,     \* "stopped", "starting" or "running"
    booted,     \* the master has been running once
    asked,      \* an accepted recover command has not been taken up yet
    stopping,   \* a fault or the stop command has asked for a stop
    moving      \* the service runs with the motion flag on

vars == <<master, booted, asked, stopping, moving>>

Init ==
    /\ master = "stopped" /\ booted = FALSE
    /\ asked = FALSE /\ stopping = FALSE /\ moving = FALSE

\* The first start needs no recover command; it may be tried again.
Boot ==
    /\ master = "stopped" /\ ~booted
    /\ master' = "starting"
    /\ UNCHANGED <<booted, asked, stopping, moving>>

Ask ==
    /\ master = "stopped" /\ booted /\ ~asked /\ ~moving
    /\ asked' = TRUE
    /\ UNCHANGED <<master, booted, stopping, moving>>

\* A pending stop is served before the recovery.
Recover ==
    /\ master = "stopped" /\ asked /\ ~stopping
    /\ master' = "starting" /\ asked' = FALSE
    /\ UNCHANGED <<booted, stopping, moving>>

Up ==
    /\ master = "starting"
    /\ master' = "running" /\ booted' = TRUE
    /\ UNCHANGED <<asked, stopping, moving>>

GiveUp ==
    /\ master = "starting"
    /\ master' = "stopped"
    /\ UNCHANGED <<booted, asked, stopping, moving>>

\* A fault or the stop command; a start is not interrupted.
AskStop ==
    /\ booted /\ master # "starting" /\ ~stopping
    /\ stopping' = TRUE
    /\ moving' \in {moving, FALSE}
    /\ UNCHANGED <<master, booted, asked>>

\* The stop takes effect; a request that came meanwhile may be left.
Halt ==
    /\ stopping /\ ~moving
    /\ master' = "stopped"
    /\ stopping' \in BOOLEAN
    /\ UNCHANGED <<booted, asked, moving>>

Move ==
    /\ master = "running" /\ ~moving
    /\ moving' = TRUE
    /\ UNCHANGED <<master, booted, asked, stopping>>

Rest ==
    /\ moving
    /\ moving' = FALSE
    /\ UNCHANGED <<master, booted, asked, stopping>>

Next == Boot \/ Ask \/ Recover \/ Up \/ GiveUp \/ AskStop \/ Halt
        \/ Move \/ Rest

\* Every stop is obeyed and every start comes to an end.
Progress ==
    /\ stopping ~> master = "stopped"
    /\ master = "starting" ~> master # "starting"

Steps == Init /\ [][Next]_vars

Spec == Steps /\ Progress

----------------------------------------------------------------------------

\* Motors move only under a running master, and no start is under way with a
\* stop or another recovery pending.
Supervised ==
    /\ moving => master = "running"
    /\ master = "starting" => ~stopping /\ ~asked
    /\ asked => booted /\ master = "stopped"
    /\ stopping => booted

TypeOK ==
    /\ master \in {"stopped", "starting", "running"}
    /\ booted \in BOOLEAN /\ asked \in BOOLEAN
    /\ stopping \in BOOLEAN /\ moving \in BOOLEAN

\* The promise is consistent: whatever implements the steps of this module
\* keeps motors and starts supervised.
THEOREM SupervisorSafe == Steps => []Supervised
<1> DEFINE Inv == TypeOK /\ Supervised
<1>1. Init => Inv
  BY DEF Init, TypeOK, Supervised
<1>2. Inv /\ [Next]_vars => Inv'
  <2> SUFFICES ASSUME Inv, [Next]_vars PROVE Inv'
    OBVIOUS
  <2> USE DEF TypeOK, Supervised
  <2>1. CASE Boot BY <2>1 DEF Boot
  <2>2. CASE Ask BY <2>2 DEF Ask
  <2>3. CASE Recover BY <2>3 DEF Recover
  <2>4. CASE Up BY <2>4 DEF Up
  <2>5. CASE GiveUp BY <2>5 DEF GiveUp
  <2>6. CASE AskStop
    <3>1. moving' = moving \/ moving' = FALSE
      BY <2>6 DEF AskStop
    <3>2. CASE moving' = moving BY <2>6, <3>2 DEF AskStop
    <3>3. CASE moving' = FALSE BY <2>6, <3>3 DEF AskStop
    <3> QED
      BY <3>1, <3>2, <3>3
  <2>7. CASE Halt BY <2>7 DEF Halt
  <2>8. CASE Move BY <2>8 DEF Move
  <2>9. CASE Rest BY <2>9 DEF Rest
  <2>10. CASE UNCHANGED vars BY <2>10 DEF vars
  <2> QED
    BY <2>1, <2>2, <2>3, <2>4, <2>5, <2>6, <2>7, <2>8, <2>9, <2>10 DEF Next
<1>3. Inv => Supervised
  OBVIOUS
<1> QED
  BY <1>1, <1>2, <1>3, PTL DEF Steps
============================================================================
