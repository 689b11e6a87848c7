----------------------- MODULE EcatRefinementProofs -----------------------
(***************************************************************************)
(* The steps of EcatRecovery implement the steps of MasterSupervisor, for  *)
(* any number of faults and slaves, any log and any failing calls but the  *)
(* stop, when the operator waits for the monitor's report.                 *)
(***************************************************************************)
EXTENDS EcatRecoveryProofs

\* The expected slave count is set when the master first runs, and only a
\* recovery starts it after that.
BootInv ==
    /\ mpc \in {"off", "init"} => expected_count < 0 /\ ~recovery_running
    /\ mpc \in StartPCs => (recovery_running <=> expected_count >= 0)
    /\ mpc \in PollPCs \cup StopPCs \cup RecoverPCs \cup {"fin"}
         => expected_count >= 0
    /\ mpc \in RecoverPCs \ {"rec_claim"} => recovery_running
    /\ spc # "idle" => expected_count >= 0

\* The recover command past its first guards.
Recovering ==
    spc \in {"rec_run", "rec_busy", "rec_pend", "rec_fault", "rec_lnk",
             "rec_set"}

\* A start, and a recovery about to be claimed, find no stop pending.
StopInv ==
    /\ mpc \in Starting => ~stop_requested
    /\ mpc \in {"check_rec", "rec_claim"} /\ (recovery_requested \/ Recovering)
         => ~stop_requested

RefineInv == MotionInv /\ BootInv /\ StopInv

\* Who may start the master, and when, depends on whether it has run before.
LEMMA BootStep ==
  ASSUME Patient, TypeOK, BootInv, [Next]_vars
  PROVE  BootInv'
<1> USE DEF TypeOK, BootInv, StartPCs, PollPCs, StopPCs, RecoverPCs, StartFailed,
        MayType, requests, links, status, cursor, faultLog, service, batch, monitor, Goto, Shell, Guard
<1>1. CASE StartDemo
  BY <1>1 DEF StartDemo
<1>2. CASE MasterInit
  BY <1>2 DEF MasterInit
<1>3. CASE CountSlaves
  BY <1>3 DEF CountSlaves
<1>4. CASE ConfigSlaves
  BY <1>4 DEF ConfigSlaves
<1>5. CASE StartMaster
  BY <1>5 DEF StartMaster
<1>6. CASE CheckOperational
  BY <1>6 DEF CheckOperational
<1>7. CASE SyncSequence
  BY <1>7 DEF SyncSequence
<1>8. CASE SetReady
  BY <1>8 DEF SetReady
<1>9. CASE SetRunning
  BY <1>9 DEF SetRunning
<1>10. CASE PollFaults
  BY <1>10 DEF PollFaults
<1>11. CASE FetchHistory
  BY <1>11 DEF FetchHistory
<1>12. CASE HandleRecord
  BY <1>12 DEF HandleRecord
<1>12a. CASE MarkRecord
  BY <1>12a DEF MarkRecord
<1>13. CASE CheckStop
  BY <1>13 DEF CheckStop
<1>14. CASE CheckRecovery
  BY <1>14 DEF CheckRecovery
<1>15. CASE ClaimStop
  BY <1>15 DEF ClaimStop
<1>16. CASE StopMaster
  BY <1>16 DEF StopMaster
<1>17. CASE StopDone
  BY <1>17 DEF StopDone
<1>18. CASE ClaimRecovery
  BY <1>18 DEF ClaimRecovery
<1>19. CASE WaitForLink
  BY <1>19 DEF WaitForLink
<1>20. CASE CheckRecoverySlaveCount
  BY <1>20 DEF CheckRecoverySlaveCount
<1>21. CASE RecoveryDone
  BY <1>21 DEF RecoveryDone
<1>22. CASE Release
  BY <1>22 DEF Release
<1>23. CASE StopCheck
  BY <1>23 DEF StopCheck
<1>24. CASE StopSet
  BY <1>24 DEF StopSet
<1>25. CASE RecoverCheck
  BY <1>25 DEF RecoverCheck
<1>26. CASE RecoverSet
  BY <1>26 DEF RecoverSet
<1>27. CASE ClearAll
  BY <1>27 DEF ClearAll
<1>28. CASE ClearSequence
  BY <1>28 DEF ClearSequence
<1>29. CASE ClearReset
  BY <1>29 DEF ClearReset
<1>30. CASE MotorRunCheck
  BY <1>30 DEF MotorRunCheck
<1>31. CASE MotorRunSet
  BY <1>31 DEF MotorRunSet
<1>32. CASE MotorStop
  BY <1>32 DEF MotorStop
<1>33. CASE DriveFault
  BY <1>33 DEF DriveFault
<1>34. CASE RaiseFault
  BY <1>34 DEF RaiseFault
<1>35. CASE SlavesChange
  BY <1>35 DEF SlavesChange
<1>36. CASE UNCHANGED vars
  BY <1>36 DEF vars
<1> QED
  BY ONLY [Next]_vars, <1>1, <1>2, <1>3, <1>4, <1>5, <1>6, <1>7, <1>8, <1>9,
     <1>10, <1>11, <1>12, <1>12a, <1>13, <1>14, <1>15, <1>16, <1>17, <1>18, <1>19,
     <1>20, <1>21, <1>22, <1>23, <1>24, <1>25, <1>26, <1>27, <1>28, <1>29,
     <1>30, <1>31, <1>32, <1>33, <1>34, <1>35, <1>36 DEF Next, Monitor,
     ShellThread

\* No stop is asked for between the look at the request and the start's end.
LEMMA StopStep ==
  ASSUME Patient, PatientInv, StopInv, [Next]_vars
  PROVE  StopInv'
<1> USE DEF PatientInv, TypeOK, RequestIsQuiet, StartIsQuiet, ClaimIsAsked,
        Quiet, StopInv, Recovering,
        Starting, StartPCs, PollPCs, StopPCs, RecoverPCs, StartFailed, MayType, requests, links, status, cursor, faultLog, service, batch, monitor, Goto, Shell, Guard
<1>1. CASE StartDemo
  BY <1>1 DEF StartDemo
<1>2. CASE MasterInit
  BY <1>2 DEF MasterInit
<1>3. CASE CountSlaves
  BY <1>3 DEF CountSlaves
<1>4. CASE ConfigSlaves
  BY <1>4 DEF ConfigSlaves
<1>5. CASE StartMaster
  BY <1>5 DEF StartMaster
<1>6. CASE CheckOperational
  BY <1>6 DEF CheckOperational
<1>7. CASE SyncSequence
  BY <1>7 DEF SyncSequence
<1>8. CASE SetReady
  BY <1>8 DEF SetReady
<1>9. CASE SetRunning
  BY <1>9 DEF SetRunning
<1>10. CASE PollFaults
  BY <1>10 DEF PollFaults
<1>11. CASE FetchHistory
  BY <1>11 DEF FetchHistory
<1>12. CASE HandleRecord
  BY <1>12 DEF HandleRecord
<1>12a. CASE MarkRecord
  BY <1>12a DEF MarkRecord
<1>13. CASE CheckStop
  BY <1>13 DEF CheckStop
<1>14. CASE CheckRecovery
  BY <1>14 DEF CheckRecovery
<1>15. CASE ClaimStop
  BY <1>15 DEF ClaimStop
<1>16. CASE StopMaster
  BY <1>16 DEF StopMaster
<1>17. CASE StopDone
  BY <1>17 DEF StopDone
<1>18. CASE ClaimRecovery
  BY <1>18 DEF ClaimRecovery
<1>19. CASE WaitForLink
  BY <1>19 DEF WaitForLink
<1>20. CASE CheckRecoverySlaveCount
  BY <1>20 DEF CheckRecoverySlaveCount
<1>21. CASE RecoveryDone
  BY <1>21 DEF RecoveryDone
<1>22. CASE Release
  BY <1>22 DEF Release
<1>23. CASE StopCheck
  BY <1>23 DEF StopCheck
<1>24. CASE StopSet
  BY <1>24 DEF StopSet
<1>25. CASE RecoverCheck
  BY <1>25 DEF RecoverCheck
<1>26. CASE RecoverSet
  BY <1>26 DEF RecoverSet
<1>27. CASE ClearAll
  BY <1>27 DEF ClearAll
<1>28. CASE ClearSequence
  BY <1>28 DEF ClearSequence
<1>29. CASE ClearReset
  BY <1>29 DEF ClearReset
<1>30. CASE MotorRunCheck
  BY <1>30 DEF MotorRunCheck
<1>31. CASE MotorRunSet
  BY <1>31 DEF MotorRunSet
<1>32. CASE MotorStop
  BY <1>32 DEF MotorStop
<1>33. CASE DriveFault
  BY <1>33 DEF DriveFault
<1>34. CASE RaiseFault
  BY <1>34 DEF RaiseFault
<1>35. CASE SlavesChange
  BY <1>35 DEF SlavesChange
<1>36. CASE UNCHANGED vars
  BY <1>36 DEF vars
<1> QED
  BY ONLY [Next]_vars, <1>1, <1>2, <1>3, <1>4, <1>5, <1>6, <1>7, <1>8, <1>9,
     <1>10, <1>11, <1>12, <1>12a, <1>13, <1>14, <1>15, <1>16, <1>17, <1>18, <1>19,
     <1>20, <1>21, <1>22, <1>23, <1>24, <1>25, <1>26, <1>27, <1>28, <1>29,
     <1>30, <1>31, <1>32, <1>33, <1>34, <1>35, <1>36 DEF Next, Monitor,
     ShellThread

\* Every step of the three actors is a step of the supervisor or changes
\* nothing it promises about.
LEMMA Simulates ==
  ASSUME Patient, "stop" \notin MayFail, RefineInv, [Next]_vars
  PROVE  [Supervisor!Next]_Supervisor!vars
<1> USE DEF RefineInv, MotionInv, PatientInv, TypeOK, BootInv, StopInv, Recovering,
        RequestIsQuiet, StartIsQuiet, ClaimIsAsked, CommandFresh, Quiet,
        NoUnsupervisedMotion, PendingMotion, StopTookEffect,
        Starting, StartPCs, PollPCs, StopPCs, RecoverPCs, StartFailed, MayType,
        Supervisor!Next, Supervisor!vars, master,
        Supervisor!Boot, Supervisor!Ask, Supervisor!Recover, Supervisor!Up,
        Supervisor!GiveUp, Supervisor!AskStop, Supervisor!Halt,
        Supervisor!Move, Supervisor!Rest, requests, links, status, cursor, faultLog, service, batch, monitor, Goto, Shell, Guard
<1>1. CASE StartDemo
  BY <1>1 DEF StartDemo
<1>2. CASE MasterInit
  BY <1>2 DEF MasterInit
<1>3. CASE CountSlaves
  BY <1>3 DEF CountSlaves
<1>4. CASE ConfigSlaves
  BY <1>4 DEF ConfigSlaves
<1>5. CASE StartMaster
  BY <1>5 DEF StartMaster
<1>6. CASE CheckOperational
  BY <1>6 DEF CheckOperational
<1>7. CASE SyncSequence
  BY <1>7 DEF SyncSequence
<1>8. CASE SetReady
  BY <1>8 DEF SetReady
<1>9. CASE SetRunning
  BY <1>9 DEF SetRunning
<1>10. CASE PollFaults
  BY <1>10 DEF PollFaults
<1>11. CASE FetchHistory
  BY <1>11 DEF FetchHistory
<1>12. CASE HandleRecord
  BY <1>12 DEF HandleRecord
<1>12a. CASE MarkRecord
  BY <1>12a DEF MarkRecord
<1>13. CASE CheckStop
  BY <1>13 DEF CheckStop
<1>14. CASE CheckRecovery
  BY <1>14 DEF CheckRecovery
<1>15. CASE ClaimStop
  BY <1>15 DEF ClaimStop
<1>16. CASE StopMaster
  BY <1>16 DEF StopMaster
<1>17. CASE StopDone
  BY <1>17 DEF StopDone
<1>18. CASE ClaimRecovery
  BY <1>18 DEF ClaimRecovery
<1>19. CASE WaitForLink
  BY <1>19 DEF WaitForLink
<1>20. CASE CheckRecoverySlaveCount
  BY <1>20 DEF CheckRecoverySlaveCount
<1>21. CASE RecoveryDone
  BY <1>21 DEF RecoveryDone
<1>22. CASE Release
  BY <1>22 DEF Release
<1>23. CASE StopCheck
  BY <1>23 DEF StopCheck
<1>24. CASE StopSet
  BY <1>24 DEF StopSet
<1>25. CASE RecoverCheck
  BY <1>25 DEF RecoverCheck
<1>26. CASE RecoverSet
  BY <1>26 DEF RecoverSet
<1>27. CASE ClearAll
  BY <1>27 DEF ClearAll
<1>28. CASE ClearSequence
  BY <1>28 DEF ClearSequence
<1>29. CASE ClearReset
  BY <1>29 DEF ClearReset
<1>30. CASE MotorRunCheck
  BY <1>30 DEF MotorRunCheck
<1>31. CASE MotorRunSet
  BY <1>31 DEF MotorRunSet
<1>32. CASE MotorStop
  BY <1>32 DEF MotorStop
<1>33. CASE DriveFault
  BY <1>33 DEF DriveFault
<1>34. CASE RaiseFault
  BY <1>34 DEF RaiseFault
<1>35. CASE SlavesChange
  BY <1>35 DEF SlavesChange
<1>36. CASE UNCHANGED vars
  BY <1>36 DEF vars
<1> QED
  BY ONLY [Next]_vars, <1>1, <1>2, <1>3, <1>4, <1>5, <1>6, <1>7, <1>8, <1>9,
     <1>10, <1>11, <1>12, <1>12a, <1>13, <1>14, <1>15, <1>16, <1>17, <1>18, <1>19,
     <1>20, <1>21, <1>22, <1>23, <1>24, <1>25, <1>26, <1>27, <1>28, <1>29,
     <1>30, <1>31, <1>32, <1>33, <1>34, <1>35, <1>36 DEF Next, Monitor,
     ShellThread

\* The supervisor's invariant of EcatRecovery holds initially.
LEMMA RefineInit == Init => RefineInv
<1> SUFFICES ASSUME Init PROVE RefineInv
  OBVIOUS
<1>1. TypeOK
  BY InitType
<1>2. MotionInv
  BY <1>1 DEF Init, MotionInv, PatientInv, RequestIsQuiet, StartIsQuiet,
              ClaimIsAsked, CommandFresh, Quiet, NoUnsupervisedMotion,
              RunningIsReady, PendingMotion, StopTookEffect
<1>3. BootInv /\ StopInv
  BY DEF Init, BootInv, StopInv, Recovering, StartPCs, PollPCs, StopPCs,
         RecoverPCs
<1> QED
  BY <1>2, <1>3 DEF RefineInv

\* The recovery service keeps the promise of MasterSupervisor: a master that
\* has run comes back only on an accepted command and with the motors off, no
\* start begins over a pending stop, and motion starts under a running master
\* only, if the operator waits for the report and the service obeys a stop.
THEOREM ImplementsSupervisor ==
  ASSUME Patient, "stop" \notin MayFail
  PROVE  Spec => Supervisor!Steps
<1>1. Init => Supervisor!Init
  BY DEF Init, Supervisor!Init, master, StartPCs
<1>2. RefineInv /\ [Next]_vars => RefineInv'
  BY MotionStep, PatientStep, TypeStep, BootStep, StopStep
     DEF RefineInv, MotionInv, PatientInv
<1>3. RefineInv /\ [Next]_vars => [Supervisor!Next]_Supervisor!vars
  BY Simulates
<1> QED
  BY <1>1, <1>2, <1>3, RefineInit, PTL DEF Spec, Supervisor!Steps

\* So what the promise implies holds of the service: no start is under way
\* with a stop or another recovery pending.
THEOREM RecoverySupervised ==
  ASSUME Patient, "stop" \notin MayFail
  PROVE  Spec => []Supervisor!Supervised
BY ImplementsSupervisor, Supervisor!SupervisorSafe
============================================================================
