----------------------- MODULE EcatRecoveryProofs -----------------------
(***************************************************************************)
(* Proofs about EcatRecovery, for any number of faults and slaves, any     *)
(* batch and log size and any set of failing calls.                        *)
(***************************************************************************)
EXTENDS EcatRecovery, TLAPS

\* While the start sequence is past ecat_master_start the service runs; with
\* AppKnowsRunning this is inductive.
StartedService ==
    mpc \in {"op_check", "sync", "ready", "run"} => svc_running

AppInv == AppKnowsRunning /\ StartedService

\* With a patient operator: from the moment a recovery is requested until the
\* master runs, the shell is idle and the motors are off.
Starting == {"off", "init", "rec_link", "rec_count"} \cup StartPCs

Quiet == spc = "idle" /\ ~master_running /\ ~servo_run

RequestIsQuiet == recovery_requested => Quiet
StartIsQuiet   == mpc \in Starting => Quiet /\ ~recovery_requested
ClaimIsAsked   == mpc = "rec_claim" => recovery_requested
CommandFresh   ==
    spc \in {"rec_busy", "rec_pend", "rec_fault", "rec_lnk", "rec_set"}
      => ~master_running

PatientInv ==
    /\ TypeOK
    /\ RequestIsQuiet /\ StartIsQuiet /\ ClaimIsAsked /\ CommandFresh

\* What NoUnsupervisedMotion needs besides: a motor_run about to write its
\* flag found a master still supervised, and a served stop took effect.
RunningIsReady == (master_running \/ mpc = "run") => master_ready
PendingMotion  == svc_running /\ spc = "motor_set" => master_running
StopTookEffect ==
    /\ mpc # "stop_failed"
    /\ mpc = "stop_done" /\ master_running => ~svc_running

MotionInv ==
    PatientInv /\ NoUnsupervisedMotion /\ RunningIsReady /\ PendingMotion
    /\ StopTookEffect

LEMMA PCStep == TypeOK /\ Next => mpc' \in MonitorPCs /\ spc' \in ShellPCs
<1> SUFFICES ASSUME TypeOK, Next PROVE mpc' \in MonitorPCs /\ spc' \in ShellPCs
  OBVIOUS
<1> USE DEF TypeOK, MonitorPCs, StartPCs, PollPCs, StopPCs, RecoverPCs, ShellPCs, Goto, Shell, Guard, monitor, StartFailed
<1>1. CASE StartDemo BY <1>1 DEF StartDemo
<1>2. CASE Monitor 
  BY <1>2 DEF Monitor, MasterInit, CountSlaves, ConfigSlaves, StartMaster, CheckOperational, SyncSequence, SetReady, SetRunning, PollFaults, FetchHistory, HandleRecord, MarkRecord, CheckStop, CheckRecovery, ClaimStop, StopMaster, StopDone, ClaimRecovery, WaitForLink, CheckRecoverySlaveCount, RecoveryDone, Release
<1>3. CASE ShellThread
  BY <1>3 DEF ShellThread, StopCheck, StopSet, RecoverCheck, RecoverSet, ClearAll, ClearSequence, ClearReset, MotorRunCheck, MotorRunSet, MotorStop
<1>4. CASE DriveFault BY <1>4 DEF DriveFault
<1>5. CASE RaiseFault BY <1>5 DEF RaiseFault
<1>6. CASE SlavesChange BY <1>6 DEF SlavesChange
<1> QED BY <1>1, <1>2, <1>3, <1>4, <1>5, <1>6 DEF Next


\* A step that only moves the monitor keeps every variable typed.
LEMMA GotoType ==
  ASSUME NEW from, NEW to \in MonitorPCs \ {"handle", "mark"}, TypeOK, Goto(from, to)
  PROVE  TypeOK'
BY DEF TypeOK, Goto, vars, requests, links, status, cursor, faultLog, service, batch, monitor

LEMMA StartFailedPC == StartFailed \in MonitorPCs \ {"handle", "mark"}
BY DEF StartFailed, MonitorPCs, StartPCs

\* What a history query returns are records of the log.
LEMMA NewerRecordsType ==
  ASSUME TypeOK, NEW id, NEW r \in NewerRecords(id)
  PROVE  r \in Seq(FaultRecord)
<1>1. PICK first \in 1..Len(log) + 1 :
        r = SubSeq(log, first, IF first + Batch - 1 < Len(log)
                                 THEN first + Batch - 1 ELSE Len(log))
  BY DEF NewerRecords
<1>2. log \in Seq(FaultRecord)
  BY DEF TypeOK
<1>3. Batch \in Nat \ {0} /\ first \in Nat /\ Len(log) \in Nat
  BY <1>2, RecoveryAssumption
<1> DEFINE last == IF first + Batch - 1 < Len(log) THEN first + Batch - 1
                                                   ELSE Len(log)
<1>4. last \in Int /\ first >= 1 /\ last <= Len(log)
  BY <1>3
<1>5. \A i \in first..last : log[i] \in FaultRecord
  BY <1>2, <1>3, <1>4
<1> QED
  BY <1>1, <1>2, <1>4, <1>5

LEMMA TypeStep ==
  ASSUME TypeOK, [Next]_vars
  PROVE  TypeOK'
<1>1. CASE UNCHANGED vars
  BY <1>1 DEF TypeOK, vars, requests, links, status, cursor, faultLog, service, batch, monitor
<1>2. CASE Next
  <2>a. mpc' \in MonitorPCs /\ spc' \in ShellPCs
    BY <1>2, PCStep
  <2>b. /\ StartFailed \in MonitorPCs \ {"handle", "mark"}
        /\ {"off", "count", "start", "sync", "ready", "check", "stop_claim",
            "check_rec", "rec_claim", "poll", "stop_done", "stop_failed", "rec_count", "fin"}
             \subseteq MonitorPCs \ {"handle", "mark"}
    BY DEF StartFailed, MonitorPCs, StartPCs, PollPCs, StopPCs, RecoverPCs
  <2>1. CASE MasterInit
    BY <2>b, <2>1, GotoType DEF MasterInit
  <2>2. CASE ConfigSlaves
    BY <2>b, <2>2, GotoType DEF ConfigSlaves
  <2>3. CASE CheckOperational
    BY <2>b, <2>3, GotoType DEF CheckOperational
  <2>4. CASE CheckStop
    BY <2>b, <2>4, GotoType DEF CheckStop
  <2>5. CASE CheckRecovery
    BY <2>b, <2>5, GotoType DEF CheckRecovery
  <2>6. CASE WaitForLink
    BY <2>b, <2>6, GotoType DEF WaitForLink
  <2>7. CASE CheckRecoverySlaveCount
    BY <2>b, <2>7, GotoType DEF CheckRecoverySlaveCount
  <2>8. CASE StartMaster
    <3>1. CASE /\ mpc' = "op_check" /\ svc_running' = TRUE
             /\ UNCHANGED <<servo_run, links, requests, status, cursor, slaves,
                            faultLog, slave_count, batch, spc>>
      BY <2>a, <3>1 DEF TypeOK, requests, links, status, cursor, faultLog, service, batch, monitor
    <3> QED
      BY <2>b, <2>8, <3>1, GotoType DEF StartMaster
  <2>9. CASE PollFaults
    <3>1. CASE /\ mpc' = "fetch" /\ fault_sequence' = sequence
             /\ UNCHANGED <<servo_run, links, requests, status, last_fault_id,
                            service, slave_count, batch, spc>>
      BY <2>a, <3>1 DEF TypeOK, requests, links, status, cursor, faultLog, service, batch, monitor
    <3> QED
      BY <2>b, <2>9, <3>1, GotoType DEF PollFaults
  <2>10. CASE SyncSequence
    <3>1. CASE /\ mpc' = "ready" /\ fault_sequence' = sequence
             /\ UNCHANGED <<servo_run, links, requests, status, last_fault_id,
                            service, slave_count, batch, spc>>
      BY <2>a, <3>1 DEF TypeOK, requests, links, status, cursor, faultLog, service, batch, monitor
    <3> QED
      BY <2>b, <2>10, <3>1, GotoType DEF SyncSequence
  <2>11. CASE FetchHistory
    <3>1. CASE /\ records' \in NewerRecords(last_fault_id)
               /\ full' = (Len(records') = Batch)
               /\ mpc' = IF records' = <<>> THEN "check" ELSE "handle"
               /\ UNCHANGED <<servo_run, links, requests, status, cursor,
                              service, slave_count, spc>>
      <4>1. records' \in Seq(FaultRecord)
        BY <3>1, NewerRecordsType
      <4>2. full' \in BOOLEAN
        BY <3>1
      <4> QED
        BY <2>a, <3>1, <4>1, <4>2 DEF TypeOK, requests, links, status, cursor, faultLog, service, batch, monitor
    <3> QED
      BY <2>b, <2>11, <3>1, GotoType DEF FetchHistory
  <2> USE DEF TypeOK, requests, links, status, cursor, faultLog, service, batch, monitor, Goto, Shell, Guard
  <2>12. CASE StartDemo
    BY RecoveryAssumption, <2>a, <2>12 DEF StartDemo
  <2>13. CASE CountSlaves
    <3>1. mpc' \notin {"handle", "mark"}
      BY <2>b, <2>13 DEF CountSlaves
    <3> QED
      BY <2>a, <2>13, <3>1 DEF CountSlaves
  <2>14. CASE SetReady
    BY RecoveryAssumption, <2>a, <2>14 DEF SetReady
  <2>15. CASE SetRunning
    BY RecoveryAssumption, <2>a, <2>15 DEF SetRunning
  <2>16. CASE HandleRecord
    <3>1. /\ link_up_detected' \in BOOLEAN /\ link_down_detected' \in BOOLEAN
          /\ stop_requested' \in BOOLEAN /\ servo_run' \in BOOLEAN
      BY ONLY <2>16 DEF HandleRecord
    <3>2. /\ mpc = "handle"
          /\ UNCHANGED <<recovery_requested, status, cursor, service,
                         slave_count, batch, spc>>
      BY ONLY <2>16 DEF HandleRecord
    <3> QED
      BY <2>a, <3>1, <3>2
  <2>16a. CASE MarkRecord
    <3>1. records # <<>> /\ records \in Seq(FaultRecord)
      BY <2>16a DEF MarkRecord
    <3>2. Head(records) \in FaultRecord /\ Tail(records) \in Seq(FaultRecord)
      BY ONLY <3>1
    <3>3. records' \in Seq(FaultRecord) /\ last_fault_id' \in Nat
      BY ONLY <2>16a, <3>2 DEF MarkRecord, FaultRecord
    <3>4. mpc' \in {"handle", "mark"} => records' # <<>>
      BY ONLY <2>16a DEF MarkRecord
    <3>5. UNCHANGED <<servo_run, links, requests, status, fault_sequence,
                      service, slave_count, full, spc>>
      BY ONLY <2>16a DEF MarkRecord
    <3> QED
      BY <2>a, <3>3, <3>4, <3>5
  <2>17. CASE ClaimStop
    BY RecoveryAssumption, <2>a, <2>17 DEF ClaimStop
  <2>18. CASE StopMaster
    <3>1. CASE Goto("stop_call", "stop_failed")
      BY <2>b, <3>1, GotoType
    <3>2. CASE /\ mpc' = "stop_done"
               /\ svc_running' = (svc_running
                                    /\ ~(master_ready /\ master_running))
               /\ UNCHANGED <<servo_run, links, requests, status, cursor,
                              slaves, faultLog, slave_count, batch, spc>>
      <4>1. svc_running' \in BOOLEAN
        BY ONLY <3>2
      <4> QED
        BY <2>a, <3>2, <4>1
    <3> QED
      BY ONLY <2>18, <3>1, <3>2 DEF StopMaster
  <2>19. CASE StopDone
    BY RecoveryAssumption, <2>a, <2>19 DEF StopDone
  <2>20. CASE ClaimRecovery
    BY RecoveryAssumption, <2>a, <2>20 DEF ClaimRecovery
  <2>21. CASE RecoveryDone
    BY RecoveryAssumption, <2>a, <2>21 DEF RecoveryDone
  <2>22. CASE Release
    BY RecoveryAssumption, <2>a, <2>22 DEF Release
  <2>23. CASE StopCheck
    BY RecoveryAssumption, <2>a, <2>23 DEF StopCheck
  <2>24. CASE StopSet
    BY RecoveryAssumption, <2>a, <2>24 DEF StopSet
  <2>25. CASE RecoverCheck
    BY RecoveryAssumption, <2>a, <2>25 DEF RecoverCheck
  <2>26. CASE RecoverSet
    BY RecoveryAssumption, <2>a, <2>26 DEF RecoverSet
  <2>27. CASE ClearAll
    <3>0. log' = <<>> /\ latched' = FALSE
      BY ONLY <2>27 DEF ClearAll
    <3>1. log' \in Seq(FaultRecord)
      BY ONLY <3>0
    <3>2. latched' \in BOOLEAN
      BY ONLY <3>0
    <3> QED
      BY <2>a, <2>27, <3>1, <3>2 DEF ClearAll
  <2>28. CASE ClearSequence
    BY RecoveryAssumption, <2>a, <2>28 DEF ClearSequence
  <2>29. CASE ClearReset
    BY RecoveryAssumption, <2>a, <2>29 DEF ClearReset
  <2>30. CASE MotorRunCheck
    BY RecoveryAssumption, <2>a, <2>30 DEF MotorRunCheck
  <2>31. CASE MotorRunSet
    BY RecoveryAssumption, <2>a, <2>31 DEF MotorRunSet
  <2>32. CASE MotorStop
    BY RecoveryAssumption, <2>a, <2>32 DEF MotorStop
  <2>33. CASE DriveFault
    BY RecoveryAssumption, <2>a, <2>33 DEF DriveFault
  <2>34. CASE RaiseFault
    <3>0. log \in Seq(FaultRecord) /\ latched \in BOOLEAN /\ sequence \in Nat
      OBVIOUS
    <3>s. log \in Seq(FaultRecord)
      BY ONLY <3>0
    <3>r. ASSUME log # <<>> PROVE log[Len(log)] \in FaultRecord
      BY ONLY <3>s, <3>r
    <3>l. log # <<>> => log[Len(log)].id \in Nat
      BY ONLY <3>r DEF FaultRecord
    <3>1. FreshId \in Nat
      BY ONLY <3>0, <3>l DEF FreshId
    <3>2. PICK type \in Types, level \in Levels :
            log' = Append(IF Len(log) = HistoryDepth THEN Tail(log) ELSE log,
                          [id |-> FreshId, type |-> type, level |-> level])
      BY ONLY <2>34 DEF RaiseFault, Levels
    <3>3. [id |-> FreshId, type |-> type, level |-> level] \in FaultRecord
      BY ONLY <3>1, type \in Types, level \in Levels DEF FaultRecord
    <3>4. (IF Len(log) = HistoryDepth THEN Tail(log) ELSE log)
             \in Seq(FaultRecord)
      BY RecoveryAssumption
    <3>5. log' \in Seq(FaultRecord)
      BY ONLY <3>2, <3>3, <3>4
    <3>6. latched' \in BOOLEAN
      BY ONLY <2>34, <3>0 DEF RaiseFault
    <3>7. sequence' \in Nat
      BY ONLY <2>34, <3>0 DEF RaiseFault
    <3> QED
      BY <2>a, <2>34, <3>5, <3>6, <3>7 DEF RaiseFault
  <2>35. CASE SlavesChange
    BY RecoveryAssumption, <2>a, <2>35 DEF SlavesChange
  <2> QED
    BY ONLY <1>2, <2>1, <2>2, <2>3, <2>4, <2>5, <2>6, <2>7, <2>8, <2>9,
       <2>10, <2>11, <2>12, <2>13, <2>14, <2>15, <2>16, <2>16a, <2>17, <2>18, <2>19,
       <2>20, <2>21, <2>22, <2>23, <2>24, <2>25, <2>26, <2>27, <2>28, <2>29,
       <2>30, <2>31, <2>32, <2>33, <2>34, <2>35 DEF Next, Monitor,
       ShellThread
<1> QED
  BY <1>1, <1>2

\* master_running follows svc_running: set when the start sequence is over,
\* reset one step after the service was stopped.
LEMMA AppStep ==
  ASSUME TypeOK, AppInv, [Next]_vars
  PROVE  AppInv'
<1> USE DEF AppInv, AppKnowsRunning, StartedService, TypeOK, StartFailed, requests, links, status, cursor, faultLog, service, batch, monitor, Goto, Shell, Guard
<1>1. CASE StartDemo
  BY <1>1 DEF StartDemo
<1>2. CASE MasterInit
  BY <1>2 DEF MasterInit
<1>3. CASE CountSlaves
  BY <1>3 DEF CountSlaves
<1>4. CASE ConfigSlaves
  BY <1>4 DEF ConfigSlaves
<1>5. CASE StartMaster
  BY <1>5 DEF StartMaster
<1>6. CASE CheckOperational
  BY <1>6 DEF CheckOperational
<1>7. CASE SyncSequence
  BY <1>7 DEF SyncSequence
<1>8. CASE SetReady
  BY <1>8 DEF SetReady
<1>9. CASE SetRunning
  BY <1>9 DEF SetRunning
<1>10. CASE PollFaults
  BY <1>10 DEF PollFaults
<1>11. CASE FetchHistory
  BY <1>11 DEF FetchHistory
<1>12. CASE HandleRecord
  BY <1>12 DEF HandleRecord
<1>12a. CASE MarkRecord
  BY <1>12a DEF MarkRecord
<1>13. CASE CheckStop
  BY <1>13 DEF CheckStop
<1>14. CASE CheckRecovery
  BY <1>14 DEF CheckRecovery
<1>15. CASE ClaimStop
  BY <1>15 DEF ClaimStop
<1>16. CASE StopMaster
  BY <1>16 DEF StopMaster
<1>17. CASE StopDone
  BY <1>17 DEF StopDone
<1>18. CASE ClaimRecovery
  BY <1>18 DEF ClaimRecovery
<1>19. CASE WaitForLink
  BY <1>19 DEF WaitForLink
<1>20. CASE CheckRecoverySlaveCount
  BY <1>20 DEF CheckRecoverySlaveCount
<1>21. CASE RecoveryDone
  BY <1>21 DEF RecoveryDone
<1>22. CASE Release
  BY <1>22 DEF Release
<1>23. CASE StopCheck
  BY <1>23 DEF StopCheck
<1>24. CASE StopSet
  BY <1>24 DEF StopSet
<1>25. CASE RecoverCheck
  BY <1>25 DEF RecoverCheck
<1>26. CASE RecoverSet
  BY <1>26 DEF RecoverSet
<1>27. CASE ClearAll
  BY <1>27 DEF ClearAll
<1>28. CASE ClearSequence
  BY <1>28 DEF ClearSequence
<1>29. CASE ClearReset
  BY <1>29 DEF ClearReset
<1>30. CASE MotorRunCheck
  BY <1>30 DEF MotorRunCheck
<1>31. CASE MotorRunSet
  BY <1>31 DEF MotorRunSet
<1>32. CASE MotorStop
  BY <1>32 DEF MotorStop
<1>33. CASE DriveFault
  BY <1>33 DEF DriveFault
<1>34. CASE RaiseFault
  BY <1>34 DEF RaiseFault
<1>35. CASE SlavesChange
  BY <1>35 DEF SlavesChange
<1>36. CASE UNCHANGED vars
  BY <1>36 DEF vars
<1> QED
  BY ONLY [Next]_vars, <1>1, <1>2, <1>3, <1>4, <1>5, <1>6, <1>7, <1>8, <1>9,
     <1>10, <1>11, <1>12, <1>12a, <1>13, <1>14, <1>15, <1>16, <1>17, <1>18, <1>19,
     <1>20, <1>21, <1>22, <1>23, <1>24, <1>25, <1>26, <1>27, <1>28, <1>29,
     <1>30, <1>31, <1>32, <1>33, <1>34, <1>35, <1>36 DEF Next, Monitor,
     ShellThread

\* From a recovery's request to the running master nothing is typed.
LEMMA PatientStep ==
  ASSUME Patient, TypeOK, PatientInv, [Next]_vars
  PROVE  (RequestIsQuiet /\ StartIsQuiet /\ ClaimIsAsked /\ CommandFresh)'
<1> USE DEF PatientInv, RequestIsQuiet, StartIsQuiet, ClaimIsAsked, CommandFresh,
        Quiet, Starting, StartPCs, PollPCs, StopPCs, StartFailed, MayType, requests, links, status, cursor, faultLog, service, batch, monitor, Goto, Shell, Guard
<1>1. CASE StartDemo
  BY <1>1 DEF StartDemo
<1>2. CASE MasterInit
  BY <1>2 DEF MasterInit
<1>3. CASE CountSlaves
  BY <1>3 DEF CountSlaves
<1>4. CASE ConfigSlaves
  BY <1>4 DEF ConfigSlaves
<1>5. CASE StartMaster
  BY <1>5 DEF StartMaster
<1>6. CASE CheckOperational
  BY <1>6 DEF CheckOperational
<1>7. CASE SyncSequence
  BY <1>7 DEF SyncSequence
<1>8. CASE SetReady
  BY <1>8 DEF SetReady
<1>9. CASE SetRunning
  BY <1>9 DEF SetRunning
<1>10. CASE PollFaults
  BY <1>10 DEF PollFaults
<1>11. CASE FetchHistory
  BY <1>11 DEF FetchHistory
<1>12. CASE HandleRecord
  BY <1>12 DEF HandleRecord
<1>12a. CASE MarkRecord
  BY <1>12a DEF MarkRecord
<1>13. CASE CheckStop
  BY <1>13 DEF CheckStop
<1>14. CASE CheckRecovery
  BY <1>14 DEF CheckRecovery
<1>15. CASE ClaimStop
  BY <1>15 DEF ClaimStop
<1>16. CASE StopMaster
  BY <1>16 DEF StopMaster
<1>17. CASE StopDone
  BY <1>17 DEF StopDone
<1>18. CASE ClaimRecovery
  BY <1>18 DEF ClaimRecovery
<1>19. CASE WaitForLink
  BY <1>19 DEF WaitForLink
<1>20. CASE CheckRecoverySlaveCount
  BY <1>20 DEF CheckRecoverySlaveCount
<1>21. CASE RecoveryDone
  BY <1>21 DEF RecoveryDone
<1>22. CASE Release
  BY <1>22 DEF Release
<1>23. CASE StopCheck
  BY <1>23 DEF StopCheck
<1>24. CASE StopSet
  BY <1>24 DEF StopSet
<1>25. CASE RecoverCheck
  BY <1>25 DEF RecoverCheck
<1>26. CASE RecoverSet
  BY <1>26 DEF RecoverSet
<1>27. CASE ClearAll
  BY <1>27 DEF ClearAll
<1>28. CASE ClearSequence
  BY <1>28 DEF ClearSequence
<1>29. CASE ClearReset
  BY <1>29 DEF ClearReset
<1>30. CASE MotorRunCheck
  BY <1>30 DEF MotorRunCheck
<1>31. CASE MotorRunSet
  BY <1>31 DEF MotorRunSet
<1>32. CASE MotorStop
  BY <1>32 DEF MotorStop
<1>33. CASE DriveFault
  BY <1>33 DEF DriveFault
<1>34. CASE RaiseFault
  BY <1>34 DEF RaiseFault
<1>35. CASE SlavesChange
  BY <1>35 DEF SlavesChange
<1>36. CASE UNCHANGED vars
  BY <1>36 DEF vars
<1> QED
  BY ONLY [Next]_vars, <1>1, <1>2, <1>3, <1>4, <1>5, <1>6, <1>7, <1>8, <1>9,
     <1>10, <1>11, <1>12, <1>12a, <1>13, <1>14, <1>15, <1>16, <1>17, <1>18, <1>19,
     <1>20, <1>21, <1>22, <1>23, <1>24, <1>25, <1>26, <1>27, <1>28, <1>29,
     <1>30, <1>31, <1>32, <1>33, <1>34, <1>35, <1>36 DEF Next, Monitor,
     ShellThread

\* A service that obeys ecat_master_stop drives no motor behind the
\* application's back.
LEMMA MotionStep ==
  ASSUME Patient, "stop" \notin MayFail, TypeOK, MotionInv, [Next]_vars
  PROVE  (NoUnsupervisedMotion /\ RunningIsReady /\ PendingMotion /\ StopTookEffect)'
<1> USE DEF MotionInv, PatientInv, RequestIsQuiet, StartIsQuiet, Quiet,
        Starting, StartPCs, PollPCs, StopPCs, StartFailed, MayType,
        NoUnsupervisedMotion, RunningIsReady, PendingMotion, StopTookEffect, requests, links, status, cursor, faultLog, service, batch, monitor, Goto, Shell, Guard
<1>1. CASE StartDemo
  BY <1>1 DEF StartDemo
<1>2. CASE MasterInit
  BY <1>2 DEF MasterInit
<1>3. CASE CountSlaves
  BY <1>3 DEF CountSlaves
<1>4. CASE ConfigSlaves
  BY <1>4 DEF ConfigSlaves
<1>5. CASE StartMaster
  BY <1>5 DEF StartMaster
<1>6. CASE CheckOperational
  BY <1>6 DEF CheckOperational
<1>7. CASE SyncSequence
  BY <1>7 DEF SyncSequence
<1>8. CASE SetReady
  BY <1>8 DEF SetReady
<1>9. CASE SetRunning
  BY <1>9 DEF SetRunning
<1>10. CASE PollFaults
  BY <1>10 DEF PollFaults
<1>11. CASE FetchHistory
  BY <1>11 DEF FetchHistory
<1>12. CASE HandleRecord
  BY <1>12 DEF HandleRecord
<1>12a. CASE MarkRecord
  BY <1>12a DEF MarkRecord
<1>13. CASE CheckStop
  BY <1>13 DEF CheckStop
<1>14. CASE CheckRecovery
  BY <1>14 DEF CheckRecovery
<1>15. CASE ClaimStop
  BY <1>15 DEF ClaimStop
<1>16. CASE StopMaster
  <2>1. /\ mpc = "stop_call" /\ mpc' = "stop_done"
        /\ svc_running' = (svc_running /\ ~(master_ready /\ master_running))
        /\ UNCHANGED <<servo_run, links, requests, status, spc>>
    BY <1>16 DEF StopMaster
  <2>2. svc_running' => svc_running /\ ~(master_ready /\ master_running)
    BY ONLY <2>1
  <2>3. UNCHANGED <<servo_run, recovery_requested, master_running, master_ready,
                    spc>>
    BY <2>1
  <2> QED
    BY ONLY <2>1, <2>2, <2>3, MotionInv DEF MotionInv,
       NoUnsupervisedMotion, RunningIsReady, PendingMotion, StopTookEffect
<1>17. CASE StopDone
  BY <1>17 DEF StopDone
<1>18. CASE ClaimRecovery
  BY <1>18 DEF ClaimRecovery
<1>19. CASE WaitForLink
  BY <1>19 DEF WaitForLink
<1>20. CASE CheckRecoverySlaveCount
  BY <1>20 DEF CheckRecoverySlaveCount
<1>21. CASE RecoveryDone
  BY <1>21 DEF RecoveryDone
<1>22. CASE Release
  BY <1>22 DEF Release
<1>23. CASE StopCheck
  BY <1>23 DEF StopCheck
<1>24. CASE StopSet
  BY <1>24 DEF StopSet
<1>25. CASE RecoverCheck
  BY <1>25 DEF RecoverCheck
<1>26. CASE RecoverSet
  BY <1>26 DEF RecoverSet
<1>27. CASE ClearAll
  BY <1>27 DEF ClearAll
<1>28. CASE ClearSequence
  BY <1>28 DEF ClearSequence
<1>29. CASE ClearReset
  BY <1>29 DEF ClearReset
<1>30. CASE MotorRunCheck
  BY <1>30 DEF MotorRunCheck
<1>31. CASE MotorRunSet
  BY <1>31 DEF MotorRunSet
<1>32. CASE MotorStop
  BY <1>32 DEF MotorStop
<1>33. CASE DriveFault
  BY <1>33 DEF DriveFault
<1>34. CASE RaiseFault
  BY <1>34 DEF RaiseFault
<1>35. CASE SlavesChange
  BY <1>35 DEF SlavesChange
<1>36. CASE UNCHANGED vars
  BY <1>36 DEF vars
<1> QED
  BY ONLY [Next]_vars, <1>1, <1>2, <1>3, <1>4, <1>5, <1>6, <1>7, <1>8, <1>9,
     <1>10, <1>11, <1>12, <1>12a, <1>13, <1>14, <1>15, <1>16, <1>17, <1>18, <1>19,
     <1>20, <1>21, <1>22, <1>23, <1>24, <1>25, <1>26, <1>27, <1>28, <1>29,
     <1>30, <1>31, <1>32, <1>33, <1>34, <1>35, <1>36 DEF Next, Monitor,
     ShellThread

\* SetRunning is the only step that sets master_running.
LEMMA RunsOnlyAtRun ==
  ASSUME ~master_running, [Next]_vars
  PROVE  master_running' => mpc = "run"
<1> USE DEF TypeOK, requests, links, status, cursor, faultLog, service, batch, monitor, Goto, Shell, Guard
<1>1. CASE StartDemo
  BY <1>1 DEF StartDemo
<1>2. CASE MasterInit
  BY <1>2 DEF MasterInit
<1>3. CASE CountSlaves
  BY <1>3 DEF CountSlaves
<1>4. CASE ConfigSlaves
  BY <1>4 DEF ConfigSlaves
<1>5. CASE StartMaster
  BY <1>5 DEF StartMaster
<1>6. CASE CheckOperational
  BY <1>6 DEF CheckOperational
<1>7. CASE SyncSequence
  BY <1>7 DEF SyncSequence
<1>8. CASE SetReady
  BY <1>8 DEF SetReady
<1>9. CASE SetRunning
  BY <1>9 DEF SetRunning
<1>10. CASE PollFaults
  BY <1>10 DEF PollFaults
<1>11. CASE FetchHistory
  BY <1>11 DEF FetchHistory
<1>12. CASE HandleRecord
  BY <1>12 DEF HandleRecord
<1>12a. CASE MarkRecord
  BY <1>12a DEF MarkRecord
<1>13. CASE CheckStop
  BY <1>13 DEF CheckStop
<1>14. CASE CheckRecovery
  BY <1>14 DEF CheckRecovery
<1>15. CASE ClaimStop
  BY <1>15 DEF ClaimStop
<1>16. CASE StopMaster
  BY <1>16 DEF StopMaster
<1>17. CASE StopDone
  BY <1>17 DEF StopDone
<1>18. CASE ClaimRecovery
  BY <1>18 DEF ClaimRecovery
<1>19. CASE WaitForLink
  BY <1>19 DEF WaitForLink
<1>20. CASE CheckRecoverySlaveCount
  BY <1>20 DEF CheckRecoverySlaveCount
<1>21. CASE RecoveryDone
  BY <1>21 DEF RecoveryDone
<1>22. CASE Release
  BY <1>22 DEF Release
<1>23. CASE StopCheck
  BY <1>23 DEF StopCheck
<1>24. CASE StopSet
  BY <1>24 DEF StopSet
<1>25. CASE RecoverCheck
  BY <1>25 DEF RecoverCheck
<1>26. CASE RecoverSet
  BY <1>26 DEF RecoverSet
<1>27. CASE ClearAll
  BY <1>27 DEF ClearAll
<1>28. CASE ClearSequence
  BY <1>28 DEF ClearSequence
<1>29. CASE ClearReset
  BY <1>29 DEF ClearReset
<1>30. CASE MotorRunCheck
  BY <1>30 DEF MotorRunCheck
<1>31. CASE MotorRunSet
  BY <1>31 DEF MotorRunSet
<1>32. CASE MotorStop
  BY <1>32 DEF MotorStop
<1>33. CASE DriveFault
  BY <1>33 DEF DriveFault
<1>34. CASE RaiseFault
  BY <1>34 DEF RaiseFault
<1>35. CASE SlavesChange
  BY <1>35 DEF SlavesChange
<1>36. CASE UNCHANGED vars
  BY <1>36 DEF vars
<1> QED
  BY ONLY [Next]_vars, <1>1, <1>2, <1>3, <1>4, <1>5, <1>6, <1>7, <1>8, <1>9,
     <1>10, <1>11, <1>12, <1>12a, <1>13, <1>14, <1>15, <1>16, <1>17, <1>18, <1>19,
     <1>20, <1>21, <1>22, <1>23, <1>24, <1>25, <1>26, <1>27, <1>28, <1>29,
     <1>30, <1>31, <1>32, <1>33, <1>34, <1>35, <1>36 DEF Next, Monitor,
     ShellThread

----------------------------------------------------------------------------
(* The theorems                                                             *)

\* The initial states are typed.
LEMMA InitType == Init => TypeOK
<1> SUFFICES ASSUME Init PROVE TypeOK
  OBVIOUS
<1>1. mpc \in MonitorPCs /\ spc \in ShellPCs /\ (mpc \notin {"handle", "mark"})
  BY DEF Init, MonitorPCs, ShellPCs
<1>2. /\ servo_run \in BOOLEAN
      /\ link_down_detected \in BOOLEAN /\ link_up_detected \in BOOLEAN
      /\ stop_requested \in BOOLEAN /\ recovery_requested \in BOOLEAN
      /\ master_ready \in BOOLEAN /\ master_running \in BOOLEAN
      /\ recovery_running \in BOOLEAN /\ svc_running \in BOOLEAN
      /\ latched \in BOOLEAN /\ full \in BOOLEAN
  BY DEF Init
<1>3. /\ fault_sequence \in Nat /\ last_fault_id \in Nat
      /\ expected_count \in Nat \cup {-1} /\ sequence \in Nat
      /\ slaves \in 0..MaxSlaves /\ slave_count \in 0..MaxSlaves
      /\ log \in Seq(FaultRecord) /\ records \in Seq(FaultRecord)
  BY RecoveryAssumption DEF Init
<1> QED
  BY <1>1, <1>2, <1>3 DEF TypeOK

\* Every reachable state is typed.
THEOREM TypeCorrect == Spec => []TypeOK
<1>1. Init => TypeOK
  BY InitType
<1>2. TypeOK /\ [Next]_vars => TypeOK'
  BY TypeStep
<1> QED
  BY <1>1, <1>2, PTL DEF Spec

\* The application calls the master running only while the service runs it,
\* whoever types what and whichever calls fail.
THEOREM AppKnowsRunningAlways == Spec => []AppKnowsRunning
<1>1. Init => AppInv
  BY DEF Init, AppInv, AppKnowsRunning, StartedService
<1>2. TypeOK /\ AppInv /\ [Next]_vars => AppInv'
  BY AppStep
<1>3. AppInv => AppKnowsRunning
  BY DEF AppInv
<1> QED
  BY <1>1, <1>2, <1>3, TypeCorrect, PTL DEF Spec

\* The invariant of a patient operator, of which the next two theorems are
\* consequences.
LEMMA PatientInvariant == ASSUME Patient PROVE Spec => []PatientInv
<1>1. Init => PatientInv
  <2> SUFFICES ASSUME Init PROVE PatientInv
    OBVIOUS
  <2>1. TypeOK
    BY InitType
  <2> QED
    BY <2>1 DEF Init, PatientInv, RequestIsQuiet, StartIsQuiet, ClaimIsAsked,
                CommandFresh, Quiet
<1>2. PatientInv /\ [Next]_vars => PatientInv'
  BY PatientStep, TypeStep DEF PatientInv
<1> QED
  BY <1>1, <1>2, PTL DEF Spec

\* No recovery works on a running master if the operator waits for the
\* monitor's report.
THEOREM PatientRecovery ==
  ASSUME Patient PROVE Spec => []RecoverOnlyWhenStopped
<1>1. PatientInv => RecoverOnlyWhenStopped
  BY DEF PatientInv, RequestIsQuiet, StartIsQuiet, ClaimIsAsked, Quiet,
         Starting, RecoverOnlyWhenStopped, RecoverPCs
<1> QED
  BY <1>1, PatientInvariant, PTL

\* No recovery brings motion back by itself.
THEOREM PatientResume == ASSUME Patient PROVE Spec => SafeResume
<1>1. PatientInv /\ [Next]_vars => [master_running' /\ ~master_running => ~servo_run]_vars
  <2> SUFFICES ASSUME PatientInv, Next, master_running', ~master_running
               PROVE  ~servo_run
    OBVIOUS
  <2>1. mpc = "run"
    BY RunsOnlyAtRun
  <2> QED
    BY <2>1 DEF PatientInv, StartIsQuiet, Quiet, Starting, StartPCs
<1> QED
  BY <1>1, PatientInvariant, PTL DEF Spec, SafeResume

\* If the service obeys a stop and the operator is patient, motors move only
\* under a master the application knows to run.
THEOREM SupervisedMotion ==
  ASSUME Patient, "stop" \notin MayFail
  PROVE  Spec => []NoUnsupervisedMotion
<1>1. Init => MotionInv
  <2> SUFFICES ASSUME Init PROVE MotionInv
    OBVIOUS
  <2>1. TypeOK
    BY InitType
  <2> QED
    BY <2>1 DEF Init, MotionInv, PatientInv, RequestIsQuiet, StartIsQuiet,
                ClaimIsAsked, CommandFresh, Quiet, NoUnsupervisedMotion,
                RunningIsReady, PendingMotion, StopTookEffect
<1>2. MotionInv /\ [Next]_vars => MotionInv'
  BY MotionStep, PatientStep, TypeStep DEF MotionInv, PatientInv
<1>3. MotionInv => NoUnsupervisedMotion
  BY DEF MotionInv
<1> QED
  BY <1>1, <1>2, <1>3, PTL DEF Spec
============================================================================
