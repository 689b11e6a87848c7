--------------------------- MODULE EcatRecovery ---------------------------
(***************************************************************************)
(* The EtherCAT fault-recovery service: the monitor thread that polls the  *)
(* master's fault log, stops the master and recovers it, the shell         *)
(* commands an operator types, and the process-data callback, all sharing  *)
(* unprotected flags.  Each thread takes one step per access of a flag     *)
(* that another thread writes, so the model shows every interleaving       *)
(* preemption can produce.                                                 *)
(***************************************************************************)
EXTENDS Integers, Sequences

CONSTANTS
    MaxFaults,      \* bound: faults the bus raises in a behaviour
    MaxSlaves,      \* bound: slaves wired to the bus
    Batch,          \* ECAT_FAULT_HISTORY_BATCH, records fetched per query
    HistoryDepth,   \* EC_FAULT_HISTORY_COUNT, records the service keeps
    MayFail,        \* the service calls that may return an error
    IdsRestart,     \* whether clearing the log restarts the fault ids at 1
    Patient         \* whether the operator waits for the monitor's report

Calls == {"init", "config", "start", "check", "stop",
          "wait", "history", "sequence", "current"}

ASSUME RecoveryAssumption ==
    /\ MaxFaults \in Nat
    /\ MaxSlaves \in Nat \ {0}
    /\ Batch \in Nat \ {0}
    /\ HistoryDepth \in Nat \ {0}
    /\ MayFail \subseteq Calls
    /\ IdsRestart \in BOOLEAN
    /\ Patient \in BOOLEAN

\* Fault records, by what handle_fault_record tells apart: the type (a link
\* coming up, a link or slave lost, any other) and whether the level reaches
\* EC_FAULT_LEVEL_ERROR.
Types       == {"link_up", "lost", "other"}
Levels      == {"warning", "error"}
FaultRecord == [id : Nat, type : Types, level : Levels]

FaultShouldStopMaster(fault) == fault.level = "error" \/ fault.type = "lost"

VARIABLES
    \* the statics of ethercat_fault_recovery.c
    servo_run, link_down_detected, link_up_detected,
    stop_requested, recovery_requested,
    master_ready, master_running, recovery_running,
    fault_sequence, last_fault_id, expected_count,
    \* the master service behind ecat_master.c
    svc_running, slaves, log, latched, sequence,
    \* the monitor thread: where it is, slave_count, the records of a batch
    \* not handled yet, and whether that batch filled the array
    mpc, slave_count, records, full,
    \* the shell thread: the command step it is at
    spc

requests == <<stop_requested, recovery_requested>>
links    == <<link_down_detected, link_up_detected>>
status   == <<master_ready, master_running, recovery_running, expected_count>>
cursor   == <<fault_sequence, last_fault_id>>
faultLog == <<log, latched, sequence>>
service  == <<svc_running, slaves, faultLog>>
batch    == <<records, full>>
monitor  == <<mpc, slave_count, batch>>
vars     == <<servo_run, links, requests, status, cursor, service, monitor,
              spc>>

StartPCs   == {"count", "config", "start", "op_check", "sync", "ready", "run"}
PollPCs    == {"poll", "fetch", "handle", "mark", "check", "check_rec"}
StopPCs    == {"stop_claim", "stop_call", "stop_done", "stop_failed"}
RecoverPCs == {"rec_claim", "rec_link", "rec_count", "rec_done"}
MonitorPCs == {"off", "init", "fin"}
              \cup StartPCs \cup PollPCs \cup StopPCs \cup RecoverPCs

ShellPCs == {"idle", "stop_set",
             "rec_run", "rec_busy", "rec_pend", "rec_fault", "rec_lnk",
             "rec_set", "clear_seq", "clear_reset",
             "motor_run", "motor_set"}

Init ==
    /\ servo_run = FALSE
    /\ link_down_detected = FALSE /\ link_up_detected = FALSE
    /\ stop_requested = FALSE /\ recovery_requested = FALSE
    /\ master_ready = FALSE /\ master_running = FALSE
    /\ recovery_running = FALSE
    /\ fault_sequence = 0 /\ last_fault_id = 0 /\ expected_count = -1
    /\ svc_running = FALSE /\ slaves \in 0..MaxSlaves
    /\ log = <<>> /\ latched = FALSE /\ sequence = 0
    /\ mpc = "off" /\ slave_count = 0
    /\ records = <<>> /\ full = FALSE
    /\ spc = "idle"

----------------------------------------------------------------------------
(* The monitor thread: boot, and the start sequence boot and recovery share *)

\* ecat_fault_demo_cmd creates the thread; after a failed boot it may be
\* typed again.  (A second thread beside a live one is not modelled.)
StartDemo ==
    /\ mpc = "off" /\ spc = "idle"
    /\ mpc' = "init"
    /\ UNCHANGED <<servo_run, links, requests, status, cursor, service,
                   slave_count, batch, spc>>

\* A step that only moves the monitor from one place to another.
Goto(from, to) ==
    /\ mpc = from /\ mpc' = to
    /\ UNCHANGED <<servo_run, links, requests, status, cursor, service,
                   slave_count, batch, spc>>

\* Mutant: an error path that returns without giving back recovery_running.
BugStartFailed == IF recovery_running THEN "poll" ELSE "off"

\* Where the monitor goes when start_master_operational returns an error: the
\* boot thread exits, a recovery reports the failure and goes on polling.
StartFailed == IF recovery_running THEN "fin" ELSE "off"

MasterInit ==
    \/ Goto("init", "count")
    \/ "init" \in MayFail /\ Goto("init", "off")

CountSlaves ==
    /\ mpc = "count"
    /\ slave_count' = slaves
    /\ mpc' = IF slaves <= 0 THEN StartFailed ELSE "config"
    /\ UNCHANGED <<servo_run, links, requests, status, cursor, service,
                   batch, spc>>

ConfigSlaves ==
    \/ Goto("config", "start")
    \/ "config" \in MayFail /\ Goto("config", StartFailed)

\* Mutant: the result of ecat_master_start is ignored.
BugStartMaster ==
    \/ /\ mpc = "start" /\ mpc' = "op_check"
       /\ svc_running' = TRUE
       /\ UNCHANGED <<servo_run, links, requests, status, cursor, slaves,
                      faultLog, slave_count, batch, spc>>
    \/ "start" \in MayFail /\ Goto("start", "op_check")

StartMaster ==
    \/ /\ mpc = "start" /\ mpc' = "op_check"
       /\ svc_running' = TRUE
       /\ UNCHANGED <<servo_run, links, requests, status, cursor, slaves,
                      faultLog, slave_count, batch, spc>>
    \/ "start" \in MayFail /\ Goto("start", StartFailed)

\* Every slave counted must reach OP: a slave lost since the count cannot.
CheckOperational ==
    \/ slaves >= slave_count /\ Goto("op_check", "sync")
    \/ /\ slaves < slave_count \/ "check" \in MayFail
       /\ Goto("op_check", StartFailed)

\* The result of ecat_fault_get_sequence is ignored, here and in the clear.
SyncSequence ==
    \/ /\ mpc = "sync" /\ mpc' = "ready"
       /\ fault_sequence' = sequence
       /\ UNCHANGED <<servo_run, links, requests, status, last_fault_id,
                      service, slave_count, batch, spc>>
    \/ "sequence" \in MayFail /\ Goto("sync", "ready")

SetReady ==
    /\ mpc = "ready" /\ mpc' = "run"
    /\ master_ready' = TRUE
    /\ UNCHANGED <<servo_run, links, requests, master_running,
                   recovery_running, expected_count, cursor, service,
                   slave_count, batch, spc>>

SetRunning ==
    /\ mpc = "run"
    /\ mpc' = IF recovery_running THEN "rec_done" ELSE "poll"
    /\ master_running' = TRUE
    /\ expected_count' = IF expected_count < 0 THEN slave_count
                                               ELSE expected_count
    /\ UNCHANGED <<servo_run, links, requests, master_ready, recovery_running,
                   cursor, service, slave_count, batch, spc>>

----------------------------------------------------------------------------
(* The monitor thread: polling the fault log                                *)

\* ecat_fault_wait times out, or reports the sequence it waited for.
PollFaults ==
    \/ /\ sequence = fault_sequence \/ "wait" \in MayFail
       /\ Goto("poll", "check")
    \/ /\ mpc = "poll" /\ mpc' = "fetch"
       /\ sequence # fault_sequence
       /\ fault_sequence' = sequence
       /\ UNCHANGED <<servo_run, links, requests, status, last_fault_id,
                      service, slave_count, batch, spc>>

\* The first Batch records of the log with an id after id; the ids in the log
\* increase.
NewerRecords(id) ==
    {SubSeq(log, first, IF first + Batch - 1 < Len(log)
                          THEN first + Batch - 1 ELSE Len(log)) :
     first \in {k \in 1..Len(log) + 1 :
                  /\ \A i \in 1..k - 1 : log[i].id <= id
                  /\ \A i \in k..Len(log) : log[i].id > id}}

\* Mutant: an empty answer is not told apart from a batch.
BugFetchHistory ==
    /\ mpc = "fetch" /\ mpc' = "handle"
    /\ records' \in NewerRecords(last_fault_id)
    /\ full' = (Len(records') = Batch)
    /\ UNCHANGED <<servo_run, links, requests, status, cursor, service,
                   slave_count, spc>>

FetchHistory ==
    \/ /\ mpc = "fetch"
       /\ records' \in NewerRecords(last_fault_id)
       /\ full' = (Len(records') = Batch)
       /\ mpc' = IF records' = <<>> THEN "check" ELSE "handle"
       /\ UNCHANGED <<servo_run, links, requests, status, cursor, service,
                      slave_count, spc>>
    \/ "history" \in MayFail /\ Goto("fetch", "check")

\* handle_fault_record: what one record of the batch changes.
HandleRecord ==
    /\ mpc = "handle" /\ mpc' = "mark"
    /\ LET fault == Head(records) IN
       /\ link_up_detected' = (link_up_detected \/ fault.type = "link_up")
       /\ link_down_detected' = (link_down_detected \/ fault.type = "lost")
       /\ stop_requested' = (stop_requested \/ FaultShouldStopMaster(fault))
       /\ servo_run' = (servo_run /\ ~FaultShouldStopMaster(fault))
    /\ UNCHANGED <<recovery_requested, status, cursor, service, slave_count,
                   batch, spc>>

\* Mutant: one query per announcement, a full batch is not followed up.
BugMarkRecord ==
    /\ mpc = "mark"
    /\ last_fault_id' = Head(records).id
    /\ records' = Tail(records)
    /\ mpc' = IF records' # <<>> THEN "handle" ELSE "check"
    /\ UNCHANGED <<servo_run, links, requests, status, fault_sequence,
                   service, slave_count, full, spc>>

\* The record is handled; a batch that filled the array is followed by
\* another query.
MarkRecord ==
    /\ mpc = "mark"
    /\ last_fault_id' = Head(records).id
    /\ records' = Tail(records)
    /\ mpc' = CASE records' # <<>> -> "handle"
                 [] records' = <<>> /\ full -> "fetch"
                 [] OTHER -> "check"
    /\ UNCHANGED <<servo_run, links, requests, status, fault_sequence,
                   service, slave_count, full, spc>>

----------------------------------------------------------------------------
(* The monitor thread: serving a stop or a recovery request                 *)

\* Mutant: a recovery comes before a stop.
BugCheckStop ==
    \/ stop_requested /\ ~recovery_requested /\ Goto("check", "stop_claim")
    \/ (recovery_requested \/ ~stop_requested) /\ Goto("check", "check_rec")

\* The body of the loop after polling: a stop comes before a recovery.
CheckStop ==
    \/ stop_requested /\ Goto("check", "stop_claim")
    \/ ~stop_requested /\ Goto("check", "check_rec")

CheckRecovery ==
    \/ recovery_requested /\ Goto("check_rec", "rec_claim")
    \/ ~recovery_requested /\ Goto("check_rec", "poll")

\* Mutant: the flag is reset before the call that it guards.
BugClaimStop ==
    /\ mpc = "stop_claim" /\ mpc' = "stop_call"
    /\ recovery_running' = TRUE
    /\ stop_requested' = FALSE
    /\ servo_run' = FALSE /\ master_running' = FALSE
    /\ UNCHANGED <<links, recovery_requested, master_ready, expected_count,
                   cursor, service, slave_count, batch, spc>>

\* Mutant: a stop drops the recovery that waits behind it.
BugDropRecovery ==
    /\ mpc = "stop_claim" /\ mpc' = "stop_call"
    /\ recovery_running' = TRUE
    /\ stop_requested' = FALSE /\ recovery_requested' = FALSE
    /\ servo_run' = FALSE
    /\ UNCHANGED <<links, master_ready, master_running, expected_count,
                   cursor, service, slave_count, batch, spc>>

ClaimStop ==
    /\ mpc = "stop_claim" /\ mpc' = "stop_call"
    /\ recovery_running' = TRUE
    /\ stop_requested' = FALSE
    /\ servo_run' = FALSE
    /\ UNCHANGED <<links, recovery_requested, master_ready, master_running,
                   expected_count, cursor, service, slave_count, batch, spc>>

\* A master that is not ready and running is not stopped again.  A refused
\* stop is only printed.
StopMaster ==
    \/ /\ mpc = "stop_call" /\ mpc' = "stop_done"
       /\ svc_running' = (svc_running /\ ~(master_ready /\ master_running))
       /\ UNCHANGED <<servo_run, links, requests, status, cursor, slaves,
                      faultLog, slave_count, batch, spc>>
    \/ "stop" \in MayFail /\ Goto("stop_call", "stop_failed")

StopDone ==
    /\ mpc \in {"stop_done", "stop_failed"} /\ mpc' = "fin"
    /\ master_running' = FALSE
    /\ UNCHANGED <<servo_run, links, requests, master_ready, recovery_running,
                   expected_count, cursor, service, slave_count, batch, spc>>

ClaimRecovery ==
    /\ mpc = "rec_claim" /\ mpc' = "rec_link"
    /\ recovery_running' = TRUE
    /\ recovery_requested' = FALSE
    /\ UNCHANGED <<servo_run, links, stop_requested, master_ready,
                   master_running, expected_count, cursor, service,
                   slave_count, batch, spc>>

\* Both waiting loops of recover_master: the first gives up when no slave
\* answers for all its retries, the second changes nothing.
WaitForLink ==
    \/ slaves > 0 /\ Goto("rec_link", "rec_count")
    \/ slaves = 0 /\ Goto("rec_link", "fin")

CheckRecoverySlaveCount ==
    LET ok == /\ slaves > 0
              /\ expected_count >= 0 => slaves = expected_count
    IN  \/ ok  /\ Goto("rec_count", "count")
        \/ ~ok /\ Goto("rec_count", "fin")

RecoveryDone ==
    /\ mpc = "rec_done" /\ mpc' = "fin"
    /\ link_down_detected' = FALSE /\ link_up_detected' = FALSE
    /\ UNCHANGED <<servo_run, requests, status, cursor, service, slave_count,
                   batch, spc>>

Release ==
    /\ mpc = "fin" /\ mpc' = "poll"
    /\ recovery_running' = FALSE
    /\ UNCHANGED <<servo_run, links, requests, master_ready, master_running,
                   expected_count, cursor, service, slave_count, batch, spc>>

Monitor ==
    \/ MasterInit \/ CountSlaves \/ ConfigSlaves \/ StartMaster
    \/ CheckOperational \/ SyncSequence \/ SetReady \/ SetRunning
    \/ PollFaults \/ FetchHistory \/ HandleRecord \/ MarkRecord
    \/ CheckStop \/ CheckRecovery
    \/ ClaimStop \/ StopMaster \/ StopDone
    \/ ClaimRecovery \/ WaitForLink \/ CheckRecoverySlaveCount
    \/ RecoveryDone \/ Release

----------------------------------------------------------------------------
(* The shell thread: one command at a time, in any order                    *)

\* A patient operator types the next command once the monitor has reported
\* the outcome of the last recovery; an impatient one at any time.
MayType == Patient => /\ mpc \in PollPCs \cup StopPCs
                      /\ ~recovery_requested

Shell(from, to) ==
    /\ spc = from /\ spc' = to
    /\ from = "idle" => MayType
    /\ UNCHANGED <<servo_run, links, requests, status, cursor, service,
                   monitor>>

\* ecat_fault_get_current returning anything but RT_EOK lets a command pass.
MayPassFault == {~latched} \cup {TRUE : c \in MayFail \cap {"current"}}

\* A guard of a command: when it fails the command prints and returns.
Guard(from, ok, to) == IF ok THEN Shell(from, to)
                             ELSE from # "idle" /\ Shell(from, "idle")

\* ecat_master_stop
StopCheck == Guard("idle", master_ready /\ master_running, "stop_set")

StopSet ==
    /\ spc = "stop_set" /\ spc' = "idle"
    /\ servo_run' = FALSE
    /\ stop_requested' = TRUE
    /\ UNCHANGED <<links, recovery_requested, status, cursor, service,
                   monitor>>

\* Mutant: the master_running guard is missing.
BugRecoverCheck ==
    \/ Guard("idle", master_ready /\ ~stop_requested, "rec_busy")
    \/ Guard("rec_busy", ~recovery_running, "rec_pend")
    \/ Guard("rec_pend", ~recovery_requested, "rec_fault")
    \/ \E ok \in MayPassFault : Guard("rec_fault", ok, "rec_lnk")
    \/ Guard("rec_lnk", ~(link_down_detected /\ ~link_up_detected), "rec_set")

\* ecat_master_recover: its guards in the order the code evaluates them.
RecoverCheck ==
    \/ Guard("idle", master_ready /\ ~stop_requested, "rec_run")
    \/ Guard("rec_run", ~master_running, "rec_busy")
    \/ Guard("rec_busy", ~recovery_running, "rec_pend")
    \/ Guard("rec_pend", ~recovery_requested, "rec_fault")
    \/ \E ok \in MayPassFault : Guard("rec_fault", ok, "rec_lnk")
    \/ Guard("rec_lnk", ~(link_down_detected /\ ~link_up_detected), "rec_set")

\* Mutant: the motion flag survives an accepted recovery.
BugRecoverSet ==
    /\ spc = "rec_set" /\ spc' = "idle"
    /\ recovery_requested' = TRUE
    /\ UNCHANGED <<servo_run, links, stop_requested, status, cursor, service,
                   monitor>>

RecoverSet ==
    /\ spc = "rec_set" /\ spc' = "idle"
    /\ servo_run' = FALSE
    /\ recovery_requested' = TRUE
    /\ UNCHANGED <<links, stop_requested, status, cursor, service, monitor>>

\* ecat_fault_clear
ClearAll ==
    /\ spc = "idle" /\ MayType
    /\ master_ready
    /\ spc' = "clear_seq"
    /\ log' = <<>> /\ latched' = FALSE
    /\ UNCHANGED <<servo_run, links, requests, status, cursor, svc_running,
                   slaves, sequence, monitor>>

ClearSequence ==
    \/ /\ spc = "clear_seq" /\ spc' = "clear_reset"
       /\ fault_sequence' = sequence
       /\ UNCHANGED <<servo_run, links, requests, status, last_fault_id,
                      service, monitor>>
    \/ "sequence" \in MayFail /\ Shell("clear_seq", "clear_reset")

ClearReset ==
    /\ spc = "clear_reset" /\ spc' = "idle"
    /\ last_fault_id' = 0
    /\ link_down_detected' = FALSE /\ link_up_detected' = FALSE
    /\ UNCHANGED <<servo_run, requests, status, fault_sequence, service,
                   monitor>>

\* Mutant: motor_run asks for a ready master, not for a running one.
BugMotorRunCheck ==
    \E ok \in MayPassFault : Guard("idle", master_ready /\ ok, "motor_set")

\* motor_run, motor_stop.  latched is cleared by this thread only, so reading
\* it together with master_running allows the same outcomes.
MotorRunCheck ==
    \E ok \in MayPassFault : Guard("idle", master_running /\ ok, "motor_set")

MotorRunSet ==
    /\ spc = "motor_set" /\ spc' = "idle"
    /\ servo_run' = TRUE
    /\ UNCHANGED <<links, requests, status, cursor, service, monitor>>

MotorStop ==
    /\ spc = "idle" /\ MayType
    /\ servo_run' = FALSE
    /\ UNCHANGED <<links, requests, status, cursor, service, monitor, spc>>

ShellThread ==
    \/ StopCheck \/ StopSet \/ RecoverCheck \/ RecoverSet
    \/ ClearAll \/ ClearSequence \/ ClearReset
    \/ MotorRunCheck \/ MotorRunSet \/ MotorStop

----------------------------------------------------------------------------
(* The process-data callback and the bus                                    *)

\* A drive that reports its fault bit ends the motion of every drive.
DriveFault ==
    /\ svc_running /\ servo_run
    /\ servo_run' = FALSE
    /\ UNCHANGED <<links, requests, status, cursor, service, monitor, spc>>

FreshId == IF ~IdsRestart THEN sequence + 1
           ELSE IF log = <<>> THEN 1 ELSE log[Len(log)].id + 1

\* The service records a fault; its policy may latch it.  The level of a lost
\* link or slave makes no difference, so one will do.
RaiseFault ==
    /\ mpc # "off" /\ sequence < MaxFaults
    /\ sequence' = sequence + 1
    /\ \E type \in Types :
       \E level \in IF type = "lost" THEN {"warning"} ELSE Levels :
          log' = Append(IF Len(log) = HistoryDepth THEN Tail(log) ELSE log,
                        [id |-> FreshId, type |-> type, level |-> level])
    /\ latched' \in {latched, TRUE}
    /\ UNCHANGED <<servo_run, links, requests, status, cursor, svc_running,
                   slaves, monitor, spc>>

\* Slaves answer or vanish; the faults that report it come when they come.
SlavesChange ==
    /\ slaves' \in 0..MaxSlaves \ {slaves}
    /\ UNCHANGED <<servo_run, links, requests, status, cursor, svc_running,
                   faultLog, monitor, spc>>

Next == \/ StartDemo \/ Monitor \/ ShellThread
        \/ DriveFault \/ RaiseFault \/ SlavesChange

\* The monitor is a periodic thread and is scheduled; nobody has to type a
\* command, and no fault has to happen.
Spec == Init /\ [][Next]_vars /\ WF_vars(Monitor)

----------------------------------------------------------------------------
(* Properties                                                               *)

\* Every variable holds a value of its C type, narrowed to what the code
\* stores in it.
TypeOK ==
    /\ servo_run \in BOOLEAN
    /\ link_down_detected \in BOOLEAN /\ link_up_detected \in BOOLEAN
    /\ stop_requested \in BOOLEAN /\ recovery_requested \in BOOLEAN
    /\ master_ready \in BOOLEAN /\ master_running \in BOOLEAN
    /\ recovery_running \in BOOLEAN
    /\ fault_sequence \in Nat /\ last_fault_id \in Nat
    /\ expected_count \in Nat \cup {-1}
    /\ svc_running \in BOOLEAN /\ slaves \in 0..MaxSlaves
    /\ log \in Seq(FaultRecord) /\ latched \in BOOLEAN /\ sequence \in Nat
    /\ mpc \in MonitorPCs /\ slave_count \in 0..MaxSlaves
    /\ records \in Seq(FaultRecord) /\ full \in BOOLEAN
    /\ mpc \in {"handle", "mark"} => records # <<>>
    /\ spc \in ShellPCs

\* The application calls the master running only while the service runs it:
\* master_running is set after every start step succeeded, and a stop (of a
\* fault or of the command) is the only thing that takes the service down.
AppKnowsRunning ==
    master_running /\ mpc # "stop_done" => svc_running

\* A recovery never works on a running master: the guard of
\* ecat_master_recover still holds when the monitor serves the request.
RecoverOnlyWhenStopped ==
    mpc \in RecoverPCs \ {"rec_done"} => ~master_running

\* A master that comes (back) to operation comes back with the motion flag
\* off: no recovery makes the drives move before motor_run is typed again.
SafeResume == [][master_running' /\ ~master_running => ~servo_run]_vars

\* Whenever the callback of a started service drives the motors, the
\* application knows the master to run, so that a fault or the stop command
\* still stops it.
NoUnsupervisedMotion == svc_running /\ servo_run => master_running

\* A stop asked for (by a fault record or by the stop command) while the
\* application holds the master running ends the service itself, whatever
\* start, recovery or other stop the monitor is at; only a refusal of
\* ecat_master_stop excuses it.
StopServed ==
    stop_requested /\ master_running ~> ~svc_running \/ mpc = "stop_failed"

\* A recover command that was accepted is attempted in the end: the faults
\* raised meanwhile (finitely many, MaxFaults) put their stops before it, and
\* none of those drops it.
RecoveryServed == recovery_requested ~> mpc = "rec_link"

\* Every path through a stop or a recovery, each error path included, gives
\* back the recovery_running claim that makes the recover command refuse.
ClaimReleased == recovery_running ~> ~recovery_running

Unhandled == \E i \in DOMAIN log : /\ log[i].id > last_fault_id
                                  /\ FaultShouldStopMaster(log[i])

\* A stopping fault that the monitor finds announced and not handled when it
\* polls a running master stops the service (if that obeys), unless the
\* operator clears the log first.
UnhandledFaultStops ==
    (/\ mpc = "poll" /\ sequence # fault_sequence /\ Unhandled
     /\ master_running /\ spc \notin {"clear_seq", "clear_reset"})
      ~> (~svc_running \/ mpc = "stop_failed" \/ log = <<>>)

----------------------------------------------------------------------------
(* The promise of the service: with a patient operator and a service that   *)
(* obeys a stop, EcatRecovery implements MasterSupervisor.                  *)

master ==
    CASE master_running -> "running"
      [] ~master_running
           /\ mpc \in {"init", "rec_link", "rec_count"} \cup StartPCs
           -> "starting"
      [] OTHER -> "stopped"

Supervisor == INSTANCE MasterSupervisor WITH
    booted   <- expected_count >= 0,
    asked    <- recovery_requested,
    stopping <- stop_requested \/ mpc \in {"stop_call", "stop_done", "stop_failed"},
    moving   <- svc_running /\ servo_run

\* Seen from outside, the monitor, the shell commands and the callback
\* together behave as one supervisor: the master comes up at boot and then
\* only on an accepted recover command, never over a pending stop, motion
\* starts under a running master only, and every stop and start ends.
SupervisorSpec == Supervisor!Spec
============================================================================
