# A TLA+ model of the RuiChing Pi SDK's control services

The repository is the SDK of the RuiChing Pi board (RK3506, RT-Thread): a set of
example applications, each one program of its own, over common components
(`rt-thread/`), drivers (`platform/`) and a kernel and service libraries that are
linked in binary form. Most of it is vendored packages and short examples. What
the SDK's authors wrote and what is hard to get right is motion control over a
field bus: the EtherCAT fault-recovery service and the CANopen master with its
RT-Thread port. The project models these, and the TFTP pair, the one network
service of the SDK with a protocol of its own over a lossy medium.

Paths in this file are relative to the repository; `FR` is
`06_bus_ethercat_master_fault_recovery/applications/ecat_service/ethercat_fault_recovery.c`,
`CF` is `rt-thread/components/industrial_bus/CanFestival/src`, `CM` is
`06_bus_canopen_master_motor/applications`, `TF` is
`rt-thread/components/net_apps/tftp`.

## 1. Inventory

| Component | State | Operations | Meets | Hard behaviour |
|---|---|---|---|---|
| EtherCAT fault recovery (`FR`) | eight flags, the last fault id and sequence seen, the expected slave count | boot, poll the fault log, stop, recover; shell: `ecat_master_stop`, `ecat_master_recover`, `ecat_fault_clear`, `motor_run`, `motor_stop` | the EtherCAT service (calls and their errors), the process-data callback and the shell thread, all by unlocked flags | commands at any moment of the monitor's work, error returns in the middle of a start, faults during a recovery, a log that is read in batches |
| CiA 402 callback (`FR:108-164`) | control words and targets in the process image, `servo_run`, `servo_dir` | one turn per axis and cycle; `motor_run`, `motor_stop`, `motor_dir` | the drives, through the process image | one axis faults, the others have already been handled; drives obey late, warn, or were turned while off |
| EtherCAT master API (`rt-thread/components/industrial_bus/ethercat`) | none of its own | wrappers of `service_control` | a closed library | every call may fail |
| CANopen alarm table (`CF/timer.c`, `CF/timer_rtthread.c`) | table of 8 rows, sleep, last reading of the counter | `SetAlarm`, `DelAlarm`, `TimeDispatch`, the expiry callback | the hardware timer device; receive, timer, repair and shell threads that set alarms | rows freed in any order, callbacks that change the table while it is walked, a sleep replaced while its interrupt is on the way, threads that do not take the mutex |
| CANopen configuration and repair (`CM/master402_canopen.c`, `CM/canopen_callback.c`) | `slave_conf` with one semaphore, try counters, the node states | a start thread, a thread per node that boots, repair threads, SDO callbacks | the SDO lines, the alarm table, the node states | one semaphore for several waiters, a release before the result is stored, retries without a time-out |
| CANopen SDO, life guard, NMT, PDO, SYNC, EMCY (`CF`) | transfer lines, node states, guard timers | the CanFestival protocol engine | the alarm table, the receive thread | a late answer after a time-out, an alarm handle that is stale |
| Hardware timer device (`rt-thread/drivers/hwtimer`) | overflow count, cycles, mode | start, read, interrupt | the alarm table | a long sleep is counted in rounds |
| AMP motor service (`11_amp_qt_ethercat_master`, and its LVGL twin `05_gui_lvgl_ethercat_...`) | `ctrl_data`, the ramp | cyclic loop, rpmsg read and write threads, `motor_run/stop/dir` | the Linux side, the drive | direction turned in the middle of a ramp, structures read and written by three threads |
| TFTP (`TF`) | per session a block number, an attempt counter, an open file; the client's block, peer and size | requests, blocks, acknowledgements, time-outs on both sides | the network, the file system | lost, late and repeated packets, a repeated request that opens a second session, a file whose last block is full |
| Telnet, FTP (`rt-thread/components/net_apps`) | sessions, ring buffers | per connection | the network, the shell | close while a reader waits |
| UVC capture (`02_peripheral_uvc_capture`) | two frame buffers | packet callback, save | the shell thread | a frame saved while the next is filled |
| RAM file system (`04_filesystem_register`) | a tree under a spin lock | create, read, write, unlink, rename | DFS | reference counts |
| Upgrade, shell, drivers, examples, vendored packages | - | - | closed services, registers | see `PROJECT.json`, "components" |

What makes each of the modelled parts correct:

* recovery: the application's view of the master agrees with the service's; a
  recovery works on a stopped master only; no motion comes out of a recovery, nor
  goes on under a master the application holds stopped; every request is served
  and the claim that serialises them is given back; a stopping fault stops;
* callback: no exchange asks a drive for a jump; one drive's fault disables all;
  a run enables all;
* alarm table: no alarm is out of the dispatcher's reach, unwatched, overwritten or
  called early, and none is overslept but for time the table loses; every alarm is called;
* configuration: a node said to be configured was, no thread loses the semaphore
  it sleeps on, every configuration ends, and a node that stays on is configured;
* TFTP: what arrives is the beginning of the file, and the whole file when a
  transfer is reported whole; every command ends and every session is given back.

`PROJECT.json` lists the hazards at their lines, with the properties that cover
them or the reason why none does yet.

## 2. Plan

| Module | Models | State |
|---|---|---|
| `EcatRecovery`, `EcatRecoveryProofs` | the fault-recovery service and the EtherCAT service's answers | checked, safety proved |
| `MasterSupervisor`, `EcatRefinementProofs` | what that service promises, without threads and flags; `EcatRecovery` implements it | checked with its liveness, steps proved |
| `Cia402Pdo`, `Cia402PdoProofs` | the callback and the drives | checked, safety proved |
| `CanTimer`, `CanTimerProofs` | the alarm table, its dispatcher, the hardware timer | checked, safety proved |
| `AlarmService` | what an alarm's user may count on, without rows, threads and time; `CanTimer` implements it | checked, steps proved (in `CanTimerProofs`) |
| `CanConfig`, `CanConfigProofs` | configuration, boot-up, repair and SDO callback threads over `slave_conf` and its semaphore; the node state as it is reported | checked, safety proved |
| `DriveSetup`, `CanSetupProofs` | one drive's configuration as the rest of the program sees it; `CanConfig` implements it | checked, steps proved |
| `Tftp`, `TftpProofs` | one transfer between client and server over a lossy network | checked, safety proved |
| `FileDelivery` | what a transfer promises, without packets and sessions; `Tftp` implements it | checked, steps proved (in `TftpProofs`) |
| `CanSdo` | several SDO lines, segmented transfers, their alarms, which would be those of `AlarmService` | open |
| `AmpMotor` | ramp, direction and run flag of the AMP service | open |
| `Telnet` | one session with its two rings and two shell threads | open |
| `UvcFrame` | the two frame buffers of the capture example | open |

Four modules are shown to implement an abstract one: `EcatRecovery`
`MasterSupervisor`, `CanTimer` `AlarmService`, `CanConfig` `DriveSetup`, `Tftp`
`FileDelivery`. The components meet in one interface each: the callback's reset of
`servo_run` is an action of `EcatRecovery` and is written out in `Cia402Pdo`; the
time-out of a transfer in `CanConfig` is an alarm of `AlarmService`, of which it uses
that it is called at most once, not after it was deleted, and in the end
(`AlarmServed`, a property of `CanTimer`). Of the open modules `CanSdo` comes first; `AmpMotor` and
`UvcFrame` are small, and the side they talk to (the Linux peer, the USB stack) is
not in the repository.

## 3. EcatRecovery

Three actors: the monitor thread (`mpc` says where it is), the shell thread
(`spc`), and the environment (faults, slaves, the callback's reset of `servo_run`).

| Actions | Code |
|---|---|
| `StartDemo`, `MasterInit` | `ecat_fault_demo_cmd`, the head of `ethercat_fault_demo_start` |
| `CountSlaves` ... `SetRunning` | `start_master_operational`, shared by boot and recovery; `StartFailed` is where its error returns lead |
| `PollFaults`, `FetchHistory`, `HandleRecord`, `MarkRecord` | `poll_fault_records` and `handle_fault_record` |
| `CheckStop`, `CheckRecovery` | the two `if`s of the loop, stop first |
| `ClaimStop`, `StopMaster`, `StopDone` | `handle_stop_request` |
| `ClaimRecovery`, `WaitForLink`, `CheckRecoverySlaveCount`, start sequence, `RecoveryDone` | `recover_master` |
| `Release` | the loop's reset of `ecat_recovery_running` |
| `StopCheck` ... `MotorStop` | the shell commands, one guard a step |

There is one step per access of a flag another thread writes. Accesses are
merged only where the outcomes stay the same: the latch is cleared by the shell
alone, so `motor_run` may read it with `master_running`; a step of another thread
between the three writes of `ClaimStop` has the outcome of one before or after all
three, as every command that reads one of these flags is refused by the others; the
flags of one record are written in one step (`HandleRecord`), as each is read by one
guard of a command or by the callback; the cursor follows in a step of its own.

The service behind `service_control` is closed. It is modelled by what the code
relies on: a call succeeds or returns an error (`MayFail` says which may), a
started service runs until it is stopped, faults get increasing ids in a bounded
log, clearing the log may restart the ids (`IdsRestart`), a policy may latch a
fault. The model runs one monitor at a time: the program lets a second
`ecat_fault_demo` start another on the same flags, which is left out (section 9).

`Patient` is an assumption on the operator: the next command is typed
when the monitor polls or stops and no recovery is pending, as the command's
output invites. Without it the safety of a recovery does not hold, which is the
finding below; with it, it is proved. `EcatRecovery_faults` assumes it too: two faults
with commands at any moment are too many states.

A refused `ecat_master_stop` has a place of its own, `stop_failed`. The code prints the
error and resets `ecat_master_running` all the same (`FR:455-461`), so the service runs
on while the stop command answers that nothing runs. `StopServed` and
`UnhandledFaultStops` therefore speak of the service (`svc_running`), not of the flag,
and name the refusal as their only excuse. What follows from a refusal is not covered:
`NoUnsupervisedMotion` and `SupervisorSpec` are about a service that does not refuse a
stop.

| Run | Question | Bounds |
|---|---|---|
| `EcatRecovery_live` | with commands at any moment and every call free to fail: types, `AppKnowsRunning`, and liveness: `StopServed`, `ClaimReleased` | 1 fault, 1 slave, batch 1 |
| `EcatRecovery_motion` | patient operator, stop never refused: `RecoverOnlyWhenStopped`, `SafeResume`, `NoUnsupervisedMotion`, and `SupervisorSpec`, the abstract promise below | 1 fault, 2 slaves |
| `EcatRecovery_faults` | patient operator: `UnhandledFaultStops`, an announced stopping fault stops the service, however the batches fall; `RecoveryServed`, a recovery put off by the stops of later faults is attempted | 2 faults, 1 slave, batch 1, so that a full batch has to be followed by another |
| `EcatRecovery_race` | violated: `RecoverOnlyWhenStopped` for an impatient operator | no fault needed |

Why the bounds are enough: commands and slave changes are not bounded, only
faults are. One fault gives every order of a fault with a stop, a recovery, a
clear and a motion command; two faults, needed where batches matter, are in
`EcatRecovery_faults`; two slaves tell "fewer than expected" from "none". The
safety properties are proved without any bound. `UnhandledFaultStops` is checked
with working log queries (`wait` and `history` do not fail: a query that always
fails would never find anything) and with ids that do not restart.

Fairness: weak fairness of `Monitor` only. It is a thread that is scheduled and
whose calls all have time-outs. Nothing is assumed of the operator, the bus or
the faults. `RecoveryServed` is about finitely many faults, two in its run: their stops
are served first and must not drop the recovery. Faults in every period postpone
a recovery for ever, by the order of the two `if`s.

Finding (`race`): `ecat_master_recover` reads `ecat_recovery_running` and then
`ecat_master_recovery_requested` while the monitor sets the one and clears the
other. Typed again at the moment the monitor takes the first request, the command
sees neither; the second request is served after the first recovery succeeded, and
`recover_master` then configures and starts a running master.

Windows the properties leave out, which the code has: a fault between
`ecat_fault_clear_all` and `ecat_fault_get_sequence` (`FR:731-733`), or between the
last `ecat_check_state` and the `get_sequence` of the start (`FR:409`), is marked as
seen and never handled. `UnhandledFaultStops` starts from a poll and excludes a
clear in progress.

### MasterSupervisor

`MasterSupervisor` says what the service is for in five variables: the master is
stopped, starting or running (`master`), has run before (`booted`), has been asked
for again (`asked`) or is to be stopped (`stopping`), and motors move (`moving`).
`Supervised`, proved of it, is the promise: motion under a running master only, no
start with a stop or another recovery pending. `Progress` adds that stops are
obeyed and starts end.

The refinement mapping is the `INSTANCE` at the end of `EcatRecovery`:

| Abstract | Detailed |
|---|---|
| `master` | `master_running`; without it "starting" while the monitor is in the start sequence or in a recovery that has been claimed, else "stopped" |
| `booted` | `expected_count >= 0`, set at the end of the first start |
| `asked` | `recovery_requested` |
| `stopping` | `stop_requested`, or the monitor between its claim of the stop and its end |
| `moving` | the service runs and `servo_run` is set |

Several abstract steps hide the interesting part: `Halt` is the moment the stop
takes effect, and a second stop requested meanwhile may or may not survive it, as
`ClaimStop` clears the flag before and not after; `AskStop` may switch the motion
off in the same step, as a fault does. The promise holds of a patient operator and
a service that does not refuse a stop: without the first, `race` starts a running
master; without the second, motors go on under a master the application calls
stopped.

## 4. Cia402Pdo

`Axis` is one turn of either loop of `pdo_callback`; it is the only one of the cycle to
read the axis' status word, so whether the word carries a warning is chosen there. `Exchange` is the cycle around it
with drives that obey or not yet. `aim` is the distance from position to target in
steps: a drive that was enabled is at its target after an exchange, the shaft of any
other may turn, in the exchange that enables it too. The drives follow CiA 402; the run `Cia402Pdo_axes` has two axes (one
before and one after the other in the image), one `motor_run`, one fault, any
number of stops, turns and resets. It shows `NoJump`, `FaultStopsAll` and
`RunEnables`. `NoJump` looks at a drive after the exchange that enabled it: however long
its shaft was turned before, with a target of an earlier run in the image, it is asked
for one step and the slip of that one exchange. `MaxAim` is 3, so that a target further
away than this (2) can be told from it. Fairness (`Prompt`): the exchange in which every drive obeys happens again and
again, and so does a reading of each axis' status word without a warning, though not
necessarily in one cycle for all; so the cyclic task goes on. Drives in working order
do both. The mode byte and the
value of the step are left out. Types and `NoJump` are proved for every number
of axes. A drive without a master (the output watchdog is
disabled, `FR:104`) is outside the model.

## 5. CanTimer

`timers` is the table, `hw` the hardware timer, `sem` the semaphore from the
interrupt to the dispatcher, `mutex` the stack's mutex, `pend[t]` a `SetAlarm` of
thread `t` between finding a row (`SetAlarm`) and filling it in (`StoreAlarm`), the two
halves between which other threads can act. `TimeDispatch` is the first loop with
the `setTimer` after it; `Trig`, `Callback` and `Return` are the second loop, where a
callback sets and deletes as many alarms as it likes before it returns. `Load` is what
`setTimer` writes: the part of a value below a second is raised to the shortest
time-out, 5 us in the code; `Second` and `MinTimeout` keep both in the model's unit. `Lockers` take the mutex and `Strays` do not: with `Strays`
empty the model is the protocol the stack intends; the application breaks it.

Every row carries two ghosts that no guard reads. `left` is the time until the caller's
moment; time is relative and unbounded. `late` says that time was lost while the alarm
waited. `Counted` is the time since the last dispatch as the code has it, what the sleep
was shortened by and the count; time is lost in a step in which it falls behind what
passed (`Lost`). The code loses some in three places: while the counter stands still from
its interrupt to the dispatch, when `SetAlarm` restarts it for the second time
between two dispatches, and when a value is raised. `WakesInTime` says that this is
all: an alarm that lost nothing while it waited never has less time left than the
hardware has to count, whatever was set, deleted, called and set again meanwhile. It
relates the hardware to the callers' moments, so it sees a sleep that `setTimer` has
lengthened. How much an alarm that did lose time is late the code does not bound.

External and assumed: the one-shot hardware timer counts up, keeps its count when
it has stopped (`HwRead`), and is read modulo its round when the sleep is longer
than the longest count; all delays asked for are shorter than that count, as the
ones in the code are; `TIMEVAL` arithmetic wraps at `TimevalMax`. `EnterMutex` gives
up after 5000 ticks: a thread that has done so is a stray.

| Run | Question | Bounds |
|---|---|---|
| `CanTimer_table` | threads with the mutex: types, `RowsBelowLast`, `WakesInTime`, `AlarmWatched`, `OwnRow`, `AlarmServed`, and `AlarmSpec`, the abstract promise below | 2 rows, delays 1 and 3, one-shot or period 2, longest count 4, a second of 3 (so that a delay of 3 is raised and the others are not) |
| `CanTimer_early` | violated: `NeverEarly` | delays 0 to 2, one-shot, no value but 0 raised |
| `CanTimer_stray` | violated: `OwnRow`, with one stray | as above |

Two rows suffice for a hole below the last row, a full table and a callback that
reuses the row just freed; the theorems cover every size. `Instant` lets no time
pass while the mutex is held; the run `early` has it, so that its violation owes
nothing to slow code. `AlarmServed` is checked without delays of 0: a thread that sets
0-delay alarms for ever restarts the counter each time, and no time is counted for
the others. The invariants are proved with 0 included.

Fairness: time passes, the interrupt is taken, the dispatcher runs, a `SetAlarm`
that has begun ends (weak fairness each); strong fairness of `TakeSemaphore`,
as the dispatcher has the highest priority of those that wait for the mutex and
gets it when it is released again and again; and of `Return`, as a callback that sets and
deletes alarms comes to its end.

Findings. `early`: `setTimer` zeroes the reference that `getElapsedTime` subtracts
(`CF/timer_rtthread.c:30-31`), but the rows count from the last dispatch. After a
`SetAlarm` that shortened the sleep, the next one adds too little elapsed time and its
callback comes early. The same restart makes other alarms late: with a total of 10,
`SetAlarm(5)` after 2 makes it 7; `SetAlarm(4)` after 2 more reads 2, makes the total 6 and
the hardware count 4; the dispatch at 8 compares 7 with 6 and leaves the alarm that was
due at 7. Such an alarm is one that `late` marks. `stray`: the repair thread and the threads that write to a node
set alarms without the mutex (`CM/canopen_callback.c:253`,
`CM/master402_canopen.c:719`), take the row another thread has just chosen, and one
alarm is lost.

### AlarmService

What a user of the stack may count on. An alarm is free, set, or due (`alarms`), and the
service is idle, in a round, or in a callback of the round (`at`). An alarm is set on a
handle nobody has; what falls due together is called once each, in the order of the
handles, unless somebody deletes it first; then it is free or, if periodic, set again.
While a round runs only its callbacks set and delete, and it ends when nothing is due.
Time is left out: when an alarm falls due is what `early` is about.

| Abstract | Detailed |
|---|---|
| `alarms[h].status` | the row's state: free, armed ("set"), or marked by the first loop, periodic or not ("due") |
| `alarms[h].period` | the row's `interval`, 0 for a free row |
| `at` | "idle" while the dispatcher waits, "round" while the second loop walks the table, "callback" inside one and inside the `SetAlarm` it calls |

The whole first loop is one `Fall`. A turn of the second loop that finds nothing to call
is a stutter, and so are `SetAlarm`'s choice of a row, the mutex, the hardware
and the passing of time; `StoreAlarm` is `Set`. The hard part is `EndRound`: that the
loop's end, `i <= last_timer_raw` over a table its callbacks change, leaves nothing
due. The implementation needs the mutex: with a stray the run `stray` loses an alarm.

## 6. CanConfig

`config_node` is run by the start thread, by a thread for every boot-up message and
by repair threads, all over one `slave_conf` and its `finish_sem`. `pc[t]` says where
thread `t` is, `left[t]` how many attempts its write has left. The receive thread and
the timer thread have higher priorities and hold the stack's mutex, so that what they
do for one frame or one alarm is one action; the configuring threads are preempted
between any two of theirs, but for one order: a thread that a boot-up wakes is ready
before the boot-up's own thread and has no lower priority, so it leaves `config_node`
before that one initialises the semaphore.

| Actions | Code |
|---|---|
| `BeginSync` ... `SyncResult`, `GiveUpSync` | `writeNetworkDictSync`, one action between any two calls on the semaphore or the line |
| `AwaitBoot` ... `BootOver` | `config_node` when the control word could not be written: wait for a boot-up, or have the node repaired |
| `Configure`, `FirstParam`, `TakeFinish`, `Finish`, `StartNode` | `config_node` from there on; `Param` is `config_node_param` |
| `Repair`, `PollState` | `master402_fix_config_err` and its thread |
| `Install` | `canopen_start_thread_entry` sets the boot-up handler |
| `Answer`, `StepWritten`, `StepFailed` | `proceedSDO` for the open transfer, with the callback it calls: `config_node_param_cb` or that of the control word |
| `Alarm` | `SDOTimeoutAlarm` |
| `BootUp`, `GuardAnswer`, `Emergency` | `slaveBootupHdl`, the answer to a guard request, `master402_post_emcy` |
| `Serve`, `PowerOff` | the drive (external) |

`Release`, `SemInit`, `Detached`, `Take` and `Without` are the kernel's semaphore as
the code uses it: a value, a queue, a release that hands over to the head of the
queue, an initialisation that forgets the queue. `acked` and `done` are history: the
steps whose own write the drive has acknowledged, and whether the drive has been
told to operate since it was powered. `DriveConfigured` reads `done`.

Constants that say what is assumed of the surroundings:

* `MayFail`: what may go wrong, out of a frame not sent, a frame lost, an abort and an
  emergency;
* `Prompt`: an answer that comes at all comes before its time-out. With late answers
  `proceedSDO` takes one for the transfer that is open by then (`CF/sdo.c:1282-1303`
  does not compare the index), and a step passes for written that was not;
* `Steady`: the drive keeps its power while it is being configured; it may boot while a
  thread waits for just that. Without it
  `CompleteMeansAcked` and `NoLostSleeper` fail: `slaveBootupHdl` releases the thread
  that waits for the configuration, and the new thread initialises the semaphore again,
  of which `CM/master402_canopen.c:759` warns in another place ("初始化过程使用，
  会导致信号量重复初始化，导致系统卡死");
* `Repeats`: whether the CAN controller repeats a frame nobody acknowledges. With it
  the repair thread's guard request reaches a drive that has just booted, the answer
  overwrites `Initialisation`, and repair and boot-up threads configure at the same
  time: `NoLostSleeper` fails. The CAN driver is not in the repository, so the runs
  take the milder one and the hazard says so.

| Run | Question | Bounds |
|---|---|---|
| `CanConfig_steady` | types, `CompleteMeansAcked`, `NoLostSleeper`, `ConfigEnds`, and `SetupSpec`, the abstract promise below, with lost frames, aborts, emergencies and failing sends | 3 threads, 2 steps, 2 tries, 2 repairs, 2 boot-ups |
| `CanConfig_startup` | violated: `DriveConfigured`, with nothing failing at all | the same, 1 boot-up |

Three threads are a start, a boot-up and a repair thread at once; two steps tell a
first from a last one, two tries a retry from giving up. Fairness: every thread is
scheduled, frames are delivered or lost, time-outs end (weak fairness each). Nothing
makes the drive boot or lose its power.

Finding (`startup`): the boot-up handler is set after the first `config_node` has
returned (`CM/master402_canopen.c:648`). A drive that boots before is recorded as
initialising, handled by nobody, and the repair thread leaves it to the handler.

### DriveSetup

Any number of threads share one `slave_conf`, one semaphore and one line, and each may
be in the middle of `config_node`. `DriveSetup` says that from outside they look like one
configurer: a configuration begins (`phase`) when none is under way and the drive does
not operate, its writes are acknowledged one after the other from the first (`written`),
it is complete or abandoned, and a complete one makes the drive operate (`operating`),
until the drive loses its power.

| Abstract | Detailed |
|---|---|
| `phase` | "complete" when a thread is about to start the node; "writing" while one is past the reset of `state` and `try_cnt`, up to the reading of `err_code`; else "idle" |
| `written` | `acked`: the steps whose own write the drive has acknowledged |
| `operating` | `done`: the drive has been told to operate since it was powered |

Lost frames, aborts, attempts, time-outs, boot-ups, guard requests and repairs are
stutters, and so is the first write of `config_node`, the control word. What could go
wrong is that two threads configure at once, that one begins while the drive operates,
or that an answer counts for the wrong step. A boot-up that leaves the state recorded
for the drive as it was is enough (the mutant of `SetupSpec`): the repair thread then
configures beside the boot-up's own.

Left out: the states of the master (stopped, resumed by `master_resume_start`), errors
of the local dictionary, the heartbeat-error repair
(`master402_fix_node_Disconnected`; its `try_cnt` is never reset,
`CM/canopen_callback.c:72`), more than one node or line, and durations: that a thread waits
50 ticks for what the stack times out after 3000 ms is in the model only as the
order in which time-outs may come.

## 7. Tftp

One transfer. `net` is the set of packets sent and not yet received; one that is
never received is lost, any may be received out of order, and `MaxDups` of them twice.
A request that reaches the server opens a session with a socket of its own, so a
repeated request opens another while the first goes on.

| Actions | Code |
|---|---|
| `PullData`, `PushAck`, `ClientTimeout` | the loops of `tftp_client_pull` and `tftp_client_push`, with what they answer |
| `Accept` | `tftp_server_request_handle` and the first packet of the session |
| `ServeAck`, `ServeData` | `tftp_server_transf_handle` on a packet, for a read and for a write |
| `ServerTimeout` | the same on a time-out, for all sessions one after another |
| `ServerStop` | `tftp --stop`, once the server has seen it |
| `ReadAt`, `ReadOn`, `Written` | `tftp_file_read` and `tftp_file_write` of `TF/tftp_port.c`, which do not use the position they are given |

The file is a sequence of chunks named by their place, the last of which is short. Block
numbers wrap at 2^16. The code's own twists are kept: the last time-out of a transfer
under way leaves `client->err` at OK with the size so far (so `PushedExact` asks for
the full size as well); a file that cannot be opened is -1 and not NULL, and is
read as empty; the server's `retry == 0` test.

| Run | Question | Bounds |
|---|---|---|
| `Tftp_transfer` | types, `PulledExact`, `PushedExact`, `ClientEnds`, `SessionsEnd`, and `DeliverySpec`, the abstract promise below, with a failing disk, an absent file and a server that is stopped | 2 full blocks and a rest, 2 retries, 2 slots, 1 duplicate |
| `Tftp_resend` | violated: `PulledIsPrefix` | the same, no duplicate, no failure |

Two full blocks tell a first block from a next and from the last; two retries make a
second session; two slots and three possible requests fill the table. The safety
properties are proved for every number of them. Fairness: a side that receives nothing
times out (weak fairness of `ClientTimeout` and `ServerTimeout`). The network owes
nothing.

Finding (`resend`): after a time-out the server repeats the block's number
(`TF/tftp_server.c:299`), but `tftp_file_read` (`TF/tftp_port.c:57`) reads on instead of at
`pos`. If the first copy was lost, the client stores the next part of the file in its
place. `PulledExact` therefore speaks of transfers in which the server has repeated
no block, and shows that nothing else spoils one.

### FileDelivery

`PulledExact` and `PushedExact` speak of a state, `FileDelivery` of every step: the copy
at the receiver grows only at its end, by the next piece of the file (`copy`); the command
counts pieces that are in the copy by then (`counted`), reports success in the step that
counts the last, and may otherwise end at any time with either report, as the
last time-out of a transfer under way reports none of its failure (`report`). In a push
`Deliver` is a block written by any session, and a write of what is there already is a
stutter; in a pull a block is written and counted at once (`Receive`).

| Abstract | Detailed |
|---|---|
| `copy` | `got` in a pull, `stored` in a push |
| `counted` | `size`, the count of blocks the command returns |
| `report` | "none" until the client is done, then `err` |
| `sound` | a push, or a pull of a file that is there whose blocks the server has not repeated |

`sound` is where the finding is: from the first repetition in a read (`Spoil`) a piece may
be any piece. It never becomes true again, and in a push it is never lost.

Left out: `sendto` that fails, a failed `malloc` or socket, options in requests and
block sizes, more than one client, files of 65535 blocks and more, a server started
again, what a file of the same name held before (it is opened without truncation), and
the number of a block whose write to disk has failed, which nobody reads any more.

## 8. Proofs

TLAPS checks all of it; the assumptions are the named `ASSUME`s of the modules and
what the theorems state. Neither the number of faults, slaves, rows, threads, axes,
steps, blocks or retries nor any delay below the longest count is bounded. Every
invariant and action property of a passing run is proved, and every step of the four
refinements.

`EcatRecoveryProofs`:

* `TypeCorrect`: `TypeOK` is inductive.
* `AppKnowsRunningAlways`: `AppKnowsRunning` alone is not inductive, as `SetRunning` sets
  the flag long after the start; `AppInv` adds that past `ecat_master_start` the service
  runs (`StartedService`).
* `PatientRecovery`, `PatientResume` (assume `Patient`): `PatientInv` says that from the
  request to the restart nothing moves: the shell is idle, the master stopped, the
  motion flag off (`RequestIsQuiet`, `StartIsQuiet`), that the monitor claims what was
  asked for (`ClaimIsAsked`), and that a recover command past its first guard still finds the
  master stopped (`CommandFresh`).
* `SupervisedMotion` (assumes also that a stop is not refused): `MotionInv` adds that a
  running master is a ready one, so the stop is really called (`RunningIsReady`,
  `StopTookEffect`), and that a `motor_run` about to write its flag has not been
  overtaken by a stop of the service (`PendingMotion`).

`MasterSupervisor` and `EcatRefinementProofs` (assume what `SupervisedMotion` does):

* `SupervisorSafe`: `Supervised` is inductive in the abstract module.
* `ImplementsSupervisor`: initial states map to initial states and every step to an
  abstract step or a stutter (`Simulates`, one step per action). That needs `MotionInv`,
  and besides it who may start the master before and after the first start
  (`BootInv`), and that a start finds no stop pending (`StopInv`).
* `RecoverySupervised`: the abstract safety, read through the mapping.

`Cia402PdoProofs`: `TypeCorrect`, and `NoJumpAlways` for any number of axes and any slip.
An exchange may enable a drive, so the induction needs `StepsSoFar`: the axes the
callback has handled in this cycle have a target one step from where they stood. That
only word 15 enables a drive is a lemma on the drives (`EnabledBy15`).

`CanTimerProofs`:

* `TimerTypes`: types, for any threads, strays included.
* `AlarmsInReach`, `AlarmsWatched`, `AlarmsOwnTheirRow` (assume
  `Strays = {}`) from one inductive invariant, `TableInv`: who is inside the table holds
  the mutex (`Locked`), a chosen row stays free and in reach (`Owned`), rows marked by the
  first loop are ahead of the second (`Due`), the sleep is no longer than any row that
  stays (`Covered`, which needs the rows marked periodic besides the armed ones), the
  reference of the counter is 0 outside a dispatch (`ReadFromStart`: without it an elapsed
  time could wrap), and a finite sleep is being counted or has been (`CountedSleep`).
* `AlarmsWake` (assumes `Strays = {}`): every alarm that is not late has at least its
  row's value less `Counted` left (`Kept`, one lemma per action that moves time or the
  counter), and the sleep is no longer than the row's value (`Covered`); together the
  count that is left is no longer than the time that is left. A row about to be armed again
  needs `WithinPeriod`.
* `ImplementsAlarms` (assumes `Strays = {}`): every step is one of `AlarmService` or a
  stutter. Of `TableInv` it takes that `SetAlarm`'s row is still free when it is filled in,
  that nobody but a callback is inside the table during a round, and that due rows
  are between the second loop and `last_timer_raw`, so that the row the loop calls is the
  first of them and none is left at its end. `Marked` is added: a due row is marked as
  its period says, so that a one-shot alarm is free when its callback is called, a
  periodic one set.

`CanConfigProofs` (assume `Orderly`: a steady, prompt drive and a controller that drops
what nobody acknowledges; without each of the three a property fails, section 6).
`ConfigInvariant` is the induction, `TypeCorrect`, `SleepersKept` and `CompleteIsAcked` follow:

* `Alone`: one thread at a time configures, and one that a boot-up has woken only leaves
  beside the boot-up's own. Nothing in the code says so; it follows
  from `Pollers`: a repair thread beside another one sees a drive that has just booted,
  and no guard request is under way that could change what it sees.
* `Sleepers`: the semaphore's queue is the one thread that sleeps.
* `Transfers`: at most one frame is under way, it belongs to the open transfer of the
  thread that configures (`Place`), and the steps before it are acknowledged
  (`StepLine`), all of them when the last release came without an error.

`CanSetupProofs` (assumes `Orderly` as well):

* `ImplementsSetup`: initial states map to initial states and every step to a step of
  `DriveSetup` or a stutter, one lemma per group of actions. `ConfigInvariant`'s
  conjuncts say that one thread writes at a time and in order, but not that it finds the
  drive as `DriveSetup` wants it. `SetupInv` adds that a drive that has answered, or
  that a thread writes to, is on (`Powered`: only such a one is told to operate); that
  nobody configures a drive that operates, and no repair thread is about to
  (`Untouched`); and that while a step is written exactly the steps before it are
  acknowledged (`InOrder`; `StepLine` only says they are among them).

`TftpProofs`: `TftpInvariant` is the induction, `TypeCorrect`, `PullIsExact` and `PushIsExact` follow.
`Addressed` and `Counted` (no more sessions than requests and their copies) give the
types. For a push, what is stored is ahead of what sessions have received, that of
what is acknowledged, and that of what the client counts (`PushInv`), so late packets
and other sessions write again what is there. For a pull, no packet, session or file
holds a chunk from before its block, and exactly that block's as long as nothing was
repeated (`PullInv`).

* `ImplementsDelivery`: every step of the two sides is one of `FileDelivery` or a stutter,
  from the same invariant. In a push `ServeData` appends the chunk after the last or
  writes again what is there (`WrittenGrows`), and the client counts a block only when it
  is in the copy (`PushCounts`); in a pull a packet that is accepted holds the next
  chunk as long as the transfer is sound (`PullReceives`).

Only model-checked: all liveness (`StopServed`, `RecoveryServed`, `ClaimReleased`,
`UnhandledFaultStops`, the `Progress` part of `SupervisorSpec`, `FaultStopsAll`,
`RunEnables`, `AlarmServed`, `ConfigEnds`, `ClientEnds`, `SessionsEnd`), which is out of the
prover's reach.

## 9. Not modelled

Open work, in the order of section 2: SDO uploads, segments and blocks, more nodes and
lines, the heartbeat repair and the master's states of the CANopen application; the AMP
service; the Telnet console; the two buffers of the UVC example. Each has a line under
"components" in `PROJECT.json` that says what it would be about.

Hazards of the modelled code that no property covers, with their reasons in
`PROJECT.json`: the windows of `FR:409` and `FR:733`; the reset of the last fault id
during a batch (`FR:734`); a log of 32 records that overflows between two polls; a
full alarm table; a refused stop (`FR:455`); late SDO answers; the TFTP server's `retry` test when a send fails.
Three more are outside the models altogether: a second `ecat_fault_demo`, which starts
a second monitor on the same flags; slaves that come or go between the count of a
recovery and the configuration that follows it; and the disabled output
watchdog (`FR:104`).

Vendored packages, register-level drivers, shell formatting and the examples that show
one kernel call are left out for good; the closed kernel and services appear only by
what the code in the repository relies on.
