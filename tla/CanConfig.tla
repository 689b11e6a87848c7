----------------------------- MODULE CanConfig -----------------------------
(***************************************************************************)
(* The CANopen master's configuration of its drive: config_node, run by    *)
(* the start thread, by a thread per boot-up message and by repair         *)
(* threads, over one slave_conf record with one semaphore; the SDO client  *)
(* line whose callback takes a configuration from step to step; the boot-  *)
(* up handler and the repair of a failed configuration.  The receive and   *)
(* the timer thread have the higher priorities and hold the stack's mutex, *)
(* so that what they do for one frame or alarm is one step; a configuring  *)
(* thread is preempted between any two of its own.                         *)
(***************************************************************************)
EXTENDS Integers, Sequences, FiniteSets

CONSTANTS
    Threads, Start, \* the threads there is memory for; the first to run
    Steps,          \* SDO writes of NODECFG_Operation_2 before its last entry
    Tries,          \* attempts at a write, 3 in the code
    Repairs,        \* repair threads the program starts in its life, 3
    BootUps,        \* bound: boot-up messages in a behaviour
    MayFail,        \* what may go wrong: Troubles
    Prompt,         \* whether an answer comes within SDO_REPLY_TIMEOUT
    Steady,         \* whether the drive keeps its power while configured
    Repeats         \* whether the CAN controller repeats a frame until a
                    \* drive that was off acknowledges it

Troubles == {"send", "lose", "abort", "emcy"}

ASSUME ConfigAssumption ==
    /\ Start \in Threads /\ IsFiniteSet(Threads)
    /\ Steps \in Nat \ {0} /\ Tries \in Nat \ {0}
    /\ Repairs \in Nat /\ BootUps \in Nat
    /\ MayFail \subseteq Troubles
    /\ Prompt \in BOOLEAN /\ Steady \in BOOLEAN /\ Repeats \in BOOLEAN

VARIABLES
    step, try_cnt, err_code,  \* slave_conf
    sem, waiting,             \* finish_sem: its value and its waiting threads
    line,                     \* the SDO client line of the drive
    requests, answers,        \* SDO frames to and from the drive
    drive, NMTable, guard,    \* the drive, its state as recorded, a request
                              \* for that state under way
    boots,                    \* boot-up messages so far
    ready,                    \* post_SlaveBootup set, master operational
    cfg_try,                  \* cfg[].try_cnt, the repairs so far
    pc, left,                 \* per thread: its place, its attempts left
    acked,                    \* history: steps of this configuration whose
                              \* own write the drive acknowledged
    done                      \* history: configured since the last power-up

conf   == <<step, try_cnt, err_code>>
semaph == <<sem, waiting>>
wire   == <<requests, answers>>
node   == <<drive, NMTable, guard, boots, done>>
stack  == <<line, wire>>
thread == <<pc, left>>
vars   == <<conf, semaph, stack, node, ready, cfg_try, thread, acked>>

CW == -1                    \* the write of the control word before step 0
AllSteps == 0..Steps - 1
Free == [state |-> "free", cb |-> "none"]

\* Places inside config_node, and where a thread sleeps on the semaphore.
ConfigPCs == {"cw", "open", "take", "wait", "expired", "result",
              "cw_fail", "boot_take", "boot_wait", "boot_late", "boot_ok",
              "configure", "param", "cfg_take", "cfg_wait", "cfg_done", "nmt"}
WaitPCs == {"wait", "boot_wait", "cfg_wait"}

Init ==
    /\ step = 0 /\ try_cnt = 0 /\ err_code = "ok"
    /\ sem = 0 /\ waiting = <<>>
    /\ line = Free /\ requests = <<>> /\ answers = <<>>
    /\ drive \in {"off", "pre"} /\ NMTable = "unknown" /\ guard = FALSE
    /\ boots = 0 /\ ready = FALSE /\ cfg_try = 0
    /\ pc = [t \in Threads |-> IF t = Start THEN "cw" ELSE "none"]
    /\ left = [t \in Threads |-> 0]
    /\ acked = {} /\ done = FALSE

----------------------------------------------------------------------------
(* The semaphore.  p is pc after the caller's own move.                     *)

Woken(place) == CASE place = "wait" -> "result"
                  [] place = "boot_wait" -> "boot_ok"
                  [] place = "cfg_wait" -> "cfg_done"

Release(p) ==
    IF waiting = <<>>
      THEN /\ sem' = sem + 1
           /\ pc' = p /\ UNCHANGED waiting
      ELSE /\ pc' = [p EXCEPT ![Head(waiting)] = Woken(@)]
           /\ waiting' = Tail(waiting) /\ UNCHANGED sem

\* rt_sem_init, rt_sem_detach: afterwards no thread is on the list.
SemInit == sem' = 0 /\ waiting' = <<>>

\* rt_sem_detach resumes every sleeper with an error, which the one that
\* waits for ever does not look at.
Detached(p) ==
    [t \in Threads |->
       IF \E i \in DOMAIN waiting : waiting[i] = t
         THEN CASE p[t] = "wait" -> "expired"
                [] p[t] = "boot_wait" -> "boot_late"
                [] p[t] = "cfg_wait" -> "cfg_done"
         ELSE p[t]]

Take(t, got, sleep) ==
    IF sem > 0
      THEN sem' = sem - 1 /\ pc' = [pc EXCEPT ![t] = got] /\ UNCHANGED waiting
      ELSE /\ waiting' = Append(waiting, t)
           /\ pc' = [pc EXCEPT ![t] = sleep] /\ UNCHANGED sem

\* The list when t's wait has timed out: without t, if it was on it.
Without(t) ==
    IF \E i \in DOMAIN waiting : waiting[i] = t
      THEN LET i == CHOOSE i \in DOMAIN waiting : waiting[i] = t
           IN  SubSeq(waiting, 1, i - 1) \o SubSeq(waiting, i + 1, Len(waiting))
      ELSE waiting

\* Only when nothing is under way may a wait for a prompt drive run out.
Silence == Prompt => requests = <<>> /\ answers = <<>>

----------------------------------------------------------------------------
(* writeNetworkDictSync, with which config_node writes the control word     *)

\* A thread that a boot-up has woken is ready before the thread the boot-up
\* starts, and with a priority that is no lower.
BeginSync(t) ==
    /\ pc[t] = "cw" /\ \A u \in Threads : pc[u] # "boot_ok"
    /\ SemInit
    /\ left' = [left EXCEPT ![t] = Tries]
    /\ pc' = [pc EXCEPT ![t] = "open"]
    /\ UNCHANGED <<conf, stack, node, ready, cfg_try, acked>>

\* Another attempt: a line in use, or a frame not sent, closes the line.
OpenLine(t) ==
    /\ pc[t] = "open" /\ left[t] > 0
    /\ left' = [left EXCEPT ![t] = @ - 1]
    /\ \/ /\ line = Free
          /\ line' = [state |-> "busy", cb |-> "sync"]
          /\ requests' = Append(requests, CW)
          /\ pc' = [pc EXCEPT ![t] = "take"]
       \/ /\ line # Free \/ "send" \in MayFail
          /\ line' = Free
          /\ UNCHANGED <<requests, pc>>
    /\ UNCHANGED <<conf, semaph, answers, node, ready, cfg_try, acked>>

GiveUpSync(t) ==
    /\ pc[t] = "open" /\ left[t] = 0
    /\ SemInit /\ pc' = Detached([pc EXCEPT ![t] = "cw_fail"])
    /\ UNCHANGED <<conf, stack, node, ready, cfg_try, left, acked>>

TakeSync(t) ==
    /\ pc[t] = "take"
    /\ Take(t, "result", "wait")
    /\ UNCHANGED <<conf, stack, node, ready, cfg_try, left, acked>>

SyncTimeout(t) ==
    /\ pc[t] = "wait" /\ Silence
    /\ waiting' = Without(t)
    /\ pc' = [pc EXCEPT ![t] = "expired"]
    /\ UNCHANGED <<conf, sem, stack, node, ready, cfg_try, left, acked>>

CloseLine(t) ==
    /\ pc[t] = "expired"
    /\ line' = Free
    /\ pc' = [pc EXCEPT ![t] = "open"]
    /\ UNCHANGED <<conf, semaph, wire, node, ready, cfg_try, left, acked>>

SyncResult(t) ==
    /\ pc[t] = "result"
    /\ line' = Free
    /\ IF line.state = "finished"
         THEN SemInit /\ pc' = Detached([pc EXCEPT ![t] = "configure"])
         ELSE pc' = [pc EXCEPT ![t] = "open"] /\ UNCHANGED semaph
    /\ UNCHANGED <<conf, wire, node, ready, cfg_try, left, acked>>

----------------------------------------------------------------------------
(* config_node when the control word could not be written: wait for the     *)
(* drive to boot, or have it repaired                                       *)

AwaitBoot(t) ==
    /\ pc[t] = "cw_fail"
    /\ SemInit
    /\ pc' = [pc EXCEPT ![t] = "boot_take"]
    /\ UNCHANGED <<conf, stack, node, ready, cfg_try, left, acked>>

TakeBoot(t) ==
    /\ pc[t] = "boot_take"
    /\ Take(t, "boot_ok", "boot_wait")
    /\ UNCHANGED <<conf, stack, node, ready, cfg_try, left, acked>>

BootTimeout(t) ==
    /\ pc[t] = "boot_wait"
    /\ waiting' = Without(t)
    /\ pc' = [pc EXCEPT ![t] = "boot_late"]
    /\ UNCHANGED <<conf, sem, stack, node, ready, cfg_try, left, acked>>

\* What runs when config_node returns: the start thread goes on to set the
\* boot-up handler, the others end.
After(t) == IF t = Start THEN "install" ELSE "none"

\* master402_fix_config_err; without memory for a thread none is started.
Repair(p) ==
    /\ cfg_try' = cfg_try + 1
    /\ IF cfg_try < Repairs /\ \E u \in Threads : p[u] = "none"
         THEN \E u \in Threads : p[u] = "none"
                                 /\ pc' = [p EXCEPT ![u] = "poll"]
         ELSE pc' = p

\* The new thread does not run before the detach of its creator: it has
\* no higher priority, or finds the state of a drive that has just booted.
BootLate(t) ==
    /\ pc[t] = "boot_late"
    /\ err_code' = "no_respond"
    /\ SemInit /\ Repair(Detached([pc EXCEPT ![t] = After(t)]))
    /\ UNCHANGED <<step, try_cnt, stack, node, ready, left, acked>>

BootOver(t) ==
    /\ pc[t] = "boot_ok"
    /\ SemInit /\ pc' = Detached([pc EXCEPT ![t] = After(t)])
    /\ UNCHANGED <<conf, stack, node, ready, cfg_try, left, acked>>

----------------------------------------------------------------------------
(* The steps of a configuration                                             *)

\* Mutant: an entry that could not be sent is skipped without a word.
BugParam(k, free, p) ==
    \/ /\ k < Steps /\ free
       /\ line' = [state |-> "busy", cb |-> "step"]
       /\ requests' = Append(requests, k)
       /\ step' = k /\ err_code' = "ok" /\ pc' = p
       /\ UNCHANGED semaph
    \/ /\ k < Steps /\ (~free \/ "send" \in MayFail)
       /\ line' = IF free THEN Free ELSE line
       /\ step' = 0 /\ err_code' = "ok" /\ Release(p)
       /\ UNCHANGED requests
    \/ /\ k = Steps
       /\ line' = IF free THEN Free ELSE line
       /\ step' = k /\ err_code' = "ok" /\ Release(p)
       /\ UNCHANGED requests

\* config_node_param for entry k, free telling whether the line is: the entry
\* is sent, or not, or it is the last, which releases the semaphore.
Param(k, free, p) ==
    \/ /\ k < Steps /\ free
       /\ line' = [state |-> "busy", cb |-> "step"]
       /\ requests' = Append(requests, k)
       /\ step' = k /\ err_code' = "ok" /\ pc' = p
       /\ UNCHANGED semaph
    \/ /\ k < Steps /\ (~free \/ "send" \in MayFail)
       /\ line' = IF free THEN Free ELSE line
       /\ step' = 0 /\ err_code' = "no_send" /\ Release(p)
       /\ UNCHANGED requests
    \/ /\ k = Steps
       /\ line' = IF free THEN Free ELSE line
       /\ step' = k /\ err_code' = "ok" /\ Release(p)
       /\ UNCHANGED requests

Configure(t) ==
    /\ pc[t] = "configure"
    /\ step' = 0 /\ try_cnt' = 0 /\ acked' = {}
    /\ SemInit
    /\ pc' = [pc EXCEPT ![t] = "param"]
    /\ UNCHANGED <<err_code, stack, node, ready, cfg_try, left>>

\* Under the stack's mutex.
FirstParam(t) ==
    /\ pc[t] = "param"
    /\ Param(step, line = Free, [pc EXCEPT ![t] = "cfg_take"])
    /\ UNCHANGED <<try_cnt, answers, node, ready, cfg_try, left, acked>>

TakeFinish(t) ==
    /\ pc[t] = "cfg_take"
    /\ Take(t, "cfg_done", "cfg_wait")
    /\ UNCHANGED <<conf, stack, node, ready, cfg_try, left, acked>>

\* The semaphore is detached and err_code tells whether to repair.
Finish(t) ==
    /\ pc[t] = "cfg_done" /\ SemInit
    /\ \/ /\ err_code = "ok"
          /\ pc' = Detached([pc EXCEPT ![t] = "nmt"]) /\ UNCHANGED cfg_try
       \/ /\ err_code # "ok"
          /\ Repair(Detached([pc EXCEPT ![t] = After(t)]))
    /\ UNCHANGED <<conf, stack, node, ready, left, acked>>

\* The drive is configured: it is told to operate.
StartNode(t) ==
    /\ pc[t] = "nmt"
    /\ drive' = IF drive = "pre" THEN "op" ELSE drive
    /\ done' = (drive # "off")
    /\ pc' = [pc EXCEPT ![t] = After(t)]
    /\ UNCHANGED <<conf, semaph, stack, NMTable, guard, boots, ready, cfg_try,
                   left, acked>>

\* canopen_start_thread_entry after config_node.
Install ==
    /\ pc[Start] = "install"
    /\ ready' = TRUE
    /\ pc' = [pc EXCEPT ![Start] = "none"]
    /\ UNCHANGED <<conf, semaph, stack, node, cfg_try, left, acked>>

\* master402_fix_config_err_thread_entry, one look at the recorded state.
PollState(t) ==
    /\ pc[t] = "poll"
    /\ \/ /\ NMTable \in {"unknown", "disconnected"}
          /\ NMTable' = "unknown" /\ guard' = (guard \/ drive # "off" \/ Repeats)
          /\ UNCHANGED <<drive, pc>>
       \/ /\ NMTable = "pre"
          /\ drive' = IF drive = "pre" THEN "op" ELSE drive
          /\ pc' = [pc EXCEPT ![t] = "cw"]
          /\ UNCHANGED <<NMTable, guard>>
       \/ /\ NMTable \in {"init", "op"}
          /\ pc' = [pc EXCEPT ![t] = "none"]
          /\ UNCHANGED <<drive, NMTable, guard>>
    /\ UNCHANGED <<conf, semaph, stack, boots, done, ready, cfg_try, left,
                   acked>>

Thread(t) ==
    \/ BeginSync(t) \/ OpenLine(t) \/ GiveUpSync(t) \/ TakeSync(t)
    \/ SyncTimeout(t) \/ CloseLine(t) \/ SyncResult(t)
    \/ AwaitBoot(t) \/ TakeBoot(t) \/ BootTimeout(t) \/ BootLate(t)
    \/ BootOver(t)
    \/ Configure(t) \/ FirstParam(t) \/ TakeFinish(t) \/ Finish(t)
    \/ StartNode(t) \/ PollState(t)

----------------------------------------------------------------------------
(* The receive and the timer thread                                         *)

\* Mutant: giving up leaves the configuring thread asleep.
BugStepFailed ==
    /\ acked' = acked
    /\ IF try_cnt + 1 < Tries
         THEN try_cnt' = try_cnt + 1 /\ Param(step, TRUE, pc)
         ELSE /\ step' = 0 /\ try_cnt' = 0 /\ err_code' = "no_respond"
              /\ line' = Free /\ UNCHANGED <<requests, semaph, pc>>

\* Mutant: one attempt too many.
BugTries ==
    /\ acked' = acked
    /\ IF try_cnt + 1 <= Tries
         THEN try_cnt' = try_cnt + 1 /\ Param(step, TRUE, pc)
         ELSE /\ step' = 0 /\ try_cnt' = 0 /\ err_code' = "no_respond"
              /\ line' = Free /\ Release(pc) /\ UNCHANGED requests

\* config_node_param_cb on a write that failed.
StepFailed ==
    /\ acked' = acked
    /\ IF try_cnt + 1 < Tries
         THEN try_cnt' = try_cnt + 1 /\ Param(step, TRUE, pc)
         ELSE /\ step' = 0 /\ try_cnt' = 0 /\ err_code' = "no_respond"
              /\ line' = Free /\ Release(pc) /\ UNCHANGED requests

\* config_node_param_cb on a write that succeeded; what the answer is for is
\* not looked at.
StepWritten(for) ==
    /\ acked' = acked \cup ({for} \cap AllSteps)
    /\ try_cnt' = 0
    /\ Param(step + 1, TRUE, pc)

\* An answer is taken for the transfer that is open.
Answer ==
    /\ answers # <<>>
    /\ answers' = Tail(answers)
    /\ LET a == Head(answers) IN
       \/ /\ line.state = "busy" /\ line.cb = "step"
          /\ IF a.ok THEN StepWritten(a.for) ELSE StepFailed
       \/ /\ line.state = "busy" /\ line.cb = "sync"
          /\ line' = [line EXCEPT !.state = IF a.ok THEN "finished"
                                                    ELSE "aborted"]
          /\ Release(pc)
          /\ UNCHANGED <<conf, requests, acked>>
       \/ /\ line.state # "busy"
          /\ line' = IF line = Free THEN Free
                                    ELSE [line EXCEPT !.state = "aborted"]
          /\ UNCHANGED <<conf, semaph, requests, pc, acked>>
    /\ UNCHANGED <<node, ready, cfg_try, left>>

\* SDOTimeoutAlarm.  A write of the control word is closed long before.
Alarm ==
    /\ line.state = "busy" /\ line.cb = "step" /\ Silence
    /\ StepFailed
    /\ UNCHANGED <<answers, node, ready, cfg_try, left>>

\* master402_post_emcy
Emergency ==
    /\ "emcy" \in MayFail /\ drive # "off"
    /\ ready \/ NMTable # "unknown"
    /\ err_code' = "emcy"
    /\ UNCHANGED <<step, try_cnt, semaph, stack, node, ready, cfg_try, thread,
                   acked>>

Idle == \A t \in Threads : pc[t] \notin ConfigPCs

\* No thread configures, but one may be waiting for the drive to boot.
Expected == \A t \in Threads : pc[t] \in ConfigPCs => pc[t] = "boot_wait"

\* Mutant: a boot-up leaves the state recorded for the drive as it is.
BugBootUp ==
    /\ drive = "off" /\ boots < BootUps
    /\ Steady => Expected
    /\ drive' = "pre" /\ NMTable' = NMTable /\ boots' = boots + 1
    /\ IF ~ready
         THEN UNCHANGED <<semaph, pc>>
         ELSE \E p \in IF \A u \in Threads : pc[u] # "none" THEN {pc}
                       ELSE {[pc EXCEPT ![u] = "cw"] :
                               u \in {v \in Threads : pc[v] = "none"}} :
                IF waiting = <<>> THEN pc' = p /\ UNCHANGED semaph
                                  ELSE Release(p)
    /\ UNCHANGED <<conf, stack, guard, done, ready, cfg_try, left, acked>>

\* slaveBootupHdl, once it is set: whoever sleeps on the semaphore is woken
\* and a new thread configures the drive.
BootUp ==
    /\ drive = "off" /\ boots < BootUps
    /\ Steady => Expected
    /\ drive' = "pre" /\ NMTable' = "init" /\ boots' = boots + 1
    /\ IF ~ready
         THEN UNCHANGED <<semaph, pc>>
         ELSE \E p \in IF \A u \in Threads : pc[u] # "none" THEN {pc}
                       ELSE {[pc EXCEPT ![u] = "cw"] :
                               u \in {v \in Threads : pc[v] = "none"}} :
                IF waiting = <<>> THEN pc' = p /\ UNCHANGED semaph
                                  ELSE Release(p)
    /\ UNCHANGED <<conf, stack, guard, done, ready, cfg_try, left, acked>>

\* The drive answers the request for its state.
GuardAnswer ==
    /\ guard /\ drive # "off"
    /\ guard' = FALSE /\ NMTable' = drive
    /\ UNCHANGED <<conf, semaph, stack, drive, boots, done, ready, cfg_try,
                   thread, acked>>

----------------------------------------------------------------------------
(* The drive                                                                *)

Serve ==
    /\ requests # <<>>
    /\ requests' = Tail(requests)
    /\ \/ /\ drive # "off"
          /\ \E ok \in {TRUE} \cup {FALSE : f \in MayFail \cap {"abort"}} :
               answers' = Append(answers, [for |-> Head(requests), ok |-> ok])
       \/ /\ drive = "off" \/ "lose" \in MayFail
          /\ UNCHANGED answers
    /\ UNCHANGED <<conf, semaph, line, node, ready, cfg_try, thread, acked>>

PowerOff ==
    /\ drive # "off" /\ boots < BootUps
    /\ Steady => Idle
    /\ drive' = "off" /\ guard' = (guard /\ Repeats) /\ done' = FALSE
    /\ UNCHANGED <<conf, semaph, stack, NMTable, boots, ready, cfg_try,
                   thread, acked>>

Next == \/ \E t \in Threads : Thread(t)
        \/ Install \/ Answer \/ Alarm \/ Emergency
        \/ BootUp \/ GuardAnswer \/ Serve \/ PowerOff

\* Threads are scheduled, their waits with a time-out and the SDO alarm end,
\* frames are delivered.  Nothing makes the drive boot or lose its power.
Spec == /\ Init /\ [][Next]_vars
        /\ \A t \in Threads : WF_vars(Thread(t))
        /\ WF_vars(Install) /\ WF_vars(Answer) /\ WF_vars(Alarm)
        /\ WF_vars(GuardAnswer) /\ WF_vars(Serve)

----------------------------------------------------------------------------
(* Properties                                                               *)

\* Every variable holds a value of its C type, narrowed to what the code
\* stores in it.
TypeOK ==
    /\ step \in 0..Steps /\ try_cnt \in 0..Tries - 1
    /\ err_code \in {"ok", "no_send", "no_respond", "emcy"}
    /\ sem \in Nat /\ waiting \in Seq(Threads)
    /\ line \in [state : {"free", "busy", "finished", "aborted"},
                 cb : {"none", "sync", "step"}]
    /\ requests \in Seq({CW} \cup AllSteps)
    /\ answers \in Seq([for : {CW} \cup AllSteps, ok : BOOLEAN])
    /\ drive \in {"off", "pre", "op"}
    /\ NMTable \in {"unknown", "init", "pre", "op"}
    /\ guard \in BOOLEAN /\ boots \in 0..BootUps
    /\ ready \in BOOLEAN /\ cfg_try \in Nat
    /\ pc \in [Threads -> ConfigPCs \cup {"none", "install", "poll"}]
    /\ left \in [Threads -> 0..Tries]
    /\ acked \subseteq AllSteps /\ done \in BOOLEAN

\* A drive is reported as configured and started only if it has acknowledged
\* every step's own write since the configuration began.
CompleteMeansAcked == \A t \in Threads : pc[t] = "nmt" => acked = AllSteps

\* A thread that sleeps on finish_sem can be woken: it is on its list, which
\* no other thread has initialised over it.
NoLostSleeper ==
    \A t \in Threads : pc[t] \in WaitPCs => \E i \in DOMAIN waiting : waiting[i] = t

\* Every run of config_node ends, in the wait without a time-out too.
ConfigEnds ==
    \A t \in Threads : pc[t] \in ConfigPCs ~> pc[t] \notin ConfigPCs

\* A drive that stays on is configured in the end, or the repairs are used up.
DriveConfigured == []<>(done \/ drive = "off" \/ cfg_try > Repairs)

----------------------------------------------------------------------------
(* The promise of the program: with a steady and prompt drive, CanConfig    *)
(* implements DriveSetup.                                                   *)

phase ==
    IF \E t \in Threads : pc[t] = "nmt" THEN "complete"
    ELSE IF \E t \in Threads : pc[t] \in {"param", "cfg_take", "cfg_wait", "cfg_done"}
         THEN "writing" ELSE "idle"

Setup == INSTANCE DriveSetup WITH written <- acked, operating <- done

\* Whatever start, boot-up and repair threads do with the one slave_conf, seen
\* from outside it is one configuration after another, each write acknowledged
\* after the one before, and the drive operates after the last; a drive that
\* operates is not configured again.
SetupSpec == Setup!Spec
============================================================================
