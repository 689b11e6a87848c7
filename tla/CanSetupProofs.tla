-------------------------- MODULE CanSetupProofs --------------------------
(***************************************************************************)
(* The threads of CanConfig implement the one configuration of DriveSetup, *)
(* for any number of threads, steps, attempts, repairs and boot-ups, under *)
(* the assumptions of CanConfigProofs.                                     *)
(***************************************************************************)
EXTENDS CanConfigProofs

\* Where a thread has the control word written.
SetupPCs == {"configure", "param", "cfg_take", "cfg_wait", "cfg_done", "nmt"}

\* A drive that has answered is on, and stays on until the thread that
\* configures it has done with it.
Powered ==
    /\ answers # <<>> \/ line.state = "finished" => drive # "off"
    /\ \A t \in Threads : pc[t] \in SetupPCs => drive # "off"

\* Nobody configures a drive that operates, and no repair thread is about to.
Untouched ==
    done => /\ drive = "op"
            /\ \A t \in Threads : /\ ~Running(t)
                                  /\ pc[t] = "poll" => NMTable # "pre"

\* The writes before the one under way are the ones acknowledged, no more.
InOrder == Busy("step") => acked = 0..step - 1

SetupInv == Powered /\ Untouched /\ InOrder

\* What a configuring thread's place shows of the configuration.
Shows(place) ==
    CASE place = "nmt" -> "complete"
      [] place \in {"param", "cfg_take", "cfg_wait", "cfg_done"} -> "writing"
      [] OTHER -> "idle"

----------------------------------------------------------------------------
(* The threads' places                                                      *)

\* A step of thread t: only a boot-up's thread or a repair thread begins to
\* configure, only a configuring thread begins a repair, and only three actions
\* show.
Goes(t) ==
    /\ \A u \in Threads : u # t =>
         pc'[u] = pc[u] \/ (pc[u] = "none" /\ pc'[u] = "poll" /\ Running(t))
    /\ pc'[t] \in SetupPCs => pc[t] \in SetupPCs \/ line.state = "finished"
    /\ pc'[t] = "poll" => pc[t] = "poll" \/ Running(t)
    /\ Running(t)' => Running(t) \/ (pc[t] = "poll" /\ NMTable = "pre")
    /\ Configure(t) \/ Finish(t) \/ StartNode(t) \/ Shows(pc'[t]) = Shows(pc[t])

\* A thread that goes from one place to another and starts none.
LEMMA GoesTo ==
  ASSUME TypeOK, NEW t \in Threads, NEW q \in Places,
         pc' = [pc EXCEPT ![t] = q],
         q \in SetupPCs => pc[t] \in SetupPCs \/ line.state = "finished",
         q = "poll" => pc[t] = "poll",
         q \in ConfigPCs /\ q # "boot_ok"
           => Running(t) \/ (pc[t] = "poll" /\ NMTable = "pre"),
         Configure(t) \/ Finish(t) \/ StartNode(t) \/ Shows(q) = Shows(pc[t])
  PROVE  Goes(t)
<1>1. pc'[t] = q /\ \A u \in Threads : u # t => pc'[u] = pc[u]
  BY DEF TypeOK
<1>2. Running(t)' => q \in ConfigPCs /\ q # "boot_ok"
  BY <1>1 DEF Running
<1> QED
  BY <1>1, <1>2 DEF Goes

\* A thread that leaves config_node and may start a repair.
LEMMA GoesToRepair ==
  ASSUME TypeOK, NEW t \in Threads, Running(t),
         Repair([pc EXCEPT ![t] = After(t)]),
         Finish(t) \/ Shows(pc[t]) = "idle"
  PROVE  Goes(t)
<1> DEFINE p == [pc EXCEPT ![t] = After(t)]
<1>1. p[t] \in {"install", "none"} /\ \A u \in Threads : u # t => p[u] = pc[u]
  BY AfterType DEF TypeOK
<1>2. p \in [Threads -> Places]
  BY AfterType DEF TypeOK, Places
<1>3. \/ pc' = p
      \/ \E u \in Threads : p[u] = "none" /\ pc' = [p EXCEPT ![u] = "poll"]
  BY DEF Repair
<1>4. /\ \A u \in Threads : u # t => pc'[u] = pc[u] \/ (pc[u] = "none" /\ pc'[u] = "poll")
      /\ pc'[t] \in {"install", "none", "poll"}
  BY <1>1, <1>2, <1>3
<1>5. pc'[t] \notin SetupPCs \cup ConfigPCs /\ Shows(pc'[t]) = "idle"
  BY <1>4 DEF SetupPCs, ConfigPCs, Shows
<1> QED
  BY <1>4, <1>5 DEF Goes, Running

\* rt_sem_take: the thread goes on, or to sleep.
LEMMA GoesToTake ==
  ASSUME TypeOK, NEW t \in Threads, NEW got, NEW sleep, Take(t, got, sleep)
  PROVE  \E q \in {got, sleep} : pc' = [pc EXCEPT ![t] = q]
  BY DEF Take

\* Every step of a thread goes as Goes says.
LEMMA ThreadGoes ==
  ASSUME IInv, NEW t \in Threads, Thread(t)
  PROVE  Goes(t)
<1> USE DEF IInv
<1>1. ASSUME NEW q \in Places, pc[t] \in ConfigPCs \ WaitPCs, pc[t] # "boot_ok"
      PROVE  Detached([pc EXCEPT ![t] = q]) = [pc EXCEPT ![t] = q]
  BY <1>1, Awake, DetachNobody DEF Running
<1>2. After(t) \in {"install", "none"}
  BY AfterType
<1>3. CASE BeginSync(t)
  <2>1. pc[t] = "cw" /\ pc' = [pc EXCEPT ![t] = "open"]
    BY <1>3 DEF BeginSync
  <2> QED
    BY <1>3, <2>1, GoesTo DEF SetupPCs, ConfigPCs, Places, Shows, Running
<1>4. CASE OpenLine(t)
  <2>1. pc[t] = "open" /\ \E q \in {"open", "take"} : pc' = [pc EXCEPT ![t] = q]
    BY <1>4 DEF OpenLine, TypeOK
  <2> QED
    BY <2>1, GoesTo DEF SetupPCs, ConfigPCs, Places, Shows, Running
<1>5. CASE GiveUpSync(t)
  <2>1. pc[t] = "open" /\ pc' = [pc EXCEPT ![t] = "cw_fail"]
    BY <1>5, <1>1 DEF GiveUpSync, Places, ConfigPCs, WaitPCs
  <2> QED
    BY <2>1, GoesTo DEF SetupPCs, ConfigPCs, Places, Shows, Running
<1>6. CASE TakeSync(t)
  <2>1. pc[t] = "take" /\ \E q \in {"result", "wait"} : pc' = [pc EXCEPT ![t] = q]
    BY <1>6, GoesToTake DEF TakeSync
  <2> QED
    BY <2>1, GoesTo DEF SetupPCs, ConfigPCs, Places, Shows, Running
<1>7. CASE SyncTimeout(t)
  <2>1. pc[t] = "wait" /\ pc' = [pc EXCEPT ![t] = "expired"]
    BY <1>7 DEF SyncTimeout
  <2> QED
    BY <1>7, <2>1, GoesTo DEF SetupPCs, ConfigPCs, Places, Shows, Running
<1>8. CASE CloseLine(t)
  <2>1. pc[t] = "expired" /\ pc' = [pc EXCEPT ![t] = "open"]
    BY <1>8 DEF CloseLine
  <2> QED
    BY <1>8, <2>1, GoesTo DEF SetupPCs, ConfigPCs, Places, Shows, Running
<1>9. CASE SyncResult(t)
  <2>1. pc[t] = "result"
    BY <1>9 DEF SyncResult
  <2>2. \/ line.state = "finished" /\ pc' = [pc EXCEPT ![t] = "configure"]
        \/ pc' = [pc EXCEPT ![t] = "open"]
    BY <1>9, <1>1, <2>1 DEF SyncResult, Places, ConfigPCs, WaitPCs
  <2> QED
    BY <2>1, <2>2, GoesTo DEF SetupPCs, ConfigPCs, Places, Shows, Running
<1>10. CASE AwaitBoot(t)
  <2>1. pc[t] = "cw_fail" /\ pc' = [pc EXCEPT ![t] = "boot_take"]
    BY <1>10 DEF AwaitBoot
  <2> QED
    BY <1>10, <2>1, GoesTo DEF SetupPCs, ConfigPCs, Places, Shows, Running
<1>11. CASE TakeBoot(t)
  <2>1. pc[t] = "boot_take" /\ \E q \in {"boot_ok", "boot_wait"} : pc' = [pc EXCEPT ![t] = q]
    BY <1>11, GoesToTake DEF TakeBoot
  <2> QED
    BY <2>1, GoesTo DEF SetupPCs, ConfigPCs, Places, Shows, Running
<1>12. CASE BootTimeout(t)
  <2>1. pc[t] = "boot_wait" /\ pc' = [pc EXCEPT ![t] = "boot_late"]
    BY <1>12 DEF BootTimeout
  <2> QED
    BY <1>12, <2>1, GoesTo DEF SetupPCs, ConfigPCs, Places, Shows, Running
<1>13. CASE BootLate(t)
  <2>1. pc[t] = "boot_late" /\ Repair([pc EXCEPT ![t] = After(t)])
    BY <1>13, <1>1, <1>2 DEF BootLate, Places, ConfigPCs, WaitPCs
  <2> QED
    BY <2>1, GoesToRepair DEF Running, ConfigPCs, Shows
<1>14. CASE BootOver(t)
  <2>1. pc[t] = "boot_ok" /\ \A u \in Threads : pc[u] \notin WaitPCs
    BY <1>14 DEF BootOver, Alone, WaitPCs, ConfigPCs
  <2>2. waiting = <<>>
    BY <2>1 DEF Sleepers
  <2>3. pc' = [pc EXCEPT ![t] = After(t)]
    BY <1>14, <1>2, <2>2, DetachNobody DEF BootOver, Places
  <2> QED
    BY <1>2, <2>1, <2>3, GoesTo DEF SetupPCs, ConfigPCs, Places, Shows, Running
<1>15. CASE Configure(t)
  <2>1. pc[t] = "configure" /\ pc' = [pc EXCEPT ![t] = "param"]
    BY <1>15 DEF Configure
  <2> QED
    BY <1>15, <2>1, GoesTo DEF SetupPCs, ConfigPCs, Places, Shows, Running
<1>16. CASE FirstParam(t)
  <2>1. pc[t] = "param" /\ Running(t) /\ waiting = <<>>
    BY <1>16, Awake DEF FirstParam, Running, ConfigPCs, WaitPCs
  <2>2. pc' = [pc EXCEPT ![t] = "cfg_take"]
    BY <1>16, <2>1 DEF FirstParam, Param, Release
  <2> QED
    BY <2>1, <2>2, GoesTo DEF SetupPCs, ConfigPCs, Places, Shows, Running
<1>17. CASE TakeFinish(t)
  <2>1. pc[t] = "cfg_take" /\ \E q \in {"cfg_done", "cfg_wait"} : pc' = [pc EXCEPT ![t] = q]
    BY <1>17, GoesToTake DEF TakeFinish
  <2> QED
    BY <2>1, GoesTo DEF SetupPCs, ConfigPCs, Places, Shows, Running
<1>18. CASE Finish(t)
  <2>1. pc[t] = "cfg_done" /\ Running(t)
    BY <1>18 DEF Finish, Running, ConfigPCs
  <2>2. CASE pc' = [pc EXCEPT ![t] = "nmt"]
    BY <1>18, <2>1, <2>2, GoesTo DEF SetupPCs, ConfigPCs, Places, Shows, Running
  <2>3. CASE Repair([pc EXCEPT ![t] = After(t)])
    BY <1>18, <2>1, <2>3, GoesToRepair
  <2> QED
    BY <1>18, <1>1, <1>2, <2>1, <2>2, <2>3 DEF Finish, Places, ConfigPCs, WaitPCs
<1>19. CASE StartNode(t)
  <2>1. pc[t] = "nmt" /\ pc' = [pc EXCEPT ![t] = After(t)]
    BY <1>19 DEF StartNode
  <2> QED
    BY <1>19, <1>2, <2>1, GoesTo DEF SetupPCs, ConfigPCs, Places, Shows, Running
<1>20. CASE PollState(t)
  <2>1. pc[t] = "poll"
    BY <1>20 DEF PollState
  <2>2. \/ pc' = [pc EXCEPT ![t] = "poll"]
        \/ NMTable = "pre" /\ pc' = [pc EXCEPT ![t] = "cw"]
        \/ pc' = [pc EXCEPT ![t] = "none"]
    BY <1>20, <2>1 DEF PollState, TypeOK
  <2> QED
    BY <2>1, <2>2, GoesTo DEF SetupPCs, ConfigPCs, Places, Shows, Running
<1> QED
  BY <1>3, <1>4, <1>5, <1>6, <1>7, <1>8, <1>9, <1>10, <1>11, <1>12, <1>13,
     <1>14, <1>15, <1>16, <1>17, <1>18, <1>19, <1>20 DEF Thread

\* A step of the receive and the timer thread, of the drive or of the start
\* thread's end: sleepers wake, and a boot-up's thread begins.
Stirs(u) ==
    \/ pc'[u] = pc[u]
    \/ pc[u] \in WaitPCs /\ pc'[u] = Woken(pc[u])
    \/ BootUp /\ pc[u] = "none" /\ pc'[u] = "cw"
    \/ pc[u] = "install" /\ pc'[u] = "none"

\* A release wakes a sleeper, and nobody else moves by it.
LEMMA ReleaseStirs ==
  ASSUME IInv, NEW p \in [Threads -> Places], Release(p),
         \A u \in Threads : p[u] = pc[u] \/ (BootUp /\ pc[u] = "none" /\ p[u] = "cw")
  PROVE  \A u \in Threads : Stirs(u)
<1> USE DEF IInv
<1>1. CASE waiting = <<>>
  BY <1>1 DEF Release, Stirs
<1>2. CASE waiting # <<>>
  <2>1. PICK t \in Threads : waiting = <<t>> /\ pc[t] \in WaitPCs
    BY <1>2 DEF Sleepers
  <2>2. Head(waiting) = t
    BY <2>1
  <2>3. pc' = [p EXCEPT ![t] = Woken(p[t])]
    BY <1>2, <2>2 DEF Release
  <2>4. p[t] = pc[t]
    BY <2>1 DEF WaitPCs
  <2> QED
    BY <2>1, <2>3, <2>4 DEF Stirs
<1> QED
  BY <1>1, <1>2

\* The places when it is not a thread of the program that steps.
LEMMA OthersStir ==
  ASSUME IInv, Install \/ Answer \/ Alarm \/ Emergency \/ BootUp \/ GuardAnswer
                 \/ Serve \/ PowerOff \/ UNCHANGED vars
  PROVE  \A u \in Threads : Stirs(u)
<1> USE DEF IInv
<1>1. pc \in [Threads -> Places]
  BY DEF TypeOK, Places
<1>2. ASSUME NEW k, NEW free, Param(k, free, pc) PROVE pc' = pc \/ Release(pc)
  BY <1>2 DEF Param
<1>3. StepFailed => pc' = pc \/ Release(pc)
  BY <1>2 DEF StepFailed
<1>4. CASE Install
  BY <1>1, <1>4, Consts DEF Install, Stirs
<1>5. CASE Answer
  <2>1. pc' = pc \/ Release(pc)
    BY <1>2, <1>3, <1>5 DEF Answer, StepWritten
  <2> QED
    BY <1>1, <2>1, ReleaseStirs DEF Stirs
<1>6. CASE Alarm
  BY <1>1, <1>3, <1>6, ReleaseStirs DEF Alarm, Stirs
<1>7. CASE BootUp
  <2>1. CASE pc' = pc
    BY <2>1 DEF Stirs
  <2>2. CASE \E p \in IF \A u \in Threads : pc[u] # "none" THEN {pc}
                       ELSE {[pc EXCEPT ![u] = "cw"] :
                               u \in {v \in Threads : pc[v] = "none"}} :
                IF waiting = <<>> THEN pc' = p /\ UNCHANGED semaph
                                  ELSE Release(p)
    <3>1. PICK p : /\ p = pc \/ \E u \in Threads : pc[u] = "none" /\ p = [pc EXCEPT ![u] = "cw"]
                   /\ IF waiting = <<>> THEN pc' = p ELSE Release(p)
      BY <2>2
    <3>2. /\ p \in [Threads -> Places]
          /\ \A u \in Threads : p[u] = pc[u] \/ (pc[u] = "none" /\ p[u] = "cw")
      BY <1>1, <3>1 DEF Places, ConfigPCs
    <3> QED
      BY <1>7, <3>1, <3>2, ReleaseStirs DEF Stirs
  <2> QED
    BY <1>7, <2>1, <2>2 DEF BootUp
<1>8. CASE Emergency
  BY <1>8 DEF Emergency, thread, Stirs
<1>9. CASE GuardAnswer
  BY <1>9 DEF GuardAnswer, thread, Stirs
<1>10. CASE Serve
  BY <1>10 DEF Serve, thread, Stirs
<1>11. CASE PowerOff
  BY <1>11 DEF PowerOff, thread, Stirs
<1>12. CASE UNCHANGED vars
  BY <1>12 DEF vars, thread, Stirs
<1> QED
  BY <1>4, <1>5, <1>6, <1>7, <1>8, <1>9, <1>10, <1>11, <1>12

\* Such a step shows nothing, begins no repair, and only a boot-up begins a
\* configuration.
LEMMA StirFacts ==
  ASSUME NEW u \in Threads, Stirs(u)
  PROVE  /\ Shows(pc'[u]) = Shows(pc[u])
         /\ pc'[u] \in SetupPCs => pc[u] \in SetupPCs
         /\ pc'[u] = "poll" => pc[u] = "poll"
         /\ Running(u)' => Running(u) \/ BootUp
<1>1. CASE pc'[u] = pc[u]
  BY <1>1 DEF Running
<1>2. CASE pc[u] \in WaitPCs /\ pc'[u] = Woken(pc[u])
  BY <1>2 DEF WaitPCs, Woken, Shows, SetupPCs, ConfigPCs, Running
<1>3. CASE BootUp /\ pc[u] = "none" /\ pc'[u] = "cw"
  BY <1>3 DEF Shows, SetupPCs
<1>4. CASE pc[u] = "install" /\ pc'[u] = "none"
  BY <1>4 DEF Shows, SetupPCs, ConfigPCs, Running
<1> QED
  BY <1>1, <1>2, <1>3, <1>4 DEF Stirs

----------------------------------------------------------------------------
(* A drive that is configured is on                                         *)

\* No thread switches the drive off, answers for it or finishes its write.
LEMMA ThreadFrame ==
  ASSUME NEW t \in Threads, Thread(t)
  PROVE  /\ UNCHANGED answers /\ (drive' = "off" => drive = "off")
         /\ line'.state = "finished" => line.state = "finished"
<1> USE DEF stack, wire, node, Free
<1>1. ASSUME FirstParam(t)
      PROVE  line'.state = "finished" => line.state = "finished"
  BY <1>1 DEF FirstParam, Param
<1> QED
  BY <1>1 DEF Thread, BeginSync, OpenLine, GiveUpSync, TakeSync, SyncTimeout, CloseLine,
     SyncResult, AwaitBoot, TakeBoot, BootTimeout, BootLate, BootOver, Configure,
     FirstParam, TakeFinish, Finish, StartNode, PollState

\* The control word has to be written first, and nothing cuts the power later.
LEMMA PoweredStep ==
  ASSUME Orderly, IInv, Powered, [Next]_vars
  PROVE  Powered'
<1> USE DEF IInv
<1>1. CASE \E t \in Threads : Thread(t)
  <2>1. PICK t \in Threads : Thread(t)
    BY <1>1
  <2>2. Goes(t)
    BY <2>1, ThreadGoes
  <2>3. \A u \in Threads : pc'[u] \in SetupPCs =>
           pc[u] \in SetupPCs \/ line.state = "finished"
    BY <2>2 DEF Goes, SetupPCs
  <2> QED
    BY <2>1, <2>3, ThreadFrame DEF Powered
<1>2. CASE Answer
  <2>1. drive # "off" /\ drive' = drive
    BY <1>2 DEF Answer, Powered, node
  <2> QED
    BY <2>1 DEF Powered
<1>3. CASE PowerOff
  <2>1. \A u \in Threads : ~Running(u)
    BY <1>3 DEF PowerOff, Orderly, Idle, Running
  <2>2. answers' = <<>> /\ line'.state = "free"
    BY <1>3, <2>1 DEF PowerOff, stack, wire, Transfers, AtRest, Quiet, Free
  <2>3. \A u \in Threads : pc'[u] \notin SetupPCs
    BY <1>3 DEF PowerOff, Orderly, Idle, thread, SetupPCs, ConfigPCs
  <2> QED
    BY <2>2, <2>3 DEF Powered
<1>4. CASE Install \/ Alarm \/ Emergency \/ BootUp \/ GuardAnswer \/ UNCHANGED vars
  <2>1. \A u \in Threads : pc'[u] \in SetupPCs => pc[u] \in SetupPCs
    BY <1>4, OthersStir, StirFacts
  <2>2. UNCHANGED answers /\ (drive' = "off" => drive = "off")
    BY <1>4 DEF Install, Alarm, Emergency, BootUp, GuardAnswer, vars, stack, wire, node
  <2>3. Alarm => line'.state # "finished"
    BY DEF Alarm, StepFailed, Param, Free
  <2>4. line'.state = "finished" => line.state = "finished"
    BY <1>4, <2>3 DEF Install, Emergency, BootUp, GuardAnswer, vars, stack
  <2> QED
    BY <2>1, <2>2, <2>4 DEF Powered
<1>5. CASE Serve
  <2>1. UNCHANGED <<drive, pc, line>> /\ (answers' # answers => drive # "off")
    BY <1>5 DEF Serve, node, thread
  <2> QED
    BY <2>1 DEF Powered
<1> QED
  BY <1>1, <1>2, <1>3, <1>4, <1>5 DEF Next

----------------------------------------------------------------------------
(* A drive that operates is left alone                                      *)

\* The thread that starts the drive is the only one that configures, and a
\* repair thread beside it has seen the boot-up: it will end.
LEMMA StartNodeUntouched ==
  ASSUME IInv, Powered, NEW t \in Threads, StartNode(t)
  PROVE  Untouched' /\ done'
<1> USE DEF IInv
<1>1. pc[t] = "nmt" /\ Running(t) /\ pc[t] \in ConfigPCs /\ drive # "off"
  BY DEF StartNode, Running, ConfigPCs, Powered, SetupPCs
<1>2. drive' = "op" /\ done' = TRUE /\ NMTable' = NMTable
  BY <1>1 DEF StartNode, TypeOK
<1>3. pc' = [pc EXCEPT ![t] = After(t)]
  BY DEF StartNode
<1>4. pc'[t] \in {"install", "none"} /\ \A u \in Threads : u # t => pc'[u] = pc[u]
  BY <1>3, AfterType DEF TypeOK
<1>5. ASSUME NEW u \in Threads PROVE ~Running(u)'
  BY <1>1, <1>4, OnlyOne DEF Running, ConfigPCs
<1>6. ASSUME NEW u \in Threads, pc'[u] = "poll" PROVE NMTable' # "pre"
  <2>1. u # t /\ pc[u] = "poll"
    BY <1>4, <1>6
  <2> QED
    BY <1>1, <1>2, <2>1 DEF Pollers
<1> QED
  BY <1>2, <1>5, <1>6 DEF Untouched

\* With the drive operating a thread can only leave config_node after a
\* boot-up, or look at the state of the drive and not find it to configure.
LEMMA UntouchedStep ==
  ASSUME Orderly, IInv, Powered, Untouched, [Next]_vars
  PROVE  Untouched'
<1> USE DEF IInv
<1>1. CASE \E t \in Threads : Thread(t)
  <2>1. PICK t \in Threads : Thread(t)
    BY <1>1
  <2>2. CASE StartNode(t)
    BY <2>2, StartNodeUntouched
  <2>3. CASE ~StartNode(t)
    <3> SUFFICES ASSUME done' PROVE Untouched'
      BY DEF Untouched
    <3>1. UNCHANGED done /\ UNCHANGED boots
      BY <2>1, <2>3 DEF Thread, BeginSync, OpenLine, GiveUpSync, TakeSync, SyncTimeout,
         CloseLine, SyncResult, AwaitBoot, TakeBoot, BootTimeout, BootLate, BootOver,
         Configure, FirstParam, TakeFinish, Finish, PollState, node
    <3>2. /\ drive = "op" /\ \A u \in Threads : ~Running(u)
          /\ \A u \in Threads : pc[u] = "poll" => NMTable # "pre"
      BY <3>1 DEF Untouched
    <3>3. pc[t] \in {"boot_ok", "poll"}
      <4>1. ~Running(t)
        BY <3>2
      <4> QED
        BY <2>1, <4>1 DEF Running, ConfigPCs, Thread, BeginSync, OpenLine, GiveUpSync,
           TakeSync, SyncTimeout, CloseLine, SyncResult, AwaitBoot, TakeBoot,
           BootTimeout, BootLate, BootOver, Configure, FirstParam, TakeFinish, Finish,
           StartNode, PollState
    <3>4. UNCHANGED drive /\ (NMTable' = NMTable \/ NMTable' = "unknown")
      <4>1. BootOver(t) \/ PollState(t)
        BY <2>1, <3>3 DEF Thread, BeginSync, OpenLine, GiveUpSync, TakeSync,
           SyncTimeout, CloseLine, SyncResult, AwaitBoot, TakeBoot, BootTimeout,
           BootLate, Configure, FirstParam, TakeFinish, Finish, StartNode
      <4> QED
        BY <3>2, <4>1 DEF BootOver, PollState, node
    <3>5. Goes(t)
      BY <2>1, ThreadGoes
    <3>6. \A u \in Threads : u # t => pc'[u] = pc[u]
      BY <3>2, <3>5 DEF Goes
    <3>7. ~Running(t)' /\ (pc'[t] = "poll" => pc[t] = "poll")
      BY <3>2, <3>5 DEF Goes
    <3> QED
      BY <3>2, <3>4, <3>6, <3>7 DEF Untouched, Running
  <2> QED
    BY <2>2, <2>3
<1>2. CASE PowerOff
  BY <1>2 DEF PowerOff, Untouched
<1>3. CASE Install \/ Answer \/ Alarm \/ Emergency \/ BootUp \/ GuardAnswer \/ Serve
             \/ UNCHANGED vars
  <2> SUFFICES ASSUME done' PROVE Untouched'
    BY DEF Untouched
  <2>1. UNCHANGED done
    BY <1>3 DEF Install, Answer, Alarm, Emergency, BootUp, GuardAnswer, Serve, vars, node
  <2>2. /\ drive = "op" /\ \A u \in Threads : ~Running(u)
        /\ \A u \in Threads : pc[u] = "poll" => NMTable # "pre"
    BY <2>1 DEF Untouched
  <2>3. ~BootUp
    BY <2>2 DEF BootUp
  <2>4. UNCHANGED drive /\ (NMTable' = NMTable \/ NMTable' = "op")
    BY <1>3, <2>2, <2>3 DEF Install, Answer, Alarm, Emergency, GuardAnswer, Serve, vars, node
  <2>5. \A u \in Threads : ~Running(u)' /\ (pc'[u] = "poll" => pc[u] = "poll")
    BY <1>3, <2>2, <2>3, OthersStir, StirFacts
  <2> QED
    BY <2>2, <2>4, <2>5 DEF Untouched
<1> QED
  BY <1>1, <1>2, <1>3 DEF Next

----------------------------------------------------------------------------
(* The writes are acknowledged in order                                     *)

\* config_node_param for entry k puts nothing but entry k on the line.
LEMMA ParamInOrder ==
  ASSUME NEW k, NEW free, NEW p, Param(k, free, p), acked' = 0..k - 1,
         ~free => ~Busy("step")
  PROVE  InOrder'
<1>1. CASE line' = [state |-> "busy", cb |-> "step"] /\ step' = k
  BY <1>1 DEF InOrder
<1>2. CASE line' = IF free THEN Free ELSE line
  BY <1>2 DEF InOrder, Busy, Free
<1> QED
  BY <1>1, <1>2 DEF Param

\* The transfer that an answer or an alarm is for: the one after those
\* acknowledged, and its answer acknowledges it.
LEMMA OpenTransfer ==
  ASSUME IInv, InOrder, line.state = "busy", line.cb = "step"
  PROVE  /\ Busy("step") /\ Carries(step) /\ step \in 0..Steps - 1
         /\ acked = 0..step - 1
         /\ \E t \in Threads : pc[t] \in {"cfg_take", "cfg_wait"}
<1> USE DEF IInv
<1>1. PICK t \in Threads : Running(t) /\ pc[t] \in TransferPCs /\ Place(pc[t])
  BY Owner DEF AtRest, Free
<1>2. pc[t] \in {"cfg_take", "cfg_wait"}
  BY <1>1 DEF Place, TransferPCs, SyncLine, Busy
<1>3. Busy("step") /\ Carries(step) /\ step < Steps
  BY <1>1, <1>2 DEF Place, StepLine, AtRest, Free
<1> QED
  BY <1>2, <1>3, Consts DEF InOrder, TypeOK

\* A failed write leaves the order as it is.
LEMMA FailedInOrder ==
  ASSUME InOrder, Busy("step"), StepFailed
  PROVE  InOrder'
<1>1. acked = 0..step - 1 /\ acked' = acked
  BY DEF InOrder, StepFailed
<1>2. CASE try_cnt + 1 < Tries
  BY <1>1, <1>2, ParamInOrder DEF StepFailed
<1>3. CASE ~(try_cnt + 1 < Tries)
  BY <1>3 DEF StepFailed, InOrder, Busy, Free
<1> QED
  BY <1>2, <1>3

\* What an answer acknowledges is the write under way, if anything.
LEMMA AnswerFacts ==
  ASSUME IInv, InOrder, Answer
  PROVE  /\ InOrder'
         /\ \/ UNCHANGED acked
            \/ /\ step \in 0..Steps - 1 /\ acked = 0..step - 1 /\ acked' = 0..step
               /\ \E t \in Threads : pc[t] \in {"cfg_take", "cfg_wait"}
<1>1. CASE line.state = "busy" /\ line.cb = "step"
  <2>1. /\ Busy("step") /\ Carries(step) /\ step \in 0..Steps - 1
        /\ acked = 0..step - 1
        /\ \E t \in Threads : pc[t] \in {"cfg_take", "cfg_wait"}
    BY <1>1, OpenTransfer
  <2>2. Head(answers).for = step
    BY <2>1 DEF Answer, Carries, Quiet
  <2>3. CASE Head(answers).ok
    <3>1. acked' = acked \cup ({step} \cap AllSteps) /\ Param(step + 1, TRUE, pc)
      BY <1>1, <2>2, <2>3 DEF Answer, StepWritten
    <3>2. acked' = 0..step
      BY <2>1, <3>1, Consts
    <3>3. acked' = 0..(step + 1) - 1
      BY <2>1, <3>2, Consts
    <3>4. InOrder'
      BY <3>1, <3>3, ParamInOrder
    <3> QED
      BY <2>1, <3>2, <3>4
  <2>4. CASE ~Head(answers).ok
    <3>1. StepFailed
      BY <1>1, <2>4 DEF Answer
    <3> QED
      BY <2>1, <3>1, FailedInOrder DEF StepFailed
  <2> QED
    BY <2>3, <2>4
<1>2. CASE line.state = "busy" /\ line.cb = "sync"
  BY <1>2 DEF Answer, InOrder, Busy
<1>3. CASE line.state # "busy"
  BY <1>3 DEF Answer, InOrder, Busy, Free, conf
<1>4. line.state # "busy" \/ line.cb \in {"step", "sync"}
  BY DEF Answer
<1> QED
  BY <1>1, <1>2, <1>3, <1>4

\* Every step keeps the order of the writes.
LEMMA InOrderStep ==
  ASSUME IInv, InOrder, [Next]_vars
  PROVE  InOrder'
<1> USE DEF IInv
<1>1. ASSUME NEW t \in Threads, Thread(t), ~Configure(t), ~FirstParam(t)
      PROVE  InOrder'
  <2>1. UNCHANGED <<step, acked>> /\ (line' = line \/ line' = Free \/ line'.cb = "sync")
    BY <1>1 DEF Thread, BeginSync, OpenLine, GiveUpSync, TakeSync, SyncTimeout, CloseLine,
       SyncResult, AwaitBoot, TakeBoot, BootTimeout, BootLate, BootOver, TakeFinish, Finish,
       StartNode, PollState, conf, stack
  <2> QED
    BY <2>1 DEF InOrder, Busy, Free
<1>2. ASSUME NEW t \in Threads, Configure(t)
      PROVE  InOrder'
  <2>1. AtRest
    BY <1>2, Here DEF Configure, Running, ConfigPCs, Place, TransferPCs
  <2> QED
    BY <1>2, <2>1 DEF Configure, stack, AtRest, Free, InOrder, Busy
<1>3. ASSUME NEW t \in Threads, FirstParam(t)
      PROVE  InOrder'
  <2>1. step = 0 /\ acked = {} /\ AtRest
    BY <1>3, Here DEF FirstParam, Running, ConfigPCs, Place, TransferPCs
  <2>2. acked' = 0..step - 1
    BY <1>3, <2>1 DEF FirstParam
  <2> QED
    BY <1>3, <2>1, <2>2, ParamInOrder DEF FirstParam, AtRest
<1>4. CASE Answer
  BY <1>4, AnswerFacts
<1>5. CASE Alarm
  BY <1>5, OpenTransfer, FailedInOrder DEF Alarm
<1>6. CASE Install \/ Emergency \/ BootUp \/ GuardAnswer \/ Serve \/ PowerOff
             \/ UNCHANGED vars
  <2>1. UNCHANGED <<line, step, acked>>
    BY <1>6 DEF Install, Emergency, BootUp, GuardAnswer, Serve, PowerOff, vars, conf, stack
  <2> QED
    BY <2>1 DEF InOrder, Busy
<1> QED
  BY <1>1, <1>2, <1>3, <1>4, <1>5, <1>6 DEF Next

----------------------------------------------------------------------------
(* The simulation                                                           *)

\* phase in terms of what the places show.
LEMMA PhaseShows ==
  phase = IF \E t \in Threads : Shows(pc[t]) = "complete" THEN "complete"
          ELSE IF \E t \in Threads : Shows(pc[t]) = "writing" THEN "writing"
          ELSE "idle"
<1>1. \A t \in Threads : /\ Shows(pc[t]) = "complete" <=> pc[t] = "nmt"
                         /\ Shows(pc[t]) = "writing" <=>
                              pc[t] \in {"param", "cfg_take", "cfg_wait", "cfg_done"}
  BY DEF Shows
<1> QED
  BY <1>1 DEF phase

\* A step that changes what no place shows changes no phase.
LEMMA SamePhase ==
  ASSUME \A t \in Threads : Shows(pc'[t]) = Shows(pc[t])
  PROVE  phase' = phase
<1>1. phase' = IF \E t \in Threads : Shows(pc'[t]) = "complete" THEN "complete"
               ELSE IF \E t \in Threads : Shows(pc'[t]) = "writing" THEN "writing"
               ELSE "idle"
  <2>1. \A t \in Threads : /\ Shows(pc'[t]) = "complete" <=> pc'[t] = "nmt"
                           /\ Shows(pc'[t]) = "writing" <=>
                                pc'[t] \in {"param", "cfg_take", "cfg_wait", "cfg_done"}
    BY DEF Shows
  <2> QED
    BY <2>1 DEF phase
<1> QED
  BY <1>1, PhaseShows

\* The one thread that configures shows the phase.
LEMMA ThreadShows ==
  ASSUME IInv, NEW t \in Threads, Running(t)
  PROVE  /\ phase = Shows(pc[t])
         /\ Goes(t) => phase' = Shows(pc'[t])
<1> USE DEF IInv
<1>1. ASSUME NEW place PROVE Shows(place) \in {"complete", "writing", "idle"}
  BY DEF Shows
<1>2. \A u \in Threads : u # t => pc[u] \notin ConfigPCs \/ pc[u] = "boot_ok"
  BY OnlyOne DEF Running
<1>3. \A u \in Threads : u # t => Shows(pc[u]) = "idle"
  BY <1>2 DEF Shows, ConfigPCs
<1>4. phase = Shows(pc[t])
  <2>1. Shows(pc[t]) \in {"complete", "writing", "idle"}
    BY <1>1
  <2> QED
    BY <1>3, <2>1, PhaseShows
<1>5. ASSUME Goes(t) PROVE phase' = Shows(pc'[t])
  <2>1. \A u \in Threads : u # t => pc'[u] = pc[u] \/ pc'[u] = "poll"
    BY <1>5 DEF Goes
  <2>2. \A u \in Threads : u # t =>
          pc'[u] # "nmt" /\ pc'[u] \notin {"param", "cfg_take", "cfg_wait", "cfg_done"}
    BY <1>2, <2>1 DEF ConfigPCs
  <2>3. CASE pc'[t] = "nmt"
    BY <2>3 DEF phase, Shows
  <2>4. CASE pc'[t] \in {"param", "cfg_take", "cfg_wait", "cfg_done"}
    BY <2>2, <2>4 DEF phase, Shows
  <2>5. CASE pc'[t] # "nmt" /\ pc'[t] \notin {"param", "cfg_take", "cfg_wait", "cfg_done"}
    BY <2>2, <2>5 DEF phase, Shows
  <2> QED
    BY <2>3, <2>4, <2>5
<1> QED
  BY <1>4, <1>5

\* The thread past the control word begins a configuration.
LEMMA ConfigureBegins ==
  ASSUME IInv, SetupInv, NEW t \in Threads, Configure(t)
  PROVE  Setup!Begin
<1>1. pc[t] = "configure" /\ Running(t) /\ Thread(t)
  BY DEF Configure, Running, ConfigPCs, Thread
<1>2. pc'[t] = "param"
  BY DEF Configure, IInv, TypeOK
<1>3. phase = "idle" /\ phase' = "writing"
  BY <1>1, <1>2, ThreadGoes, ThreadShows DEF Shows
<1>4. ~done /\ done' = done /\ acked' = {}
  BY <1>1 DEF SetupInv, Untouched, Configure, node, IInv, TypeOK
<1> QED
  BY <1>3, <1>4 DEF Setup!Begin

\* A last release without an error completes it, any other gives it up.
LEMMA FinishEnds ==
  ASSUME IInv, NEW t \in Threads, Finish(t)
  PROVE  Setup!Complete \/ Setup!Abandon
<1> USE DEF IInv
<1>1. pc[t] = "cfg_done" /\ Running(t) /\ Thread(t)
  BY DEF Finish, Running, ConfigPCs, Thread
<1>2. waiting = <<>> /\ (err_code = "ok" => acked = AllSteps)
  BY <1>1, Here, Awake DEF Place, WaitPCs
<1>3. phase = "writing" /\ phase' = Shows(pc'[t])
  BY <1>1, ThreadGoes, ThreadShows DEF Shows
<1>4. UNCHANGED <<acked, done>>
  BY DEF Finish, node
<1>5. CASE err_code = "ok"
  <2>1. pc' = [pc EXCEPT ![t] = "nmt"]
    BY <1>2, <1>5, DetachNobody DEF Finish, Places, ConfigPCs
  <2>2. phase' = "complete"
    BY <1>3, <2>1 DEF TypeOK, Shows
  <2>3. acked = 0..Steps - 1
    BY <1>2, <1>5, Consts
  <2> QED
    BY <1>3, <1>4, <2>2, <2>3 DEF Setup!Complete
<1>6. CASE err_code # "ok"
  <2>1. Repair([pc EXCEPT ![t] = After(t)])
    BY <1>2, <1>6, AfterType, DetachNobody DEF Finish, Places
  <2>2. [pc EXCEPT ![t] = After(t)] \in [Threads -> Places]
    BY AfterType DEF TypeOK, Places
  <2>3. pc'[t] \in {After(t), "poll"}
    BY <2>1, <2>2 DEF Repair
  <2>4. phase' = "idle"
    BY <1>3, <2>3, AfterType DEF Shows
  <2> QED
    BY <1>3, <1>4, <2>4 DEF Setup!Abandon
<1> QED
  BY <1>5, <1>6

\* The drive is told to operate, and is on.
LEMMA StartOperates ==
  ASSUME IInv, SetupInv, NEW t \in Threads, StartNode(t)
  PROVE  Setup!Operate
<1>1. pc[t] = "nmt" /\ Running(t) /\ Thread(t)
  BY DEF StartNode, Running, ConfigPCs, Thread
<1>2. pc'[t] \in {"install", "none"}
  BY AfterType DEF StartNode, IInv, TypeOK
<1>3. phase = "complete" /\ phase' = "idle"
  BY <1>1, <1>2, ThreadGoes, ThreadShows DEF Shows
<1>4. done' = TRUE /\ acked' = acked
  BY <1>1 DEF StartNode, SetupInv, Powered, SetupPCs
<1> QED
  BY <1>3, <1>4 DEF Setup!Operate

\* Every other step of a thread shows nothing.
LEMMA ThreadStutters ==
  ASSUME IInv, NEW t \in Threads, Thread(t), ~Configure(t), ~Finish(t), ~StartNode(t)
  PROVE  UNCHANGED <<phase, acked, done>>
<1>1. Goes(t)
  BY ThreadGoes
<1>2. \A u \in Threads : Shows(pc'[u]) = Shows(pc[u])
  <2>1. \A u \in Threads : u # t => pc'[u] = pc[u] \/ (pc[u] = "none" /\ pc'[u] = "poll")
    BY <1>1 DEF Goes
  <2>2. Shows("none") = Shows("poll")
    BY DEF Shows
  <2> QED
    BY <1>1, <2>1, <2>2 DEF Goes
<1>3. UNCHANGED <<acked, done>>
  BY DEF Thread, BeginSync, OpenLine, GiveUpSync, TakeSync, SyncTimeout, CloseLine,
     SyncResult, AwaitBoot, TakeBoot, BootTimeout, BootLate, BootOver, FirstParam,
     TakeFinish, PollState, node
<1> QED
  BY <1>2, <1>3, SamePhase

\* An answer writes the next step, or shows nothing.
LEMMA AnswerWrites ==
  ASSUME IInv, SetupInv, Answer
  PROVE  Setup!Write \/ UNCHANGED <<phase, acked, done>>
<1>1. phase' = phase /\ done' = done
  BY OthersStir, StirFacts, SamePhase DEF Answer, node
<1>2. ASSUME NEW t \in Threads, pc[t] \in {"cfg_take", "cfg_wait"}
      PROVE  phase = "writing"
  BY <1>2, ThreadShows DEF Running, ConfigPCs, Shows
<1> QED
  BY <1>1, <1>2, AnswerFacts DEF SetupInv, Setup!Write

\* A drive loses its power only while nobody configures it.
LEMMA PowerLost ==
  ASSUME Orderly, IInv, PowerOff
  PROVE  Setup!PowerLoss \/ UNCHANGED <<phase, acked, done>>
<1>1. \A t \in Threads : pc[t] \notin ConfigPCs
  BY DEF PowerOff, Orderly, Idle
<1>2. phase = "idle"
  BY <1>1 DEF phase, ConfigPCs
<1>3. phase' = phase
  BY OthersStir, StirFacts, SamePhase
<1>4. done' = FALSE /\ acked' = acked /\ done \in BOOLEAN
  BY DEF PowerOff, IInv, TypeOK
<1> QED
  BY <1>2, <1>3, <1>4 DEF Setup!PowerLoss

\* Every step is a step of the abstract configuration, or shows nothing.
LEMMA Simulates ==
  ASSUME Orderly, IInv, SetupInv, [Next]_vars
  PROVE  [Setup!Next]_Setup!vars
<1>1. ASSUME UNCHANGED <<phase, acked, done>> PROVE [Setup!Next]_Setup!vars
  BY <1>1 DEF Setup!vars
<1>2. ASSUME NEW t \in Threads, Thread(t) PROVE [Setup!Next]_Setup!vars
  BY <1>1, <1>2, ConfigureBegins, FinishEnds, StartOperates, ThreadStutters
     DEF Setup!Next
<1>3. CASE Answer
  BY <1>1, <1>3, AnswerWrites DEF Setup!Next
<1>4. CASE PowerOff
  BY <1>1, <1>4, PowerLost DEF Setup!Next
<1>5. CASE Install \/ Alarm \/ Emergency \/ BootUp \/ GuardAnswer \/ Serve
             \/ UNCHANGED vars
  <2>1. phase' = phase
    BY <1>5, OthersStir, StirFacts, SamePhase
  <2>2. UNCHANGED <<acked, done>>
    BY <1>5 DEF Install, Alarm, StepFailed, Emergency, BootUp, GuardAnswer, Serve, vars, node
  <2> QED
    BY <1>1, <2>1, <2>2
<1> QED
  BY <1>2, <1>3, <1>4, <1>5 DEF Next

\* At the start the first thread has written nothing.
LEMMA SetupStart == Init => SetupInv /\ Setup!Init
<1> SUFFICES ASSUME Init PROVE SetupInv /\ Setup!Init
  OBVIOUS
<1>1. \A t \in Threads : pc[t] = IF t = Start THEN "cw" ELSE "none"
  BY DEF Init
<1>2. SetupInv
  BY <1>1 DEF Init, SetupInv, Powered, Untouched, InOrder, Busy, SetupPCs, Free
<1>3. phase = "idle"
  BY <1>1 DEF phase
<1> QED
  BY <1>2, <1>3 DEF Init, Setup!Init

\* config_node, run by any number of threads over one slave_conf, with its
\* retries, repairs and boot-ups, is seen from outside as one configuration after
\* another: each write acknowledged after the one before it, the drive told to
\* operate after the last, and a drive that operates not configured again.
THEOREM ImplementsSetup ==
  ASSUME Orderly
  PROVE  Spec => SetupSpec
<1>1. IInv /\ SetupInv /\ [Next]_vars => SetupInv'
  BY PoweredStep, UntouchedStep, InOrderStep DEF SetupInv
<1>2. IInv /\ SetupInv /\ [Next]_vars => [Setup!Next]_Setup!vars
  BY Simulates
<1>3. Spec => []IInv
  BY ConfigInvariant
<1> QED
  BY <1>1, <1>2, <1>3, SetupStart, PTL DEF Spec, SetupSpec, Setup!Spec
============================================================================
