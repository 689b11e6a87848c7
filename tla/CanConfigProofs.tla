-------------------------- MODULE CanConfigProofs --------------------------
(***************************************************************************)
(* For any number of threads, steps, attempts, repairs and boot-ups: with  *)
(* a drive that answers in time and keeps its power while it is being      *)
(* configured, configurations never overlap, so that no thread loses the   *)
(* semaphore it sleeps on and no drive is started half configured.         *)
(***************************************************************************)
EXTENDS CanConfig, TLAPS

\* A drive that answers in time and keeps its power while it is configured,
\* on a bus that forgets a frame nobody has acknowledged.
Orderly == Steady /\ Prompt /\ ~Repeats

\* A thread that a boot-up has woken is about to leave config_node.
Running(t) == pc[t] \in ConfigPCs /\ pc[t] # "boot_ok"
\* The places where a write may be under way.
TransferPCs == {"take", "wait", "expired", "result", "cfg_take", "cfg_wait"}

Quiet == requests = <<>> /\ answers = <<>>
Busy(cb) == line = [state |-> "busy", cb |-> cb]
AtRest == line = Free /\ Quiet

\* At most one frame is under way, and it is about entry k.
Carries(k) ==
    \/ Quiet
    \/ requests = <<k>> /\ answers = <<>>
    \/ requests = <<>> /\ \E ok \in BOOLEAN : answers = <<[for |-> k, ok |-> ok]>>

----------------------------------------------------------------------------
(* The inductive invariant                                                  *)

\* One thread at a time configures, and while one leaves after a boot-up, the
\* thread of the boot-up has not begun.
Alone ==
    /\ \A t, u \in Threads : Running(t) /\ Running(u) => t = u
    /\ \A t, u \in Threads :
         t # u /\ pc[t] = "boot_ok" => pc[u] \notin ConfigPCs \ {"cw"}

\* A repair thread beside a configuring one, or beside another, has seen the
\* drive boot: it will end without configuring, as no request for the state
\* of the drive is under way that could change what it sees.
Pollers ==
    /\ \A t, u \in Threads :
         t # u /\ pc[u] = "poll" /\ pc[t] \in ConfigPCs \cup {"poll"}
           => NMTable = "init" /\ ~guard
    /\ drive = "off" => ~guard

\* The list of finish_sem is the thread that sleeps on it.
Sleepers ==
    /\ \A t \in Threads : pc[t] \in WaitPCs => waiting = <<t>>
    /\ waiting # <<>> =>
         \E t \in Threads : waiting = <<t>> /\ pc[t] \in WaitPCs

\* The write of the control word: the answer that releases the semaphore is
\* the last thing that happens on the line.
SyncLine ==
    \/ Busy("sync") /\ Carries(CW) /\ sem = 0
    \/ /\ line.state \in {"finished", "aborted"} /\ line.cb = "sync"
       /\ Quiet /\ sem <= 1

\* The steps: those before the one under way are acknowledged, all of them
\* when the last release came with no error.
StepLine ==
    \/ /\ Busy("step") /\ Carries(step) /\ sem = 0
       /\ step < Steps /\ 0..step - 1 \subseteq acked
    \/ AtRest /\ (err_code = "ok" => acked = AllSteps)

\* What holds on the line and of the semaphore while a thread is at q.
Place(q) ==
    /\ q \notin TransferPCs => AtRest
    /\ q \in {"open", "wait", "expired", "result", "param"} => sem = 0
    /\ q \in {"take", "wait"} => SyncLine
    /\ q \in {"expired", "result"} => Quiet /\ line.cb = "sync"
    /\ q = "param" => step = 0 /\ acked = {}
    /\ q \in {"cfg_take", "cfg_wait"} => StepLine
    /\ q = "cfg_done" => (err_code = "ok" => acked = AllSteps)
    /\ q = "nmt" => acked = AllSteps

Transfers ==
    /\ (\A t \in Threads : ~Running(t)) => AtRest
    /\ \A t \in Threads : Running(t) => Place(pc[t])

IInv == TypeOK /\ Alone /\ Pollers /\ Sleepers /\ Transfers

Places == ConfigPCs \cup {"none", "install", "poll"}

----------------------------------------------------------------------------
(* How a step of the one configuring thread keeps the parts                 *)

\* What ConfigAssumption says; the control word is no step.
LEMMA Consts ==
  /\ Steps \in Nat /\ Steps >= 1 /\ Tries \in Nat /\ Tries >= 1
  /\ Repairs \in Nat /\ BootUps \in Nat /\ Start \in Threads
  /\ CW \notin AllSteps /\ AllSteps = 0..Steps - 1
  BY ConfigAssumption DEF CW, AllSteps

\* No other thread configures beside t.
LEMMA OnlyOne ==
  ASSUME Alone, NEW t \in Threads, Running(t), NEW u \in Threads, u # t
  PROVE  ~Running(u)
  BY DEF Alone

\* While t is awake nobody sleeps on the semaphore.
LEMMA Awake ==
  ASSUME Alone, Sleepers, NEW t \in Threads, Running(t), pc[t] \notin WaitPCs
  PROVE  waiting = <<>>
<1> SUFFICES ASSUME waiting # <<>> PROVE FALSE
  OBVIOUS
<1>1. PICK u \in Threads : pc[u] \in WaitPCs
  BY DEF Sleepers
<1>2. Running(u)
  BY <1>1 DEF Running, WaitPCs, ConfigPCs
<1> QED
  BY <1>1, <1>2 DEF Alone

\* Then a detach resumes nobody.
LEMMA DetachNobody ==
  ASSUME waiting = <<>>, TypeOK, NEW t \in Threads, NEW q \in Places
  PROVE  Detached([pc EXCEPT ![t] = q]) = [pc EXCEPT ![t] = q]
<1>1. DOMAIN waiting = {}
  OBVIOUS
<1>2. [pc EXCEPT ![t] = q] \in [Threads -> Places]
  BY DEF TypeOK, Places
<1> QED
  BY <1>1, <1>2 DEF Detached

\* A step to q of the configuring thread starts no other one.
LEMMA Moves ==
  ASSUME TypeOK, Alone, Pollers, NEW t \in Threads, Running(t),
         pc[t] = "cw" => \A u \in Threads : pc[u] # "boot_ok",
         NEW q \in ConfigPCs \cup {"none", "install"},
         pc' = [pc EXCEPT ![t] = q],
         UNCHANGED <<NMTable, guard>>, drive' = "off" => drive = "off"
  PROVE  Alone' /\ Pollers'
<1>1. pc'[t] = q /\ \A u \in Threads : u # t => pc'[u] = pc[u]
  BY DEF TypeOK
<1>2. Alone'
  <2>1. \A u \in Threads : u # t => ~Running(u) /\ pc[u] # "boot_ok"
    BY OnlyOne DEF Alone, Running
  <2> QED
    BY <1>1, <2>1 DEF Alone, Running
<1>3. q # "poll" /\ pc[t] \in ConfigPCs
  BY DEF ConfigPCs, Running
<1>4. Pollers'
  BY <1>1, <1>3 DEF Pollers
<1> QED
  BY <1>2, <1>4

\* A step that leaves the list empty and its thread awake: config_node between
\* two waits.
LEMMA Wakes ==
  ASSUME TypeOK, Alone, NEW t \in Threads, Running(t), NEW q,
         pc' = [pc EXCEPT ![t] = q], q \notin WaitPCs, waiting' = <<>>
  PROVE  Sleepers'
<1>1. pc'[t] = q /\ \A u \in Threads : u # t => pc'[u] = pc[u]
  BY DEF TypeOK
<1>2. \A u \in Threads : u # t => pc[u] \notin WaitPCs
  BY OnlyOne DEF Running, WaitPCs, ConfigPCs
<1> QED
  BY <1>1, <1>2 DEF Sleepers

\* A step that puts the configuring thread on the list and to sleep: rt_sem_take.
LEMMA Sleeps ==
  ASSUME TypeOK, Alone, NEW t \in Threads, Running(t), NEW q \in WaitPCs,
         pc' = [pc EXCEPT ![t] = q], waiting' = <<t>>
  PROVE  Sleepers'
<1>1. pc'[t] = q /\ \A u \in Threads : u # t => pc'[u] = pc[u]
  BY DEF TypeOK
<1>2. \A u \in Threads : u # t => pc[u] \notin WaitPCs
  BY OnlyOne DEF Running, WaitPCs, ConfigPCs
<1> QED
  BY <1>1, <1>2 DEF Sleepers

\* What holds at the new place of the configuring thread is all there is to show
\* of the line and the semaphore.
LEMMA Placed ==
  ASSUME TypeOK, Alone, NEW t \in Threads, Running(t), NEW q,
         pc' = [pc EXCEPT ![t] = q],
         q \in ConfigPCs => Place(q)', q \notin ConfigPCs => AtRest'
  PROVE  Transfers'
<1>1. pc'[t] = q /\ \A u \in Threads : u # t => pc'[u] = pc[u]
  BY DEF TypeOK
<1>2. \A u \in Threads : u # t => ~Running(u)'
  BY <1>1, OnlyOne DEF Running
<1>3. Running(t)' <=> q \in ConfigPCs /\ q # "boot_ok"
  BY <1>1 DEF Running
<1>4. ASSUME NEW u \in Threads, Running(u)' PROVE Place(pc[u])'
  BY <1>4, <1>1, <1>2, <1>3
<1>5. (\A u \in Threads : ~Running(u)') => AtRest'
  BY <1>3 DEF Place, TransferPCs
<1> QED
  BY <1>4, <1>5 DEF Transfers

\* The place of the configuring thread.
LEMMA Here ==
  ASSUME Transfers, NEW t \in Threads, Running(t)
  PROVE  Place(pc[t])
  BY DEF Transfers

----------------------------------------------------------------------------
(* writeNetworkDictSync                                                     *)

\* The semaphore is initialised while nobody sleeps on it.
LEMMA BeginSyncInv ==
  ASSUME IInv, NEW t \in Threads, BeginSync(t)
  PROVE  IInv'
<1> USE DEF IInv
<1>1. pc[t] = "cw" /\ Running(t) /\ pc' = [pc EXCEPT ![t] = "open"]
  BY DEF BeginSync, Running, ConfigPCs
<1>2. AtRest
  BY <1>1, Here DEF Place, TransferPCs
<1>3. TypeOK'
  BY <1>1, Consts DEF BeginSync, SemInit, TypeOK, conf, stack, node, wire, ConfigPCs
<1>4. Alone' /\ Pollers'
  BY <1>1, Moves DEF BeginSync, node, ConfigPCs
<1>5. Sleepers'
  BY <1>1, Wakes DEF BeginSync, SemInit, WaitPCs
<1>6. Place("open")'
  BY <1>2 DEF BeginSync, SemInit, Place, TransferPCs, stack, wire, AtRest, Quiet, Free
<1>7. Transfers'
  BY <1>1, <1>6, Placed DEF ConfigPCs
<1> QED
  BY <1>3, <1>4, <1>5, <1>7

\* The line is free, so it is taken for the control word, or nothing is sent.
LEMMA OpenLineInv ==
  ASSUME IInv, NEW t \in Threads, OpenLine(t)
  PROVE  IInv'
<1> USE DEF IInv
<1>1. pc[t] = "open" /\ Running(t)
  BY DEF OpenLine, Running, ConfigPCs
<1>2. AtRest /\ sem = 0
  BY <1>1, Here DEF Place, TransferPCs
<1>3. waiting = <<>>
  BY <1>1, Awake DEF WaitPCs
<1>4. left' \in [Threads -> 0..Tries]
  BY Consts DEF OpenLine, TypeOK
<1>5. CASE /\ line' = [state |-> "busy", cb |-> "sync"]
           /\ requests' = Append(requests, CW)
           /\ pc' = [pc EXCEPT ![t] = "take"]
  <2>1. requests' = <<CW>>
    BY <1>5, <1>2 DEF AtRest, Quiet
  <2>2. requests' \in Seq({CW} \cup AllSteps)
    BY <2>1
  <2>3. TypeOK'
    BY <1>5, <1>4, <2>2 DEF OpenLine, TypeOK, conf, semaph, node, ConfigPCs
  <2>4. Alone' /\ Pollers'
    BY <1>1, <1>5, Moves DEF OpenLine, node, ConfigPCs
  <2>5. Sleepers'
    BY <1>1, <1>3, <1>5, Wakes DEF OpenLine, semaph, WaitPCs
  <2>6. Place("take")'
    BY <1>2, <1>5, <2>1
       DEF OpenLine, semaph, Place, TransferPCs, SyncLine, Busy, Carries, AtRest, Quiet
  <2>7. Transfers'
    BY <1>1, <1>5, <2>6, Placed DEF ConfigPCs
  <2> QED
    BY <2>3, <2>4, <2>5, <2>7
<1>6. CASE line' = Free /\ UNCHANGED <<requests, pc>>
  <2>1. pc' = [pc EXCEPT ![t] = "open"]
    BY <1>1, <1>6 DEF TypeOK
  <2>2. TypeOK'
    BY <1>6, <1>4 DEF OpenLine, TypeOK, conf, semaph, node, Free
  <2>3. Alone' /\ Pollers'
    BY <1>1, <2>1, Moves DEF OpenLine, node, ConfigPCs
  <2>4. Sleepers'
    BY <1>1, <1>3, <2>1, Wakes DEF OpenLine, semaph, WaitPCs
  <2>5. Place("open")'
    BY <1>2, <1>6 DEF OpenLine, semaph, Place, TransferPCs, AtRest, Quiet, Free
  <2>6. Transfers'
    BY <1>1, <2>1, <2>5, Placed DEF ConfigPCs
  <2> QED
    BY <2>2, <2>3, <2>4, <2>6
<1> QED
  BY <1>5, <1>6 DEF OpenLine

\* All attempts at the control word are used up: the line is free by then.
LEMMA GiveUpSyncInv ==
  ASSUME IInv, NEW t \in Threads, GiveUpSync(t)
  PROVE  IInv'
<1> USE DEF IInv
<1>1. pc[t] = "open" /\ Running(t)
  BY DEF GiveUpSync, Running, ConfigPCs
<1>2. AtRest /\ waiting = <<>>
  BY <1>1, Here, Awake DEF Place, TransferPCs, WaitPCs
<1>3. pc' = [pc EXCEPT ![t] = "cw_fail"]
  <2>1. "cw_fail" \in Places
    BY DEF Places, ConfigPCs
  <2> QED
    BY <1>2, <2>1, DetachNobody DEF GiveUpSync
<1>4. TypeOK'
  <2>1. pc' \in [Threads -> Places]
    BY <1>3 DEF TypeOK, Places, ConfigPCs
  <2>2. /\ sem' = 0 /\ waiting' = <<>>
        /\ UNCHANGED <<conf, stack, node, ready, cfg_try, left, acked>>
    BY DEF GiveUpSync, SemInit
  <2> QED
    BY <2>1, <2>2 DEF TypeOK, conf, stack, node, wire, Places
<1>5. Alone' /\ Pollers'
  BY <1>1, <1>3, Moves DEF GiveUpSync, node, ConfigPCs
<1>6. Sleepers'
  BY <1>1, <1>3, Wakes DEF GiveUpSync, SemInit, WaitPCs
<1>7. Place("cw_fail")'
  BY <1>2 DEF GiveUpSync, SemInit, Place, TransferPCs, stack, wire, AtRest, Quiet, Free
<1>8. Transfers'
  BY <1>1, <1>3, <1>7, Placed DEF ConfigPCs
<1> QED
  BY <1>4, <1>5, <1>6, <1>8

\* The semaphore holds the release of an answer that has come already, or
\* the thread is put on its list.
LEMMA TakeSyncInv ==
  ASSUME IInv, NEW t \in Threads, TakeSync(t)
  PROVE  IInv'
<1> USE DEF IInv
<1>1. pc[t] = "take" /\ Running(t)
  BY DEF TakeSync, Running, ConfigPCs
<1>2. SyncLine /\ waiting = <<>>
  BY <1>1, Here, Awake DEF Place, TransferPCs, WaitPCs
<1>3. CASE sem > 0
  <2>1. sem' = sem - 1 /\ pc' = [pc EXCEPT ![t] = "result"] /\ waiting' = <<>>
    BY <1>2, <1>3 DEF TakeSync, Take
  <2>2. sem = 1 /\ Quiet /\ line.cb = "sync"
    BY <1>2, <1>3 DEF SyncLine, TypeOK
  <2>3. TypeOK'
    BY <2>1, <2>2 DEF TakeSync, TypeOK, conf, stack, node, wire, ConfigPCs
  <2>4. Alone' /\ Pollers'
    BY <1>1, <2>1, Moves DEF TakeSync, node, ConfigPCs
  <2>5. Sleepers'
    BY <1>1, <2>1, Wakes DEF WaitPCs
  <2>6. Place("result")'
    BY <2>1, <2>2 DEF TakeSync, Place, TransferPCs, stack, wire, Quiet
  <2>7. Transfers'
    BY <1>1, <2>1, <2>6, Placed DEF ConfigPCs
  <2> QED
    BY <2>3, <2>4, <2>5, <2>7
<1>4. CASE ~(sem > 0)
  <2>1. sem = 0 /\ sem' = 0 /\ pc' = [pc EXCEPT ![t] = "wait"] /\ waiting' = <<t>>
    BY <1>2, <1>4 DEF TakeSync, Take, TypeOK
  <2>2. TypeOK'
    BY <2>1 DEF TakeSync, TypeOK, conf, stack, node, wire, ConfigPCs
  <2>3. Alone' /\ Pollers'
    BY <1>1, <2>1, Moves DEF TakeSync, node, ConfigPCs
  <2>4. Sleepers'
    BY <1>1, <2>1, Sleeps DEF WaitPCs
  <2>5. Place("wait")'
    BY <1>2, <2>1
       DEF TakeSync, Place, TransferPCs, stack, wire, SyncLine, Busy, Carries, Quiet
  <2>6. Transfers'
    BY <1>1, <2>1, <2>5, Placed DEF ConfigPCs
  <2> QED
    BY <2>2, <2>3, <2>4, <2>6
<1> QED
  BY <1>3, <1>4

\* A wait that has timed out leaves an empty list.
LEMMA WithoutMe ==
  ASSUME NEW t, waiting = <<t>>
  PROVE  Without(t) = <<>>
<1>1. DOMAIN waiting = {1} /\ waiting[1] = t /\ Len(waiting) = 1
  OBVIOUS
<1>2. (CHOOSE i \in DOMAIN waiting : waiting[i] = t) = 1
  BY <1>1
<1>3. Without(t) = SubSeq(waiting, 1, 0) \o SubSeq(waiting, 2, 1)
  BY <1>1, <1>2 DEF Without
<1> QED
  BY <1>3

\* With a drive that answers in time nothing is under way any more.
LEMMA SyncTimeoutInv ==
  ASSUME Orderly, IInv, NEW t \in Threads, SyncTimeout(t)
  PROVE  IInv'
<1> USE DEF IInv
<1>1. /\ pc[t] = "wait" /\ Running(t)
      /\ pc' = [pc EXCEPT ![t] = "expired"]
  BY DEF SyncTimeout, Running, ConfigPCs
<1>2. sem = 0 /\ Quiet /\ line.cb = "sync"
  BY <1>1, Here DEF Place, SyncTimeout, Silence, Orderly, Quiet, SyncLine, Busy
<1>3. waiting' = <<>>
  BY <1>1, WithoutMe DEF SyncTimeout, Sleepers, WaitPCs
<1>4. TypeOK'
  BY <1>1, <1>3 DEF SyncTimeout, TypeOK, conf, stack, node, wire, ConfigPCs
<1>5. Alone' /\ Pollers'
  BY <1>1, Moves DEF SyncTimeout, node, ConfigPCs
<1>6. Sleepers'
  BY <1>1, <1>3, Wakes DEF WaitPCs
<1>7. Place("expired")'
  BY <1>2 DEF SyncTimeout, Place, TransferPCs, stack, wire, Quiet
<1>8. Transfers'
  BY <1>1, <1>7, Placed DEF ConfigPCs
<1> QED
  BY <1>4, <1>5, <1>6, <1>8

\* After a time-out closeSDOtransfer frees a line nothing is under way on.
LEMMA CloseLineInv ==
  ASSUME IInv, NEW t \in Threads, CloseLine(t)
  PROVE  IInv'
<1> USE DEF IInv
<1>1. pc[t] = "expired" /\ Running(t) /\ pc' = [pc EXCEPT ![t] = "open"]
  BY DEF CloseLine, Running, ConfigPCs
<1>2. sem = 0 /\ Quiet /\ waiting = <<>>
  BY <1>1, Here, Awake DEF Place, WaitPCs
<1>3. TypeOK'
  BY <1>1 DEF CloseLine, TypeOK, conf, semaph, node, wire, ConfigPCs, Free
<1>4. Alone' /\ Pollers'
  BY <1>1, Moves DEF CloseLine, node, ConfigPCs
<1>5. Sleepers'
  BY <1>1, <1>2, Wakes DEF CloseLine, semaph, WaitPCs
<1>6. Place("open")'
  BY <1>2 DEF CloseLine, Place, TransferPCs, wire, semaph, AtRest, Quiet, Free
<1>7. Transfers'
  BY <1>1, <1>6, Placed DEF ConfigPCs
<1> QED
  BY <1>3, <1>4, <1>5, <1>7

\* The result of the control word: the line is closed, with success or not.
LEMMA SyncResultInv ==
  ASSUME IInv, NEW t \in Threads, SyncResult(t)
  PROVE  IInv'
<1> USE DEF IInv
<1>1. pc[t] = "result" /\ Running(t)
  BY DEF SyncResult, Running, ConfigPCs
<1>2. sem = 0 /\ Quiet /\ waiting = <<>>
  BY <1>1, Here, Awake DEF Place, WaitPCs
<1>3. PICK q \in {"configure", "open"} :
        pc' = [pc EXCEPT ![t] = q] /\ sem' = 0 /\ waiting' = <<>>
  <2>1. CASE line.state = "finished"
    <3>1. "configure" \in Places
      BY DEF Places, ConfigPCs
    <3> QED
      BY <1>2, <2>1, <3>1, DetachNobody DEF SyncResult, SemInit
  <2>2. CASE line.state # "finished"
    BY <1>2, <2>2 DEF SyncResult, semaph
  <2> QED
    BY <2>1, <2>2
<1>4. TypeOK'
  BY <1>3 DEF SyncResult, TypeOK, conf, node, wire, ConfigPCs, Free
<1>5. Alone' /\ Pollers'
  BY <1>1, <1>3, Moves DEF SyncResult, node, ConfigPCs
<1>6. Sleepers'
  BY <1>1, <1>3, Wakes DEF WaitPCs
<1>7. Place(q)'
  BY <1>2, <1>3 DEF SyncResult, Place, TransferPCs, wire, AtRest, Quiet, Free
<1>8. Transfers'
  BY <1>1, <1>3, <1>7, Placed DEF ConfigPCs
<1> QED
  BY <1>4, <1>5, <1>6, <1>8

----------------------------------------------------------------------------
(* config_node when the control word could not be written                   *)

\* A thread whose config_node has returned ends, or is the start thread.
LEMMA AfterType == \A t : After(t) \in {"install", "none"}
  BY DEF After

\* config_node without the control word: a new semaphore to wait for a boot-up.
LEMMA AwaitBootInv ==
  ASSUME IInv, NEW t \in Threads, AwaitBoot(t)
  PROVE  IInv'
<1> USE DEF IInv
<1>1. pc[t] = "cw_fail" /\ Running(t) /\ pc' = [pc EXCEPT ![t] = "boot_take"]
  BY DEF AwaitBoot, Running, ConfigPCs
<1>2. AtRest
  BY <1>1, Here DEF Place, TransferPCs
<1>3. TypeOK'
  BY <1>1 DEF AwaitBoot, SemInit, TypeOK, conf, stack, node, wire, ConfigPCs
<1>4. Alone' /\ Pollers'
  BY <1>1, Moves DEF AwaitBoot, node, ConfigPCs
<1>5. Sleepers'
  BY <1>1, Wakes DEF AwaitBoot, SemInit, WaitPCs
<1>6. Place("boot_take")'
  BY <1>2 DEF AwaitBoot, Place, TransferPCs, stack, wire, AtRest, Quiet, Free
<1>7. Transfers'
  BY <1>1, <1>6, Placed DEF ConfigPCs
<1> QED
  BY <1>3, <1>4, <1>5, <1>7

\* The wait for a boot-up: a release is there already, or the thread sleeps.
LEMMA TakeBootInv ==
  ASSUME IInv, NEW t \in Threads, TakeBoot(t)
  PROVE  IInv'
<1> USE DEF IInv
<1>1. pc[t] = "boot_take" /\ Running(t)
  BY DEF TakeBoot, Running, ConfigPCs
<1>2. AtRest /\ waiting = <<>>
  BY <1>1, Here, Awake DEF Place, TransferPCs, WaitPCs
<1>3. PICK q \in {"boot_ok", "boot_wait"} :
        /\ pc' = [pc EXCEPT ![t] = q] /\ sem' \in Nat
        /\ waiting' = IF q = "boot_wait" THEN <<t>> ELSE <<>>
  <2>1. CASE sem > 0
    BY <1>2, <2>1 DEF TakeBoot, Take, TypeOK
  <2>2. CASE ~(sem > 0)
    BY <1>2, <2>2 DEF TakeBoot, Take, TypeOK
  <2> QED
    BY <2>1, <2>2
<1>4. TypeOK'
  <2>1. waiting' \in Seq(Threads)
    BY <1>3
  <2> QED
    BY <1>3, <2>1 DEF TakeBoot, TypeOK, conf, stack, node, wire, ConfigPCs
<1>5. Alone' /\ Pollers'
  BY <1>1, <1>3, Moves DEF TakeBoot, node, ConfigPCs
<1>6. Sleepers'
  BY <1>1, <1>3, Wakes, Sleeps DEF WaitPCs
<1>7. Place(q)'
  BY <1>2 DEF TakeBoot, Place, TransferPCs, stack, wire, AtRest, Quiet, Free
<1>8. Transfers'
  BY <1>1, <1>3, <1>7, Placed DEF ConfigPCs
<1> QED
  BY <1>4, <1>5, <1>6, <1>8

\* No boot-up came.
LEMMA BootTimeoutInv ==
  ASSUME IInv, NEW t \in Threads, BootTimeout(t)
  PROVE  IInv'
<1> USE DEF IInv
<1>1. pc[t] = "boot_wait" /\ Running(t) /\ pc' = [pc EXCEPT ![t] = "boot_late"]
  BY DEF BootTimeout, Running, ConfigPCs
<1>2. AtRest
  BY <1>1, Here DEF Place, TransferPCs
<1>3. waiting' = <<>>
  BY <1>1, WithoutMe DEF BootTimeout, Sleepers, WaitPCs
<1>4. TypeOK'
  BY <1>1, <1>3 DEF BootTimeout, TypeOK, conf, stack, node, wire, ConfigPCs
<1>5. Alone' /\ Pollers'
  BY <1>1, Moves DEF BootTimeout, node, ConfigPCs
<1>6. Sleepers'
  BY <1>1, <1>3, Wakes DEF WaitPCs
<1>7. Place("boot_late")'
  BY <1>2 DEF BootTimeout, Place, TransferPCs, stack, wire, AtRest, Quiet, Free
<1>8. Transfers'
  BY <1>1, <1>7, Placed DEF ConfigPCs
<1> QED
  BY <1>4, <1>5, <1>6, <1>8

\* The configuring thread ends and perhaps leaves a repair thread: if there
\* was one already, that one has seen the drive boot.
LEMMA RepairKeeps ==
  ASSUME TypeOK, Alone, Pollers, NEW t \in Threads, Running(t), pc[t] # "cw",
         Repair([pc EXCEPT ![t] = After(t)]), AtRest', waiting' = <<>>,
         UNCHANGED <<NMTable, guard, drive>>
  PROVE  /\ pc' \in [Threads -> Places] /\ cfg_try' \in Nat
         /\ Alone' /\ Pollers' /\ Sleepers' /\ Transfers'
<1> DEFINE p == [pc EXCEPT ![t] = After(t)]
<1>1. p \in [Threads -> Places] /\ p[t] \in {"install", "none"}
      /\ \A u \in Threads : u # t => p[u] = pc[u] /\ pc[u] \notin ConfigPCs
  BY AfterType, OnlyOne DEF TypeOK, Places, Running, Alone
<1>2. \A u \in Threads : p[u] \notin ConfigPCs
  BY <1>1 DEF Running, ConfigPCs
<1>3. cfg_try' \in Nat
  BY DEF Repair, TypeOK
<1>4. \/ pc' = p
      \/ \E u \in Threads : p[u] = "none" /\ pc' = [p EXCEPT ![u] = "poll"]
  BY DEF Repair
<1>5. pc' \in [Threads -> Places]
  BY <1>1, <1>4 DEF Places
<1>6. \A u \in Threads : pc'[u] \notin ConfigPCs
  <2>1. "poll" \notin ConfigPCs
    BY DEF ConfigPCs
  <2> QED
    BY <1>1, <1>2, <1>4, <2>1
<1>7. Alone' /\ Transfers'
  BY <1>6 DEF Alone, Transfers, Running
<1>8. Sleepers'
  <2>1. WaitPCs \subseteq ConfigPCs
    BY DEF WaitPCs, ConfigPCs
  <2> QED
    BY <1>6, <2>1 DEF Sleepers
<1>9. ASSUME NEW v \in Threads, NEW w \in Threads, v # w, pc'[w] = "poll",
             pc'[v] \in ConfigPCs \cup {"poll"}
      PROVE  NMTable' = "init" /\ ~guard'
  <2>1. pc'[v] = "poll"
    BY <1>6, <1>9
  <2>2. pc[t] \in ConfigPCs
    BY DEF Running
  <2>3. \A u \in Threads : p[u] = "poll" => u # t /\ pc[u] = "poll"
    BY <1>1
  <2>4. CASE pc' = p
    BY <1>9, <2>1, <2>3, <2>4 DEF Pollers
  <2>5. CASE \E u \in Threads : p[u] = "none" /\ pc' = [p EXCEPT ![u] = "poll"]
    <3>1. PICK u \in Threads : p[u] = "none" /\ pc' = [p EXCEPT ![u] = "poll"]
      BY <2>5
    <3>2. PICK x \in {v, w} : x # u
      BY <1>9
    <3>3. pc'[x] = "poll"
      BY <3>2, <2>1, <1>9
    <3>4. p[x] = "poll"
      BY <3>1, <3>2, <3>3, <1>1, <1>9
    <3>5. x \in Threads /\ x # t /\ pc[x] = "poll"
      BY <3>4, <2>3
    <3> QED
      BY <3>5, <2>2 DEF Pollers
  <2> QED
    BY <1>4, <2>4, <2>5
<1>10. Pollers'
  BY <1>9 DEF Pollers
<1> QED
  BY <1>3, <1>5, <1>7, <1>8, <1>10

\* No boot-up came: the detach resumes nobody, and a repair is begun.
LEMMA BootLateInv ==
  ASSUME IInv, NEW t \in Threads, BootLate(t)
  PROVE  IInv'
<1> USE DEF IInv
<1>1. pc[t] = "boot_late" /\ Running(t)
  BY DEF BootLate, Running, ConfigPCs
<1>2. AtRest /\ waiting = <<>>
  BY <1>1, Here, Awake DEF Place, TransferPCs, WaitPCs
<1>3. Repair([pc EXCEPT ![t] = After(t)])
  <2>1. After(t) \in Places
    BY AfterType DEF Places
  <2> QED
    BY <1>2, <2>1, DetachNobody DEF BootLate
<1>4. /\ sem' = 0 /\ waiting' = <<>> /\ err_code' = "no_respond"
      /\ UNCHANGED <<step, try_cnt, stack, node, ready, left, acked>>
  BY DEF BootLate, SemInit
<1>5. AtRest' /\ UNCHANGED <<NMTable, guard, drive>>
  BY <1>2, <1>4 DEF AtRest, Quiet, Free, stack, wire, node
<1>6. /\ pc' \in [Threads -> Places] /\ cfg_try' \in Nat
      /\ Alone' /\ Pollers' /\ Sleepers' /\ Transfers'
  BY <1>1, <1>3, <1>4, <1>5, RepairKeeps
<1>7. TypeOK'
  BY <1>4, <1>6 DEF TypeOK, stack, node, wire, Places
<1> QED
  BY <1>6, <1>7

\* A boot-up came, whose own thread configures.
LEMMA BootOverInv ==
  ASSUME IInv, NEW t \in Threads, BootOver(t)
  PROVE  IInv'
<1> USE DEF IInv
<1>1. pc[t] = "boot_ok" /\ \A u \in Threads : u # t => pc[u] \notin ConfigPCs \ {"cw"}
  BY DEF BootOver, Alone
<1>2. waiting = <<>> /\ \A u \in Threads : pc[u] \notin WaitPCs
  <2>1. \A u \in Threads : pc[u] \notin WaitPCs
    BY <1>1 DEF WaitPCs, ConfigPCs
  <2> QED
    BY <2>1 DEF Sleepers
<1>3. PICK q \in {"install", "none"} : q = After(t)
  BY AfterType
<1>4. /\ pc' = [pc EXCEPT ![t] = q] /\ sem' = 0 /\ waiting' = <<>>
      /\ UNCHANGED <<conf, stack, node, ready, cfg_try, left, acked>>
  BY <1>2, <1>3, DetachNobody DEF BootOver, SemInit, Places
<1>5. TypeOK'
  BY <1>4 DEF TypeOK, conf, stack, node, wire
<1>6. pc'[t] = q /\ \A u \in Threads : u # t => pc'[u] = pc[u]
  BY <1>4 DEF TypeOK
<1>7. q \notin ConfigPCs \cup WaitPCs \cup {"poll"}
  BY DEF ConfigPCs, WaitPCs
<1>8. Alone'
  BY <1>1, <1>6, <1>7 DEF Alone, Running
<1>9. Pollers'
  BY <1>1, <1>4, <1>6, <1>7 DEF Pollers, node
<1>10. Sleepers'
  BY <1>2, <1>4, <1>6, <1>7 DEF Sleepers
<1>11. AtRest /\ AtRest'
  <2>1. ASSUME NEW u \in Threads, Running(u) PROVE AtRest
    BY <1>1, <2>1 DEF Running, Transfers, Place, TransferPCs
  <2>2. AtRest
    BY <2>1 DEF Transfers
  <2> QED
    BY <1>4, <2>2 DEF stack, wire, AtRest, Quiet, Free
<1>12. Transfers'
  <2>1. \A u \in Threads : Running(u)' => pc'[u] = "cw"
    BY <1>1, <1>6, <1>7 DEF Running
  <2>2. Place("cw")'
    BY <1>11 DEF Place
  <2> QED
    BY <1>11, <2>1, <2>2 DEF Transfers
<1> QED
  BY <1>5, <1>8, <1>9, <1>10, <1>12

----------------------------------------------------------------------------
(* The steps of a configuration                                             *)

\* The steps begin with nothing acknowledged and a semaphore of value 0.
LEMMA ConfigureInv ==
  ASSUME IInv, NEW t \in Threads, Configure(t)
  PROVE  IInv'
<1> USE DEF IInv
<1>1. pc[t] = "configure" /\ Running(t) /\ pc' = [pc EXCEPT ![t] = "param"]
  BY DEF Configure, Running, ConfigPCs
<1>2. AtRest
  BY <1>1, Here DEF Place, TransferPCs
<1>3. TypeOK'
  BY <1>1, Consts DEF Configure, SemInit, TypeOK, stack, node, wire, ConfigPCs
<1>4. Alone' /\ Pollers'
  BY <1>1, Moves DEF Configure, node, ConfigPCs
<1>5. Sleepers'
  BY <1>1, Wakes DEF Configure, SemInit, WaitPCs
<1>6. Place("param")'
  BY <1>2 DEF Configure, SemInit, Place, TransferPCs, stack, wire, AtRest, Quiet, Free
<1>7. Transfers'
  BY <1>1, <1>6, Placed DEF ConfigPCs
<1> QED
  BY <1>3, <1>4, <1>5, <1>7

\* The first entry is sent, or the semaphore is released for nobody yet.
LEMMA FirstParamInv ==
  ASSUME IInv, NEW t \in Threads, FirstParam(t)
  PROVE  IInv'
<1> USE DEF IInv
<1>1. pc[t] = "param" /\ Running(t)
  BY DEF FirstParam, Running, ConfigPCs
<1>2. AtRest /\ waiting = <<>> /\ sem = 0 /\ step = 0 /\ acked = {}
  BY <1>1, Here, Awake DEF Place, TransferPCs, WaitPCs
<1>3. /\ UNCHANGED <<try_cnt, answers, node, ready, cfg_try, left, acked>>
      /\ Param(0, TRUE, [pc EXCEPT ![t] = "cfg_take"])
  BY <1>2 DEF FirstParam, AtRest
<1>4. pc' = [pc EXCEPT ![t] = "cfg_take"] /\ waiting' = <<>> /\ StepLine' /\ TypeOK'
  <2>1. CASE /\ line' = [state |-> "busy", cb |-> "step"]
             /\ requests' = Append(requests, 0)
             /\ step' = 0 /\ err_code' = "ok"
             /\ pc' = [pc EXCEPT ![t] = "cfg_take"]
             /\ UNCHANGED semaph
    <3>1. requests' = <<0>> /\ answers' = <<>>
      BY <1>2, <1>3, <2>1 DEF AtRest, Quiet
    <3>2. requests' \in Seq({CW} \cup AllSteps)
      BY <3>1, Consts
    <3>3. StepLine'
      <4>1. Busy("step")' /\ Carries(step)' /\ sem' = 0
        BY <1>2, <2>1, <3>1 DEF Busy, Carries, semaph
      <4>2. step' < Steps /\ 0..step' - 1 = {}
        BY <2>1, Consts
      <4> QED
        BY <4>1, <4>2 DEF StepLine
    <3>4. TypeOK'
      BY <1>3, <2>1, <3>2, Consts DEF TypeOK, semaph, node, ConfigPCs
    <3> QED
      BY <1>2, <2>1, <3>3, <3>4 DEF semaph
  <2>2. CASE /\ line' = Free /\ step' = 0 /\ err_code' = "no_send"
             /\ Release([pc EXCEPT ![t] = "cfg_take"])
             /\ UNCHANGED requests
    <3>1. pc' = [pc EXCEPT ![t] = "cfg_take"] /\ waiting' = <<>> /\ sem' = 1
      BY <1>2, <2>2 DEF Release
    <3>2. StepLine'
      BY <1>2, <1>3, <2>2 DEF StepLine, AtRest, Quiet, Free
    <3>3. TypeOK'
      BY <1>3, <2>2, <3>1, Consts DEF TypeOK, node, ConfigPCs, Free
    <3> QED
      BY <3>1, <3>2, <3>3
  <2> QED
    BY <1>3, <2>1, <2>2, Consts DEF Param
<1>5. Alone' /\ Pollers'
  BY <1>1, <1>3, <1>4, Moves DEF node, ConfigPCs
<1>6. Sleepers'
  BY <1>1, <1>4, Wakes DEF WaitPCs
<1>7. Place("cfg_take")'
  BY <1>4 DEF Place, TransferPCs
<1>8. Transfers'
  BY <1>1, <1>4, <1>7, Placed DEF ConfigPCs
<1> QED
  BY <1>4, <1>5, <1>6, <1>8

\* The end of the steps is there already, or the thread sleeps till it comes.
LEMMA TakeFinishInv ==
  ASSUME IInv, NEW t \in Threads, TakeFinish(t)
  PROVE  IInv'
<1> USE DEF IInv
<1>1. pc[t] = "cfg_take" /\ Running(t)
  BY DEF TakeFinish, Running, ConfigPCs
<1>2. StepLine /\ waiting = <<>>
  BY <1>1, Here, Awake DEF Place, TransferPCs, WaitPCs
<1>3. UNCHANGED <<conf, stack, node, ready, cfg_try, left, acked>>
  BY DEF TakeFinish
<1>4. CASE sem > 0
  <2>1. sem' \in Nat /\ pc' = [pc EXCEPT ![t] = "cfg_done"] /\ waiting' = <<>>
    BY <1>2, <1>4 DEF TakeFinish, Take, TypeOK
  <2>2. AtRest /\ (err_code = "ok" => acked = AllSteps)
    BY <1>2, <1>4 DEF StepLine
  <2>3. TypeOK'
    BY <1>3, <2>1 DEF TypeOK, conf, stack, node, wire, ConfigPCs
  <2>4. Alone' /\ Pollers'
    BY <1>1, <1>3, <2>1, Moves DEF node, ConfigPCs
  <2>5. Sleepers'
    BY <1>1, <2>1, Wakes DEF WaitPCs
  <2>6. Place("cfg_done")'
    BY <1>3, <2>2 DEF Place, TransferPCs, conf, stack, wire, AtRest, Quiet, Free
  <2>7. Transfers'
    BY <1>1, <2>1, <2>6, Placed DEF ConfigPCs
  <2> QED
    BY <2>3, <2>4, <2>5, <2>7
<1>5. CASE ~(sem > 0)
  <2>1. sem' = sem /\ pc' = [pc EXCEPT ![t] = "cfg_wait"] /\ waiting' = <<t>>
    BY <1>2, <1>5 DEF TakeFinish, Take
  <2>2. TypeOK'
    BY <1>3, <2>1 DEF TypeOK, conf, stack, node, wire, ConfigPCs
  <2>3. Alone' /\ Pollers'
    BY <1>1, <1>3, <2>1, Moves DEF node, ConfigPCs
  <2>4. Sleepers'
    BY <1>1, <2>1, Sleeps DEF WaitPCs
  <2>5. Place("cfg_wait")'
    BY <1>2, <1>3, <2>1
       DEF Place, TransferPCs, conf, stack, wire, StepLine, AtRest, Quiet, Free,
           Busy, Carries
  <2>6. Transfers'
    BY <1>1, <2>1, <2>5, Placed DEF ConfigPCs
  <2> QED
    BY <2>2, <2>3, <2>4, <2>6
<1> QED
  BY <1>4, <1>5

\* Only a configuration without an error goes on to start the drive.
LEMMA FinishInv ==
  ASSUME IInv, NEW t \in Threads, Finish(t)
  PROVE  IInv'
<1> USE DEF IInv
<1>1. pc[t] = "cfg_done" /\ Running(t)
  BY DEF Finish, Running, ConfigPCs
<1>2. AtRest /\ waiting = <<>> /\ (err_code = "ok" => acked = AllSteps)
  BY <1>1, Here, Awake DEF Place, TransferPCs, WaitPCs
<1>3. /\ sem' = 0 /\ waiting' = <<>>
      /\ UNCHANGED <<conf, stack, node, ready, left, acked>>
  BY DEF Finish, SemInit
<1>4. AtRest' /\ UNCHANGED <<NMTable, guard, drive>>
  BY <1>2, <1>3 DEF AtRest, Quiet, Free, stack, wire, node
<1>5. CASE err_code = "ok"
  <2>1. pc' = [pc EXCEPT ![t] = "nmt"] /\ UNCHANGED cfg_try
    <3>1. "nmt" \in Places
      BY DEF Places, ConfigPCs
    <3> QED
      BY <1>2, <1>5, <3>1, DetachNobody DEF Finish
  <2>2. TypeOK'
    BY <1>3, <2>1 DEF TypeOK, conf, stack, node, wire, ConfigPCs
  <2>3. Alone' /\ Pollers'
    BY <1>1, <1>4, <2>1, Moves DEF ConfigPCs
  <2>4. Sleepers'
    BY <1>1, <1>3, <2>1, Wakes DEF WaitPCs
  <2>5. Place("nmt")'
    BY <1>2, <1>3, <1>4, <1>5 DEF Place, TransferPCs
  <2>6. Transfers'
    BY <1>1, <2>1, <2>5, Placed DEF ConfigPCs
  <2> QED
    BY <2>2, <2>3, <2>4, <2>6
<1>6. CASE err_code # "ok"
  <2>1. Repair([pc EXCEPT ![t] = After(t)])
    <3>1. After(t) \in Places
      BY AfterType DEF Places
    <3> QED
      BY <1>2, <1>6, <3>1, DetachNobody DEF Finish
  <2>2. /\ pc' \in [Threads -> Places] /\ cfg_try' \in Nat
        /\ Alone' /\ Pollers' /\ Sleepers' /\ Transfers'
    BY <1>1, <1>3, <1>4, <2>1, RepairKeeps
  <2>3. TypeOK'
    BY <1>3, <2>2 DEF TypeOK, conf, stack, node, wire, Places
  <2> QED
    BY <2>2, <2>3
<1> QED
  BY <1>5, <1>6

\* The drive is told to operate and config_node returns.
LEMMA StartNodeInv ==
  ASSUME IInv, NEW t \in Threads, StartNode(t)
  PROVE  IInv'
<1> USE DEF IInv
<1>1. pc[t] = "nmt" /\ Running(t)
  BY DEF StartNode, Running, ConfigPCs
<1>2. AtRest /\ waiting = <<>>
  BY <1>1, Here, Awake DEF Place, TransferPCs, WaitPCs
<1>3. PICK q \in {"install", "none"} : q = After(t)
  BY AfterType
<1>4. /\ pc' = [pc EXCEPT ![t] = q] /\ waiting' = <<>>
      /\ UNCHANGED <<conf, semaph, stack, NMTable, guard, boots, ready, cfg_try,
                     left, acked>>
      /\ drive' \in {"off", "pre", "op"} /\ (drive' = "off" => drive = "off")
      /\ done' \in BOOLEAN
  BY <1>2, <1>3 DEF StartNode, semaph, TypeOK
<1>5. TypeOK'
  BY <1>4 DEF TypeOK, conf, semaph, stack, wire
<1>6. Alone' /\ Pollers'
  BY <1>1, <1>4, Moves
<1>7. Sleepers'
  BY <1>1, <1>4, Wakes DEF WaitPCs
<1>8. q \notin ConfigPCs /\ AtRest'
  BY <1>2, <1>4 DEF ConfigPCs, stack, wire, AtRest, Quiet, Free
<1>9. Transfers'
  BY <1>1, <1>4, <1>8, Placed
<1> QED
  BY <1>5, <1>6, <1>7, <1>9

----------------------------------------------------------------------------
(* Threads that do not configure                                            *)

\* What a step leaves when nothing of a transfer changes.
LEMMA SameTransfers ==
  ASSUME Transfers,
         UNCHANGED <<pc, sem, line, requests, answers, step, err_code, acked>>
  PROVE  Transfers'
  BY DEF Transfers, Running, Place, AtRest, Quiet, Free, SyncLine, StepLine, Busy,
         Carries

\* What a step leaves when no thread moves.
LEMMA SameThreads ==
  ASSUME Alone, Sleepers, UNCHANGED <<pc, waiting>>
  PROVE  Alone' /\ Sleepers'
  BY DEF Alone, Sleepers, Running

\* A thread that does not configure ends.
LEMMA Ends ==
  ASSUME IInv, NEW t \in Threads, pc[t] \in {"install", "poll"},
         pc' = [pc EXCEPT ![t] = "none"],
         UNCHANGED <<sem, waiting, line, requests, answers, step, err_code, acked,
                     NMTable, guard, drive>>
  PROVE  Alone' /\ Pollers' /\ Sleepers' /\ Transfers'
<1> USE DEF IInv
<1>1. pc'[t] = "none" /\ \A u \in Threads : u # t => pc'[u] = pc[u]
  BY DEF TypeOK
<1>2. ~Running(t) /\ ~Running(t)' /\ \A u \in Threads : u # t => (Running(u)' <=> Running(u))
  BY <1>1 DEF Running, ConfigPCs
<1>3. Alone'
  BY <1>1, <1>2 DEF Alone, ConfigPCs
<1>4. Pollers'
  BY <1>1 DEF Pollers, ConfigPCs
<1>5. Sleepers'
  BY <1>1 DEF Sleepers, WaitPCs
<1>6. AtRest => AtRest'
  BY DEF AtRest, Quiet, Free
<1>7. ASSUME NEW u \in Threads, Running(u)' PROVE Place(pc[u])'
  <2>1. u # t /\ Place(pc[u]) /\ pc'[u] = pc[u]
    BY <1>1, <1>2, <1>7 DEF Transfers
  <2> QED
    BY <2>1 DEF Place, AtRest, Quiet, Free, SyncLine, StepLine, Busy, Carries
<1>8. Transfers'
  BY <1>2, <1>6, <1>7 DEF Transfers
<1> QED
  BY <1>3, <1>4, <1>5, <1>8

\* canopen_start_thread_entry sets the boot-up handler and ends.
LEMMA InstallInv ==
  ASSUME IInv, Install
  PROVE  IInv'
<1> USE DEF IInv
<1>1. Start \in Threads
  BY Consts
<1>2. TypeOK'
  BY <1>1 DEF Install, TypeOK, conf, semaph, stack, wire, node
<1>3. Alone' /\ Pollers' /\ Sleepers' /\ Transfers'
  BY <1>1, Ends DEF Install, conf, semaph, stack, wire, node
<1> QED
  BY <1>2, <1>3

\* Nobody configures: the semaphore and the line rest, and a thread may begin.
LEMMA Begins ==
  ASSUME IInv, \A u \in Threads : ~Running(u), NEW t \in Threads,
         pc' = [pc EXCEPT ![t] = "cw"],
         UNCHANGED <<waiting, line, requests, answers>>
  PROVE  Alone' /\ Sleepers' /\ Transfers'
<1> USE DEF IInv
<1>1. pc'[t] = "cw" /\ \A u \in Threads : u # t => pc'[u] = pc[u]
  BY DEF TypeOK
<1>2. \A u \in Threads : u # t => ~Running(u)'
  BY <1>1 DEF Running
<1>3. Alone'
  BY <1>2 DEF Alone
<1>4. waiting = <<>> /\ \A u \in Threads : pc'[u] \notin WaitPCs
  <2>1. \A u \in Threads : pc[u] \notin WaitPCs
    BY DEF Running, WaitPCs, ConfigPCs
  <2>2. "cw" \notin WaitPCs
    BY DEF WaitPCs
  <2> QED
    BY <1>1, <2>1, <2>2 DEF Sleepers
<1>5. Sleepers'
  BY <1>4 DEF Sleepers
<1>6. AtRest'
  BY DEF Transfers, AtRest, Quiet, Free
<1>7. Transfers'
  <2>1. Place("cw")'
    BY <1>6 DEF Place
  <2> QED
    BY <1>1, <1>2, <1>6, <2>1 DEF Transfers
<1> QED
  BY <1>3, <1>5, <1>7

\* A repair thread configures only when it is the only thread there is.
LEMMA PollStateInv ==
  ASSUME Orderly, IInv, NEW t \in Threads, PollState(t)
  PROVE  IInv'
<1> USE DEF IInv
<1>1. pc[t] = "poll"
  BY DEF PollState
<1>2. UNCHANGED <<conf, semaph, stack, boots, done, ready, cfg_try, left, acked>>
  BY DEF PollState
<1>3. CASE /\ NMTable \in {"unknown", "disconnected"}
           /\ NMTable' = "unknown" /\ guard' = (guard \/ drive # "off" \/ Repeats)
           /\ UNCHANGED <<drive, pc>>
  <2>1. TypeOK'
    BY <1>2, <1>3 DEF TypeOK, conf, semaph, stack, wire
  <2>2. Alone' /\ Sleepers'
    BY <1>2, <1>3, SameThreads DEF semaph
  <2>3. Transfers'
    BY <1>2, <1>3, SameTransfers DEF conf, semaph, stack, wire
  <2>4. \A v, w \in Threads :
          ~(v # w /\ pc[w] = "poll" /\ pc[v] \in ConfigPCs \cup {"poll"})
    BY <1>3 DEF Pollers
  <2>5. drive' = "off" => ~guard'
    BY <1>3 DEF Pollers, Orderly
  <2>6. Pollers'
    BY <1>3, <2>4, <2>5 DEF Pollers
  <2> QED
    BY <2>1, <2>2, <2>3, <2>6
<1>4. CASE /\ NMTable = "pre"
           /\ drive' = IF drive = "pre" THEN "op" ELSE drive
           /\ pc' = [pc EXCEPT ![t] = "cw"]
           /\ UNCHANGED <<NMTable, guard>>
  <2>1. \A v \in Threads : v # t => pc[v] \notin ConfigPCs \cup {"poll"}
    BY <1>1, <1>4 DEF Pollers
  <2>2. \A v \in Threads : ~Running(v)
    BY <1>1, <2>1 DEF Running, ConfigPCs
  <2>3. TypeOK'
    BY <1>2, <1>4 DEF TypeOK, conf, semaph, stack, wire, ConfigPCs
  <2>4. Alone' /\ Sleepers' /\ Transfers'
    BY <1>2, <1>4, <2>2, Begins DEF semaph, stack, wire
  <2>5. \A v \in Threads : pc'[v] # "poll"
    BY <1>4, <2>1 DEF TypeOK
  <2>6. drive' = "off" => ~guard'
    BY <1>4 DEF Pollers
  <2>7. Pollers'
    BY <2>5, <2>6 DEF Pollers
  <2> QED
    BY <2>3, <2>4, <2>7
<1>5. CASE /\ NMTable \in {"init", "op"}
           /\ pc' = [pc EXCEPT ![t] = "none"]
           /\ UNCHANGED <<drive, NMTable, guard>>
  <2>1. TypeOK'
    BY <1>2, <1>5 DEF TypeOK, conf, semaph, stack, wire
  <2>2. Alone' /\ Pollers' /\ Sleepers' /\ Transfers'
    BY <1>1, <1>2, <1>5, Ends DEF conf, semaph, stack, wire
  <2> QED
    BY <2>1, <2>2
<1> QED
  BY <1>3, <1>4, <1>5 DEF PollState

----------------------------------------------------------------------------
(* The receive and the timer thread                                         *)

\* The release wakes the configuring thread or is there when it comes.
LEMMA Released ==
  ASSUME TypeOK, Alone, Sleepers, NEW t \in Threads, Running(t), Release(pc)
  PROVE  \/ /\ pc[t] \in WaitPCs /\ sem' = sem /\ waiting' = <<>>
            /\ pc' = [pc EXCEPT ![t] = Woken(pc[t])]
         \/ /\ pc[t] \notin WaitPCs /\ sem' = sem + 1 /\ waiting' = <<>>
            /\ pc' = [pc EXCEPT ![t] = pc[t]]
<1>1. CASE pc[t] \in WaitPCs
  <2>1. waiting = <<t>>
    BY <1>1 DEF Sleepers
  <2>2. waiting # <<>> /\ Head(waiting) = t /\ Tail(waiting) = <<>>
    BY <2>1
  <2>3. pc' = [pc EXCEPT ![t] = Woken(pc[t])] /\ waiting' = <<>> /\ sem' = sem
    BY <2>2 DEF Release, TypeOK
  <2> QED
    BY <1>1, <2>3
<1>2. CASE pc[t] \notin WaitPCs
  <2>1. waiting = <<>>
    BY <1>2, Awake
  <2>2. pc' = pc /\ waiting' = <<>> /\ sem' = sem + 1
    BY <2>1 DEF Release
  <2>3. pc = [pc EXCEPT ![t] = pc[t]]
    BY DEF TypeOK
  <2> QED
    BY <1>2, <2>2, <2>3
<1> QED
  BY <1>1, <1>2

\* A line that is not at rest belongs to the configuring thread.
LEMMA Owner ==
  ASSUME IInv, ~AtRest
  PROVE  \E t \in Threads : Running(t) /\ pc[t] \in TransferPCs /\ Place(pc[t])
  BY DEF IInv, Transfers, Place

\* The last release of a configuration: without an error only when every step
\* has been acknowledged.
LEMMA ConfigOver ==
  ASSUME TypeOK, Alone, Pollers, Sleepers, NEW t \in Threads,
         pc[t] \in {"cfg_take", "cfg_wait"},
         Release(pc), AtRest', err_code' = "ok" => acked' = AllSteps,
         UNCHANGED node
  PROVE  /\ pc' \in [Threads -> Places] /\ waiting' = <<>> /\ sem' \in Nat
         /\ Alone' /\ Pollers' /\ Sleepers' /\ Transfers'
<1>1. Running(t)
  BY DEF Running, ConfigPCs
<1>2. PICK q \in {"cfg_take", "cfg_done"} :
        pc' = [pc EXCEPT ![t] = q] /\ waiting' = <<>> /\ sem' \in Nat
  <2>1. CASE pc[t] = "cfg_take"
    BY <1>1, <2>1, Released DEF WaitPCs, TypeOK
  <2>2. CASE pc[t] = "cfg_wait"
    <3>1. Woken(pc[t]) = "cfg_done"
      BY <2>2 DEF Woken
    <3> QED
      BY <1>1, <2>2, <3>1, Released DEF WaitPCs, TypeOK
  <2> QED
    BY <2>1, <2>2
<1>3. pc' \in [Threads -> Places]
  BY <1>2 DEF TypeOK, Places, ConfigPCs
<1>4. Alone' /\ Pollers'
  BY <1>1, <1>2, Moves DEF node, ConfigPCs
<1>5. Sleepers'
  BY <1>1, <1>2, Wakes DEF WaitPCs
<1>6. Place(q)'
  BY <1>2 DEF Place, TransferPCs, StepLine
<1>7. Transfers'
  BY <1>1, <1>2, <1>6, Placed DEF ConfigPCs
<1> QED
  BY <1>2, <1>3, <1>4, <1>5, <1>7

\* config_node_param, called by the callback with the steps before k done.
LEMMA ParamInv ==
  ASSUME IInv, NEW t \in Threads, pc[t] \in {"cfg_take", "cfg_wait"},
         NEW k \in 0..Steps, Param(k, TRUE, pc), sem = 0,
         requests = <<>>, answers' = <<>>, try_cnt' \in 0..Tries - 1,
         acked' \subseteq AllSteps, 0..k - 1 \subseteq acked',
         UNCHANGED <<node, ready, cfg_try, left>>
  PROVE  IInv'
<1> USE DEF IInv
<1>1. Running(t)
  BY DEF Running, ConfigPCs
<1>2. CASE /\ k < Steps
           /\ line' = [state |-> "busy", cb |-> "step"]
           /\ requests' = Append(requests, k)
           /\ step' = k /\ err_code' = "ok" /\ pc' = pc
           /\ UNCHANGED semaph
  <2>1. requests' = <<k>>
    BY <1>2
  <2>2. requests' \in Seq({CW} \cup AllSteps)
    BY <1>2, <2>1, Consts
  <2>3. TypeOK'
    BY <1>2, <2>2 DEF TypeOK, semaph, node
  <2>4. pc' = [pc EXCEPT ![t] = pc[t]]
    BY <1>2 DEF TypeOK
  <2>5. Alone' /\ Sleepers'
    BY <1>2, SameThreads DEF semaph
  <2>6. Pollers'
    BY <1>2 DEF Pollers, node
  <2>7. StepLine'
    BY <1>2, <2>1 DEF StepLine, Busy, Carries, semaph
  <2>8. Place(pc[t])'
    BY <1>2, <2>7 DEF Place, TransferPCs
  <2>9. \A u \in Threads : u # t => ~Running(u)'
    BY <1>1, <1>2, OnlyOne DEF Running
  <2>10. Transfers'
    BY <1>1, <1>2, <2>8, <2>9 DEF Transfers, Running
  <2> QED
    BY <2>3, <2>5, <2>6, <2>10
<1>3. CASE /\ line' = Free /\ Release(pc) /\ UNCHANGED requests
           /\ \/ step' = 0 /\ err_code' = "no_send"
              \/ k = Steps /\ step' = k /\ err_code' = "ok"
  <2>1. AtRest'
    BY <1>3 DEF AtRest, Quiet, Free
  <2>2. err_code' = "ok" => acked' = AllSteps
    BY <1>3, Consts
  <2>3. /\ pc' \in [Threads -> Places] /\ waiting' = <<>> /\ sem' \in Nat
        /\ Alone' /\ Pollers' /\ Sleepers' /\ Transfers'
    BY <1>3, <2>1, <2>2, ConfigOver
  <2>4. step' \in 0..Steps /\ err_code' \in {"ok", "no_send"} /\ requests' = <<>>
    BY <1>3, Consts
  <2>5. TypeOK'
    BY <1>3, <2>3, <2>4 DEF TypeOK, node, Places, Free
  <2> QED
    BY <2>3, <2>5
<1> QED
  BY <1>2, <1>3 DEF Param

\* A step that failed is tried again, or the configuration is given up.
LEMMA StepFailedInv ==
  ASSUME IInv, NEW t \in Threads, pc[t] \in {"cfg_take", "cfg_wait"},
         StepFailed, sem = 0, step < Steps, 0..step - 1 \subseteq acked,
         requests = <<>>, answers' = <<>>, UNCHANGED <<node, ready, cfg_try, left>>
  PROVE  IInv'
<1> USE DEF IInv
<1>1. acked' = acked
  BY DEF StepFailed
<1>2. CASE try_cnt + 1 < Tries
  <2>1. try_cnt' \in 0..Tries - 1 /\ Param(step, TRUE, pc) /\ step \in 0..Steps
    <3>1. try_cnt' = try_cnt + 1 /\ Param(step, TRUE, pc)
      BY <1>2 DEF StepFailed
    <3>2. try_cnt \in 0..Tries - 1 /\ step \in 0..Steps
      BY DEF TypeOK
    <3>3. try_cnt + 1 \in 0..Tries - 1
      BY <3>2, <1>2, Consts
    <3> QED
      BY <3>1, <3>2, <3>3
  <2>2. acked' \subseteq AllSteps /\ 0..step - 1 \subseteq acked'
    BY <1>1 DEF TypeOK
  <2> QED
    BY <2>1, <2>2, ParamInv
<1>3. CASE ~(try_cnt + 1 < Tries)
  <2>1. /\ step' = 0 /\ try_cnt' = 0 /\ err_code' = "no_respond"
        /\ line' = Free /\ Release(pc) /\ UNCHANGED requests
    BY <1>3 DEF StepFailed
  <2>2. AtRest'
    BY <2>1 DEF AtRest, Quiet, Free
  <2>3. /\ pc' \in [Threads -> Places] /\ waiting' = <<>> /\ sem' \in Nat
        /\ Alone' /\ Pollers' /\ Sleepers' /\ Transfers'
    BY <2>1, <2>2, ConfigOver
  <2>4. TypeOK'
    BY <1>1, <2>1, <2>3, Consts DEF TypeOK, node, Places, Free
  <2> QED
    BY <2>3, <2>4
<1> QED
  BY <1>2, <1>3

\* An answer is one to the write of the thread that configures.
LEMMA AnswerInv ==
  ASSUME IInv, Answer
  PROVE  IInv'
<1> USE DEF IInv
<1>1. answers # <<>> /\ answers' = Tail(answers)
      /\ UNCHANGED <<node, ready, cfg_try, left>>
  BY DEF Answer
<1>2. PICK t \in Threads : Running(t) /\ pc[t] \in TransferPCs /\ Place(pc[t])
  BY <1>1, Owner DEF AtRest, Quiet
<1>3. ~Quiet /\ ~AtRest
  BY <1>1 DEF Quiet, AtRest
<1>4. pc[t] \in {"take", "wait", "cfg_take", "cfg_wait"}
  BY <1>2, <1>3 DEF Place, TransferPCs
<1>5. CASE pc[t] \in {"take", "wait"}
  <2>1. Busy("sync") /\ Carries(CW) /\ sem = 0
    BY <1>2, <1>3, <1>5 DEF Place, SyncLine
  <2>2. line.state = "busy" /\ line.cb = "sync"
    BY <2>1 DEF Busy
  <2>3. requests = <<>> /\ answers' = <<>>
    <3>1. PICK ok \in BOOLEAN : requests = <<>> /\ answers = <<[for |-> CW, ok |-> ok]>>
      BY <1>1, <2>1 DEF Carries, Quiet
    <3> QED
      BY <1>1, <3>1
  <2>4. PICK r \in {"finished", "aborted"} :
          /\ line' = [line EXCEPT !.state = r]
          /\ Release(pc) /\ UNCHANGED <<conf, requests, acked>>
    BY <2>2 DEF Answer
  <2>5. line' = [state |-> r, cb |-> "sync"]
    BY <2>1, <2>4 DEF Busy
  <2>6. PICK q \in {"take", "result"} :
          /\ pc' = [pc EXCEPT ![t] = q] /\ waiting' = <<>>
          /\ sem' = IF q = "take" THEN 1 ELSE 0
    <3>1. CASE pc[t] = "take"
      BY <1>2, <2>1, <2>4, <3>1, Released DEF WaitPCs
    <3>2. CASE pc[t] = "wait"
      <4>1. Woken(pc[t]) = "result"
        BY <3>2 DEF Woken
      <4> QED
        BY <1>2, <2>1, <2>4, <3>2, <4>1, Released DEF WaitPCs
    <3> QED
      BY <1>5, <3>1, <3>2
  <2>7. TypeOK'
    <3>1. pc' \in [Threads -> Places]
      BY <2>6 DEF TypeOK, Places, ConfigPCs
    <3> QED
      BY <1>1, <2>3, <2>4, <2>5, <2>6, <3>1 DEF TypeOK, conf, node, Places
  <2>8. Alone' /\ Pollers'
    BY <1>1, <1>2, <2>6, Moves DEF node, ConfigPCs, TransferPCs
  <2>9. Sleepers'
    BY <1>2, <2>6, Wakes DEF WaitPCs
  <2>10. Place(q)'
    BY <2>3, <2>4, <2>5, <2>6 DEF Place, TransferPCs, SyncLine, Quiet
  <2>11. Transfers'
    BY <1>2, <2>6, <2>10, Placed DEF ConfigPCs
  <2> QED
    BY <2>7, <2>8, <2>9, <2>11
<1>6. CASE pc[t] \in {"cfg_take", "cfg_wait"}
  <2>1. /\ Busy("step") /\ Carries(step) /\ sem = 0
        /\ step < Steps /\ 0..step - 1 \subseteq acked
    BY <1>2, <1>3, <1>6 DEF Place, StepLine
  <2>2. line.state = "busy" /\ line.cb = "step"
    BY <2>1 DEF Busy
  <2>3. requests = <<>> /\ answers' = <<>> /\ Head(answers).for = step
    BY <1>1, <2>1 DEF Carries, Quiet
  <2>4. CASE Head(answers).ok
    <3>1. StepWritten(step)
      BY <2>2, <2>3, <2>4 DEF Answer
    <3>2. /\ acked' = acked \cup ({step} \cap AllSteps) /\ try_cnt' = 0
          /\ Param(step + 1, TRUE, pc)
      BY <3>1 DEF StepWritten
    <3>3. step + 1 \in 0..Steps /\ try_cnt' \in 0..Tries - 1
      BY <2>1, <3>2, Consts DEF TypeOK
    <3>4. acked' \subseteq AllSteps /\ 0..(step + 1) - 1 \subseteq acked'
      BY <2>1, <3>2, Consts DEF TypeOK
    <3> QED
      BY <1>1, <1>6, <2>1, <2>3, <3>2, <3>3, <3>4, ParamInv
  <2>5. CASE ~Head(answers).ok
    <3>1. StepFailed
      BY <2>2, <2>5 DEF Answer
    <3> QED
      BY <1>1, <1>6, <2>1, <2>3, <3>1, StepFailedInv
  <2> QED
    BY <2>4, <2>5
<1> QED
  BY <1>4, <1>5, <1>6

\* The alarm of a transfer of the thread that configures, with nothing under
\* way.
LEMMA AlarmInv ==
  ASSUME Orderly, IInv, Alarm
  PROVE  IInv'
<1> USE DEF IInv
<1>1. /\ line.state = "busy" /\ line.cb = "step" /\ Quiet /\ StepFailed
      /\ UNCHANGED <<answers, node, ready, cfg_try, left>>
  BY DEF Alarm, Silence, Orderly, Quiet
<1>2. PICK t \in Threads : Running(t) /\ pc[t] \in TransferPCs /\ Place(pc[t])
  BY <1>1, Owner DEF AtRest, Free
<1>3. pc[t] \in {"cfg_take", "cfg_wait"}
  BY <1>1, <1>2 DEF Place, TransferPCs, SyncLine, Busy
<1>4. sem = 0 /\ step < Steps /\ 0..step - 1 \subseteq acked
  BY <1>1, <1>2, <1>3 DEF Place, StepLine, AtRest, Free
<1> QED
  BY <1>1, <1>3, <1>4, StepFailedInv DEF Quiet

\* An emergency only ever turns a result into an error.
LEMMA EmergencyInv ==
  ASSUME IInv, Emergency
  PROVE  IInv'
<1> USE DEF IInv
<1>1. /\ err_code' = "emcy"
      /\ UNCHANGED <<step, try_cnt, semaph, stack, node, ready, cfg_try, thread,
                     acked>>
  BY DEF Emergency
<1>2. TypeOK'
  BY <1>1 DEF TypeOK, semaph, stack, wire, node, thread
<1>3. Alone' /\ Sleepers'
  BY <1>1, SameThreads DEF thread, semaph
<1>4. Pollers'
  BY <1>1 DEF Pollers, node, thread
<1>5. Transfers'
  BY <1>1 DEF Transfers, Running, Place, AtRest, Quiet, Free, SyncLine, StepLine,
              Busy, Carries, semaph, stack, wire, thread
<1> QED
  BY <1>2, <1>3, <1>4, <1>5

\* A drive that boots is not being configured: its thread finds nobody.
LEMMA BootUpInv ==
  ASSUME Orderly, IInv, BootUp
  PROVE  IInv'
<1> USE DEF IInv
<1>1. /\ drive = "off" /\ drive' = "pre" /\ NMTable' = "init"
      /\ boots < BootUps /\ boots' = boots + 1
      /\ UNCHANGED <<conf, stack, guard, done, ready, cfg_try, left, acked>>
  BY DEF BootUp
<1>2. \A u \in Threads : pc[u] \in ConfigPCs => pc[u] = "boot_wait"
  BY DEF BootUp, Orderly, Expected
<1>3. ~guard /\ ~guard'
  BY <1>1 DEF Pollers
<1>4. boots' \in 0..BootUps
  BY <1>1, Consts DEF TypeOK
<1>5. Pollers'
  BY <1>1, <1>3 DEF Pollers
<1>6. CASE UNCHANGED semaph /\ pc' = pc
  <2>1. TypeOK'
    BY <1>1, <1>4, <1>6 DEF TypeOK, conf, semaph, stack, wire
  <2>2. Alone' /\ Sleepers'
    BY <1>6, SameThreads DEF semaph
  <2>3. Transfers'
    BY <1>1, <1>6, SameTransfers DEF conf, semaph, stack, wire
  <2> QED
    BY <1>5, <2>1, <2>2, <2>3
<1>7. CASE waiting = <<>> /\ UNCHANGED semaph
           /\ \E u \in Threads : pc' = [pc EXCEPT ![u] = "cw"]
  <2>1. PICK u \in Threads : pc' = [pc EXCEPT ![u] = "cw"]
    BY <1>7
  <2>2. \A v \in Threads : ~Running(v)
    <3>1. ASSUME NEW v \in Threads, pc[v] = "boot_wait" PROVE FALSE
      BY <1>7, <3>1 DEF Sleepers, WaitPCs
    <3> QED
      BY <1>2, <3>1 DEF Running
  <2>3. TypeOK'
    BY <1>1, <1>4, <1>7, <2>1 DEF TypeOK, conf, semaph, stack, wire, ConfigPCs
  <2>4. Alone' /\ Sleepers' /\ Transfers'
    BY <1>1, <1>7, <2>1, <2>2, Begins DEF semaph, stack, wire
  <2> QED
    BY <1>5, <2>3, <2>4
<1>8. CASE waiting # <<>> /\ \E p : Release(p) /\
             (p = pc \/ \E u \in Threads : pc[u] = "none" /\ p = [pc EXCEPT ![u] = "cw"])
  <2>1. PICK t \in Threads : pc[t] = "boot_wait" /\ waiting = <<t>>
    BY <1>2, <1>8 DEF Sleepers, WaitPCs, ConfigPCs
  <2>2. PICK p : Release(p) /\ p \in [Threads -> Places] /\ p[t] = "boot_wait"
                 /\ \A u \in Threads : u # t => p[u] \notin ConfigPCs \ {"cw"}
                 /\ \A v, w \in Threads : p[v] = "cw" /\ p[w] = "cw" => v = w
    <3>1. PICK p : Release(p) /\
             (p = pc \/ \E u \in Threads : pc[u] = "none" /\ p = [pc EXCEPT ![u] = "cw"])
      BY <1>8
    <3>2. pc \in [Threads -> Places]
      BY DEF TypeOK, Places
    <3>3. \A u \in Threads : u # t => pc[u] \notin ConfigPCs
      BY <1>2, <2>1 DEF Alone, Running, ConfigPCs
    <3>4. CASE p = pc
      BY <2>1, <3>1, <3>2, <3>3, <3>4 DEF ConfigPCs
    <3>5. ASSUME NEW u \in Threads, pc[u] = "none", p = [pc EXCEPT ![u] = "cw"]
          PROVE  /\ p \in [Threads -> Places] /\ p[t] = "boot_wait"
                 /\ \A v \in Threads : v # t => p[v] \notin ConfigPCs \ {"cw"}
                 /\ \A v, w \in Threads : p[v] = "cw" /\ p[w] = "cw" => v = w
      BY <2>1, <3>2, <3>3, <3>5 DEF Places, ConfigPCs
    <3> QED
      BY <3>1, <3>4, <3>5
  <2>3. pc' = [p EXCEPT ![t] = "boot_ok"] /\ waiting' = <<>> /\ sem' = sem
    <3>1. waiting # <<>> /\ Head(waiting) = t /\ Tail(waiting) = <<>>
      BY <2>1
    <3> QED
      BY <2>2, <3>1 DEF Release, Woken
  <2>4. pc'[t] = "boot_ok" /\ \A u \in Threads : u # t => pc'[u] = p[u]
    BY <2>2, <2>3
  <2>5. TypeOK'
    <3>1. pc' \in [Threads -> Places] /\ waiting' \in Seq(Threads)
      BY <2>2, <2>3 DEF Places, ConfigPCs
    <3> QED
      BY <1>1, <1>4, <2>3, <3>1 DEF TypeOK, Places, conf, stack, wire
  <2>6. \A u \in Threads : Running(u)' => pc'[u] = "cw"
    BY <2>2, <2>4 DEF Running
  <2>7. Alone'
    <3>1. ASSUME NEW v \in Threads, NEW w \in Threads, Running(v)', Running(w)'
          PROVE  v = w
      BY <3>1, <2>2, <2>4, <2>6
    <3> QED
      BY <2>2, <2>4, <3>1 DEF Alone
  <2>8. Sleepers'
    BY <2>2, <2>3, <2>4 DEF Sleepers, WaitPCs, ConfigPCs
  <2>9. AtRest /\ AtRest'
    <3>1. AtRest
      BY <2>1 DEF Transfers, Running, Place, TransferPCs, ConfigPCs
    <3> QED
      BY <1>1, <3>1 DEF stack, wire, AtRest, Quiet, Free
  <2>10. Transfers'
    <3>1. Place("cw")'
      BY <2>9 DEF Place
    <3> QED
      BY <2>6, <2>9, <3>1 DEF Transfers
  <2> QED
    BY <1>5, <2>5, <2>7, <2>8, <2>10
<1> QED
  BY <1>6, <1>7, <1>8 DEF BootUp

\* The state of the drive is asked for by a repair thread that is alone.
LEMMA GuardAnswerInv ==
  ASSUME IInv, GuardAnswer
  PROVE  IInv'
<1> USE DEF IInv
<1>1. /\ guard /\ drive # "off" /\ guard' = FALSE /\ NMTable' = drive
      /\ UNCHANGED <<conf, semaph, stack, drive, boots, done, ready, cfg_try,
                     thread, acked>>
  BY DEF GuardAnswer
<1>2. TypeOK'
  BY <1>1 DEF TypeOK, conf, semaph, stack, wire, thread
<1>3. Alone' /\ Sleepers'
  BY <1>1, SameThreads DEF thread, semaph
<1>4. Pollers'
  BY <1>1 DEF Pollers, thread
<1>5. Transfers'
  BY <1>1, SameTransfers DEF conf, semaph, stack, wire, thread
<1> QED
  BY <1>2, <1>3, <1>4, <1>5

----------------------------------------------------------------------------
(* The drive                                                                *)

\* One request is under way: it becomes one answer, or none.
LEMMA ServeInv ==
  ASSUME IInv, Serve
  PROVE  IInv'
<1> USE DEF IInv
<1>1. /\ requests # <<>> /\ requests' = Tail(requests)
      /\ UNCHANGED <<conf, semaph, line, node, ready, cfg_try, thread, acked>>
  BY DEF Serve
<1>2. PICK t \in Threads : Running(t) /\ pc[t] \in TransferPCs /\ Place(pc[t])
  BY <1>1, Owner DEF AtRest, Quiet
<1>3. ~Quiet /\ ~AtRest
  BY <1>1 DEF Quiet, AtRest
<1>4. pc[t] \in {"take", "wait", "cfg_take", "cfg_wait"}
  BY <1>2, <1>3 DEF Place, TransferPCs
<1>5. ASSUME NEW k, Carries(k)
      PROVE  Carries(k)' /\ requests' = <<>>
             /\ answers' \in Seq([for : {CW} \cup AllSteps, ok : BOOLEAN])
  <2>1. requests = <<k>> /\ answers = <<>> /\ requests' = <<>>
    <3>1. requests = <<k>> /\ answers = <<>>
      BY <1>1, <1>5 DEF Carries, Quiet
    <3> QED
      BY <1>1, <3>1
  <2>2. k \in {CW} \cup AllSteps
    <3>1. requests[1] \in {CW} \cup AllSteps
      BY <2>1 DEF TypeOK
    <3> QED
      BY <2>1, <3>1
  <2>3. CASE UNCHANGED answers
    BY <2>1, <2>3 DEF Carries, Quiet
  <2>4. CASE \E ok \in BOOLEAN : answers' = Append(answers, [for |-> Head(requests), ok |-> ok])
    <3>1. PICK ok \in BOOLEAN : answers' = Append(answers, [for |-> Head(requests), ok |-> ok])
      BY <2>4
    <3>2. answers' = <<[for |-> k, ok |-> ok]>>
      BY <2>1, <3>1
    <3> QED
      BY <2>1, <2>2, <3>2 DEF Carries
  <2> QED
    BY <2>3, <2>4 DEF Serve
<1>6. pc' = pc
  BY <1>1 DEF thread
<1>7. \E k : Carries(k)
  BY <1>2, <1>3, <1>4 DEF Place, SyncLine, StepLine
<1>8. TypeOK'
  <2>1. PICK k : Carries(k)
    BY <1>7
  <2>2. requests' = <<>> /\ answers' \in Seq([for : {CW} \cup AllSteps, ok : BOOLEAN])
    BY <1>5, <2>1
  <2> QED
    BY <1>1, <2>2 DEF TypeOK, conf, semaph, node, thread
<1>9. Alone' /\ Sleepers'
  BY <1>1, SameThreads DEF thread, semaph
<1>10. Pollers'
  BY <1>1 DEF Pollers, node, thread
<1>11. Place(pc[t])'
  <2>1. CASE pc[t] \in {"take", "wait"}
    <3>1. Busy("sync") /\ Carries(CW) /\ sem = 0
      BY <1>2, <1>3, <2>1 DEF Place, SyncLine
    <3>2. SyncLine'
      BY <1>1, <1>5, <3>1 DEF SyncLine, Busy, semaph
    <3> QED
      BY <1>1, <1>6, <2>1, <3>1, <3>2 DEF Place, TransferPCs, semaph
  <2>2. CASE pc[t] \in {"cfg_take", "cfg_wait"}
    <3>1. /\ Busy("step") /\ Carries(step) /\ sem = 0
          /\ step < Steps /\ 0..step - 1 \subseteq acked
      BY <1>2, <1>3, <2>2 DEF Place, StepLine
    <3>2. step' = step /\ Carries(step)'
      <4>1. step' = step
        BY <1>1 DEF conf
      <4>2. PICK k : k = step
        OBVIOUS
      <4>3. Carries(k)'
        BY <1>5, <3>1, <4>2
      <4> QED
        BY <4>1, <4>2, <4>3 DEF Carries
    <3>3. StepLine'
      BY <1>1, <3>1, <3>2 DEF StepLine, Busy, semaph
    <3> QED
      BY <1>6, <2>2, <3>3 DEF Place, TransferPCs
  <2> QED
    BY <1>4, <2>1, <2>2
<1>12. Transfers'
  <2>1. \A u \in Threads : u # t => ~Running(u)'
    BY <1>2, <1>6, OnlyOne DEF Running
  <2> QED
    BY <1>2, <1>6, <1>11, <2>1 DEF Transfers, Running
<1> QED
  BY <1>8, <1>9, <1>10, <1>12

\* With the drive a request for its state is gone.
LEMMA PowerOffInv ==
  ASSUME Orderly, IInv, PowerOff
  PROVE  IInv'
<1> USE DEF IInv
<1>1. /\ drive' = "off" /\ guard' = FALSE /\ done' = FALSE
      /\ UNCHANGED <<conf, semaph, stack, NMTable, boots, ready, cfg_try, thread,
                     acked>>
  BY DEF PowerOff, Orderly
<1>2. TypeOK'
  BY <1>1 DEF TypeOK, conf, semaph, stack, wire, thread
<1>3. Alone' /\ Sleepers'
  BY <1>1, SameThreads DEF thread, semaph
<1>4. Pollers'
  BY <1>1 DEF Pollers, thread
<1>5. Transfers'
  BY <1>1, SameTransfers DEF conf, semaph, stack, wire, thread
<1> QED
  BY <1>2, <1>3, <1>4, <1>5

----------------------------------------------------------------------------

\* At the start the start thread alone configures, over a line at rest.
LEMMA InitInv == Init => IInv
<1> SUFFICES ASSUME Init PROVE IInv
  OBVIOUS
<1>1. \A t \in Threads : pc[t] = IF t = Start THEN "cw" ELSE "none"
  BY DEF Init
<1>2. TypeOK
  <2>1. pc \in [Threads -> Places]
    BY <1>1 DEF Init, Places, ConfigPCs
  <2>2. left \in [Threads -> 0..Tries]
    BY Consts DEF Init
  <2>3. /\ step \in 0..Steps /\ try_cnt \in 0..Tries - 1
        /\ sem \in Nat /\ boots \in 0..BootUps /\ cfg_try \in Nat
    BY Consts DEF Init
  <2>4. /\ line \in [state : {"free", "busy", "finished", "aborted"},
                     cb : {"none", "sync", "step"}]
        /\ err_code = "ok" /\ waiting \in Seq(Threads)
        /\ requests \in Seq({CW} \cup AllSteps)
        /\ answers \in Seq([for : {CW} \cup AllSteps, ok : BOOLEAN])
        /\ drive \in {"off", "pre"} /\ NMTable = "unknown"
        /\ guard = FALSE /\ ready = FALSE /\ acked = {} /\ done = FALSE
    BY DEF Init, Free
  <2> QED
    BY <2>1, <2>2, <2>3, <2>4 DEF TypeOK, Places
<1>3. Alone
  BY <1>1 DEF Alone, Running, ConfigPCs
<1>4. Pollers
  BY <1>1 DEF Init, Pollers
<1>5. Sleepers
  BY <1>1 DEF Init, Sleepers, WaitPCs
<1>6. Transfers
  <2>1. AtRest
    BY DEF Init, AtRest, Quiet
  <2>2. Place("cw")
    BY <2>1 DEF Place
  <2>3. \A t \in Threads : Running(t) => pc[t] = "cw"
    BY <1>1 DEF Running, ConfigPCs
  <2> QED
    BY <2>1, <2>2, <2>3 DEF Transfers
<1> QED
  BY <1>2, <1>3, <1>4, <1>5, <1>6 DEF IInv

\* Every step of a configuring, repairing or ending thread keeps the invariant.
LEMMA ThreadInv ==
  ASSUME Orderly, IInv, NEW t \in Threads, Thread(t)
  PROVE  IInv'
  BY BeginSyncInv, OpenLineInv, GiveUpSyncInv, TakeSyncInv, SyncTimeoutInv,
     CloseLineInv, SyncResultInv, AwaitBootInv, TakeBootInv, BootTimeoutInv,
     BootLateInv, BootOverInv, ConfigureInv, FirstParamInv, TakeFinishInv, FinishInv,
     StartNodeInv, PollStateInv DEF Thread

\* Every step of the program, the bus and the drive keeps the invariant.
LEMMA StepInv ==
  ASSUME Orderly
  PROVE  IInv /\ [Next]_vars => IInv'
<1> SUFFICES ASSUME IInv, [Next]_vars PROVE IInv'
  OBVIOUS
<1>1. ASSUME NEW t \in Threads, Thread(t) PROVE IInv'
  BY <1>1, ThreadInv
<1>2. CASE Install
  BY <1>2, InstallInv
<1>3. CASE Answer
  BY <1>3, AnswerInv
<1>4. CASE Alarm
  BY <1>4, AlarmInv
<1>5. CASE Emergency
  BY <1>5, EmergencyInv
<1>6. CASE BootUp
  BY <1>6, BootUpInv
<1>7. CASE GuardAnswer
  BY <1>7, GuardAnswerInv
<1>8. CASE Serve
  BY <1>8, ServeInv
<1>9. CASE PowerOff
  BY <1>9, PowerOffInv
<1>10. CASE UNCHANGED vars
  <2>1. TypeOK'
    BY <1>10 DEF IInv, TypeOK, vars, conf, semaph, stack, wire, node, thread
  <2>2. Alone' /\ Sleepers'
    BY <1>10, SameThreads DEF IInv, vars, thread, semaph
  <2>3. Pollers'
    BY <1>10 DEF IInv, Pollers, vars, node, thread
  <2>4. Transfers'
    BY <1>10, SameTransfers DEF IInv, vars, conf, semaph, stack, wire, thread
  <2> QED
    BY <2>1, <2>2, <2>3, <2>4 DEF IInv
<1> QED
  BY <1>1, <1>2, <1>3, <1>4, <1>5, <1>6, <1>7, <1>8, <1>9, <1>10 DEF Next

----------------------------------------------------------------------------
(* Theorems                                                                 *)

\* The inductive invariant: threads configure one at a time, with at most one
\* frame under way, and the one that does is the one that sleeps.
THEOREM ConfigInvariant ==
  ASSUME Orderly
  PROVE  Spec => []IInv
<1>1. IInv /\ [Next]_vars => IInv'
  BY StepInv
<1> QED
  BY InitInv, <1>1, PTL DEF Spec

\* The types of slave_conf, the semaphore, the line and the threads.
THEOREM TypeCorrect ==
  ASSUME Orderly
  PROVE  Spec => []TypeOK
<1>1. IInv => TypeOK
  BY DEF IInv
<1> QED
  BY ConfigInvariant, <1>1, PTL

\* config_node, the boot-up handler and the repairs share one semaphore, and
\* no thread that sleeps on it is taken off its list unwoken.
THEOREM SleepersKept ==
  ASSUME Orderly
  PROVE  Spec => []NoLostSleeper
<1>1. IInv => NoLostSleeper
  <2> SUFFICES ASSUME IInv, NEW t \in Threads, pc[t] \in WaitPCs
               PROVE  \E i \in DOMAIN waiting : waiting[i] = t
    BY DEF NoLostSleeper
  <2>1. waiting = <<t>>
    BY DEF IInv, Sleepers
  <2>2. 1 \in DOMAIN waiting /\ waiting[1] = t
    BY <2>1
  <2> QED
    BY <2>2
<1> QED
  BY ConfigInvariant, <1>1, PTL

\* A drive is told to operate, and reported complete, only after it has
\* acknowledged every write of its configuration.
THEOREM CompleteIsAcked ==
  ASSUME Orderly
  PROVE  Spec => []CompleteMeansAcked
<1>1. IInv => CompleteMeansAcked
  <2> SUFFICES ASSUME IInv, NEW t \in Threads, pc[t] = "nmt" PROVE acked = AllSteps
    BY DEF CompleteMeansAcked
  <2>1. Running(t)
    BY DEF Running, ConfigPCs
  <2> QED
    BY <2>1, Here DEF IInv, Place
<1> QED
  BY ConfigInvariant, <1>1, PTL
============================================================================
