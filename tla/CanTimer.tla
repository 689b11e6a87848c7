----------------------------- MODULE CanTimer -----------------------------
(***************************************************************************)
(* The alarm table of the CANopen stack (CanFestival timer.c) over its     *)
(* RT-Thread port (timer_rtthread.c): a fixed table of one-shot and        *)
(* periodic alarms multiplexed on one hardware timer whose interrupt wakes *)
(* a dispatcher thread.  Other threads set and delete alarms, some holding *)
(* the stack's mutex and some not.                                         *)
(*                                                                         *)
(* Time is relative: every row carries, as ghosts that no guard reads, the *)
(* time left until the moment its caller asked for, and whether time was   *)
(* lost while it waited; so time needs no bound.                           *)
(***************************************************************************)
EXTENDS Integers, FiniteSets

CONSTANTS
    N,              \* MAX_NB_TIMER, rows of the table
    Values,         \* bound: first delays asked for, 0 for at once
    Periods,        \* bound: periods asked for, 0 for a one-shot alarm
    TimevalMax,     \* TIMEVAL_MAX; TIMEVAL arithmetic is modulo TimevalMax + 1
    MaxCount,       \* the longest time the hardware counts in one go
    Second,         \* the units of a second, where setTimer splits a value
    MinTimeout,     \* MIN_TIMER_TIMEOUT_US
    MaxSem,         \* bound: expiries the dispatcher has not taken yet
    Lockers,        \* threads that call SetAlarm and DelAlarm under the mutex
    Strays,         \* threads that call them without it
    Instant         \* whether what is done under the mutex takes no time

ASSUME TimerAssumption ==
    /\ N \in Nat \ {0}
    /\ TimevalMax \in Nat /\ MaxCount \in Nat \ {0}
    /\ Second \in Nat \ {0} /\ MinTimeout \in Nat \ {0}
    /\ MaxCount + MaxCount + MinTimeout <= TimevalMax
    /\ Values \subseteq 0..MaxCount - 1 /\ Periods \subseteq 0..MaxCount - 1
    /\ MaxSem \in Nat \ {0}
    /\ Lockers \cap Strays = {}
    /\ Instant \in BOOLEAN

Dispatcher == "cf_timer"
Nobody == "nobody"
Threads == Lockers \cup Strays \cup {Dispatcher}

ASSUME ThreadAssumption == {Dispatcher, Nobody} \cap (Lockers \cup Strays) = {}

VARIABLES
    timers,             \* the table: state, val, interval; ghosts left, late
    total_sleep_time, last_timer_raw,
    last_timer_val,     \* the counter as the dispatcher last read it
    hw,                 \* the hardware timer: running, load, count
    sem,                \* canfstvl_timer_sem
    mutex,              \* who is inside EnterMutex / LeaveMutex
    pend,               \* per thread, a SetAlarm between its two halves
    dpc, row            \* the dispatcher: where it is, its loop variable

table == <<timers, last_timer_raw>>
vars  == <<table, total_sleep_time, last_timer_val, hw, sem, mutex, pend,
           dpc, row>>

Rows == 0..N - 1
None == [row |-> -1, value |-> 0, period |-> 0, elapsed |-> 0]

Wrap(x) == x % (TimevalMax + 1)

\* What a read of the hardware sees: a sleep longer than MaxCount is counted in
\* rounds, and only the current round is read.  A stopped counter keeps its
\* value.
HwRead == IF hw.load <= MaxCount THEN hw.count ELSE hw.count % MaxCount

\* The part below a second is raised to the shortest time-out there is.
Load(value) ==
    IF value % Second < MinTimeout
    THEN value + (MinTimeout - (value % Second)) ELSE value

\* setTimer: the counter restarts.
SetTimer(value) ==
    /\ hw' = [running |-> TRUE, load |-> Load(value), count |-> 0]
    /\ last_timer_val' = 0

ElapsedTime == Wrap(HwRead - last_timer_val)

\* What a free row held is never read, so it is left out.
Free == [state |-> "free", val |-> 0, interval |-> 0, left |-> 0,
         late |-> FALSE]

Alarm(val, period, value, late) ==
    [state |-> "armed", val |-> val, interval |-> period, left |-> value,
     late |-> late]

\* The time since the last dispatch as the table and the counter have it: what
\* the sleep was shortened by, and the count.
Counted == total_sleep_time - hw.load + hw.count

\* A step in which some time passes and a dispatch accounts for some loses
\* time when Counted falls behind; every alarm that waits is then late.
Lost(passed, accounted) == accounted + Counted' < Counted + passed

Losing(lost) ==
    [i \in Rows |-> IF lost /\ timers[i].state = "armed"
                    THEN [timers[i] EXCEPT !.late = TRUE] ELSE timers[i]]

\* After StartTimerLoop: one alarm, the stack's first callback.
Init ==
    /\ \E boot \in Values \ {0} :
        /\ timers = [i \in Rows |-> IF i # 0 THEN Free
                        ELSE Alarm(boot, 0, boot, boot < Load(boot))]
        /\ total_sleep_time = boot
        /\ hw = [running |-> TRUE, load |-> Load(boot), count |-> 0]
    /\ last_timer_raw = 0
    /\ last_timer_val = 0 /\ sem = 0 /\ mutex = Nobody
    /\ pend = [t \in Threads |-> None]
    /\ dpc = "wait" /\ row = 0

----------------------------------------------------------------------------
(* The table                                                                *)

\* MUTANT: SetAlarm and DelAlarm look at the table without the mutex.
BugEnter(t) == TRUE

\* A thread may be inside the table when it holds the mutex or ignores it.
Enter(t) == t \in Strays \/ mutex \in {Nobody, t}

\* First half of SetAlarm: the first free row up to the one after the last,
\* and the time elapsed.  A full table is an error and changes nothing.
SetAlarm(t, value, period) ==
    /\ Enter(t) /\ pend[t] = None
    /\ \E r \in Rows :
        /\ r <= last_timer_raw + 1 /\ timers[r].state = "free"
        /\ \A i \in 0..r - 1 : timers[i].state # "free"
        /\ last_timer_raw' = IF r = last_timer_raw + 1 THEN r
                                                       ELSE last_timer_raw
        /\ pend' = [pend EXCEPT ![t] = [row |-> r, value |-> value,
                        period |-> period, elapsed |-> ElapsedTime]]
    /\ mutex' = IF t \in Strays THEN mutex ELSE t
    /\ UNCHANGED <<timers, total_sleep_time, last_timer_val, hw, sem>>

\* MUTANT: the hardware is set again only for an alarm that is later.
BugStoreAlarm(t) ==
    LET p == pend[t] IN
    /\ p # None
    /\ IF /\ total_sleep_time > p.elapsed
          /\ total_sleep_time - p.elapsed < p.value
       THEN /\ total_sleep_time' = Wrap(p.elapsed + p.value)
            /\ SetTimer(p.value)
       ELSE UNCHANGED <<total_sleep_time, hw, last_timer_val>>
    /\ timers' = [Losing(Lost(0, 0)) EXCEPT ![p.row] =
                    Alarm(Wrap(p.value + p.elapsed), p.period, p.value,
                          p.elapsed > Counted')]
    /\ pend' = [pend EXCEPT ![t] = None]
    /\ mutex' = IF t \in Lockers THEN Nobody ELSE mutex
    /\ UNCHANGED <<last_timer_raw, sem>>

\* Second half: the hardware is set to the new alarm if that is the sooner
\* one, and the row is filled in.
StoreAlarm(t) ==
    LET p == pend[t] IN
    /\ p # None
    /\ IF /\ total_sleep_time > p.elapsed
          /\ total_sleep_time - p.elapsed > p.value
       THEN /\ total_sleep_time' = Wrap(p.elapsed + p.value)
            /\ SetTimer(p.value)
       ELSE UNCHANGED <<total_sleep_time, hw, last_timer_val>>
    /\ timers' = [Losing(Lost(0, 0)) EXCEPT ![p.row] =
                    Alarm(Wrap(p.value + p.elapsed), p.period, p.value,
                          p.elapsed > Counted')]
    /\ pend' = [pend EXCEPT ![t] = None]
    /\ mutex' = IF t \in Lockers THEN Nobody ELSE mutex
    /\ UNCHANGED <<last_timer_raw, sem>>

\* MUTANT: the table shrinks whichever row is deleted.
BugDelAlarm(t, handle) ==
    /\ Enter(t) /\ pend[t] = None
    /\ timers' = [timers EXCEPT ![handle] = Free]
    /\ last_timer_raw' = last_timer_raw - 1
    /\ UNCHANGED <<total_sleep_time, last_timer_val, hw, sem, mutex, pend>>

\* DelAlarm: the table shrinks by its last row only.
DelAlarm(t, handle) ==
    /\ Enter(t) /\ pend[t] = None
    /\ timers' = [timers EXCEPT ![handle] = Free]
    /\ last_timer_raw' = IF handle = last_timer_raw THEN last_timer_raw - 1
                                                    ELSE last_timer_raw
    /\ UNCHANGED <<total_sleep_time, last_timer_val, hw, sem, mutex, pend>>

\* What a thread other than the dispatcher does.
Caller(t) ==
    /\ \/ \E value \in Values, period \in Periods : SetAlarm(t, value, period)
       \/ StoreAlarm(t)
       \/ \E handle \in Rows : DelAlarm(t, handle)
    /\ UNCHANGED <<dpc, row>>

----------------------------------------------------------------------------
(* The dispatcher thread                                                    *)

TakeSemaphore ==
    /\ dpc = "wait" /\ sem > 0 /\ mutex = Nobody
    /\ sem' = sem - 1
    /\ mutex' = Dispatcher
    /\ last_timer_val' = HwRead
    /\ dpc' = "dispatch"
    /\ UNCHANGED <<table, total_sleep_time, hw, pend, row>>

Armed == {i \in Rows : i <= last_timer_raw /\ timers[i].state = "armed"}

\* First loop of TimeDispatch: what becomes of a row.
After(r, total, overrun) ==
    CASE r.val > total -> [r EXCEPT !.val = r.val - total]
      [] r.val <= total /\ r.interval = 0 ->
             [r EXCEPT !.state = "trig", !.late = FALSE]
      [] OTHER -> [r EXCEPT !.state = "trig_period", !.late = FALSE,
                            !.val = r.interval - (overrun % r.interval)]

\* MUTANT: the next sleep does not regard the rows that are armed again.
BugAsleep(total, overrun) ==
    {timers[i].val - total : i \in {j \in Armed : timers[j].val > total}}

\* What the rows that stay in the table have left to sleep, and the soonest.
Asleep(total, overrun) ==
    {After(timers[i], total, overrun).val :
       i \in {j \in Armed : timers[j].val > total \/ timers[j].interval # 0}}

Soonest(S) == IF S = {} THEN TimevalMax
                        ELSE CHOOSE v \in S : \A w \in S : v <= w

\* MUTANT: the hardware is not set again for a sleep as long as the last one.
BugTimeDispatch ==
    /\ dpc = "dispatch"
    /\ LET overrun == ElapsedTime
           total   == Wrap(total_sleep_time + overrun)
           next    == Soonest(Asleep(total, overrun))
       IN  /\ total_sleep_time' = next
           /\ IF next = total_sleep_time THEN UNCHANGED <<hw, last_timer_val>>
                                         ELSE SetTimer(next)
           /\ timers' = [i \in Rows |->
                 IF i \in Armed
                 THEN After(Losing(Lost(0, total))[i], total, overrun)
                 ELSE timers[i]]
    /\ dpc' = "trig" /\ row' = 0
    /\ UNCHANGED <<last_timer_raw, sem, mutex, pend>>

TimeDispatch ==
    /\ dpc = "dispatch"
    /\ LET overrun == ElapsedTime
           total   == Wrap(total_sleep_time + overrun)
       IN  /\ total_sleep_time' = Soonest(Asleep(total, overrun))
           /\ SetTimer(Soonest(Asleep(total, overrun)))
           /\ timers' = [i \in Rows |->
                 IF i \in Armed
                 THEN After(Losing(Lost(0, total))[i], total, overrun)
                 ELSE timers[i]]
    /\ dpc' = "trig" /\ row' = 0
    /\ UNCHANGED <<last_timer_raw, sem, mutex, pend>>

\* Second loop: a row that is due is released, or armed again, and its
\* callback is called.
Trig ==
    /\ dpc = "trig" /\ row <= last_timer_raw
    /\ LET r == timers[row] IN
       CASE r.state = "trig" ->
              /\ timers' = [timers EXCEPT ![row] = Free]
              /\ dpc' = "callback" /\ UNCHANGED row
         [] r.state = "trig_period" ->
              /\ timers' = [timers EXCEPT ![row] =
                              Alarm(r.val, r.interval, r.interval, Counted < 0)]
              /\ dpc' = "callback" /\ UNCHANGED row
         [] OTHER -> row' = row + 1 /\ UNCHANGED <<timers, dpc>>
    /\ UNCHANGED <<last_timer_raw, total_sleep_time, last_timer_val, hw, sem,
                   mutex, pend>>

\* A callback sets and deletes alarms, as many as it likes, and returns.
Callback ==
    \/ /\ dpc = "callback" /\ UNCHANGED <<dpc, row>>
       /\ \E handle \in Rows : DelAlarm(Dispatcher, handle)
    \/ /\ dpc = "callback" /\ dpc' = "store" /\ UNCHANGED row
       /\ \E value \in Values, period \in Periods :
            SetAlarm(Dispatcher, value, period)
    \/ /\ dpc = "store" /\ dpc' = "callback" /\ UNCHANGED row
       /\ StoreAlarm(Dispatcher)

Return ==
    /\ dpc = "callback" /\ dpc' = "trig" /\ row' = row + 1
    /\ UNCHANGED <<table, total_sleep_time, last_timer_val, hw, sem, mutex,
                   pend>>

DispatchDone ==
    /\ dpc = "trig" /\ row > last_timer_raw
    /\ dpc' = "wait" /\ mutex' = Nobody /\ row' = 0
    /\ UNCHANGED <<table, total_sleep_time, last_timer_val, hw, sem, pend>>

Dispatch == TakeSemaphore \/ TimeDispatch \/ Trig \/ Callback \/ Return
            \/ DispatchDone

----------------------------------------------------------------------------
(* The hardware timer and time                                              *)

\* The interrupt of a one-shot: the counter stops and the semaphore is given.
Expire ==
    /\ hw.running /\ hw.count = hw.load /\ sem < MaxSem
    /\ hw' = [hw EXCEPT !.running = FALSE]
    /\ sem' = sem + 1
    /\ UNCHANGED <<table, total_sleep_time, last_timer_val, mutex, pend, dpc,
                   row>>

\* Time does not pass the moment a counter runs out before its interrupt.
Tick ==
    /\ ~(hw.running /\ hw.count = hw.load)
    /\ Instant => mutex = Nobody
    /\ hw' = IF ~hw.running THEN hw
             ELSE [hw EXCEPT !.count = hw.count + 1]
    /\ UNCHANGED <<last_timer_raw, total_sleep_time, last_timer_val, sem,
                   mutex, pend, dpc, row>>
    /\ LET waiting == Losing(Lost(1, 0)) IN
       timers' = [i \in Rows |-> IF waiting[i].left = 0 THEN waiting[i]
                                 ELSE [waiting[i] EXCEPT !.left = @ - 1]]

Next == \/ \E t \in Lockers \cup Strays : Caller(t)
        \/ Dispatch \/ Expire \/ Tick

\* Time passes, interrupts are taken, the dispatcher runs and gets the mutex
\* it waits for (it has the highest priority of the waiters), a callback
\* returns, and a SetAlarm that has begun is finished.  Nobody has to call
\* SetAlarm or DelAlarm.
Spec == /\ Init /\ [][Next]_vars
        /\ WF_vars(Tick) /\ WF_vars(Expire)
        /\ WF_vars(Dispatch) /\ SF_vars(TakeSemaphore) /\ SF_vars(Return)
        /\ \A t \in Lockers \cup Strays :
             WF_vars(StoreAlarm(t) /\ UNCHANGED <<dpc, row>>)

----------------------------------------------------------------------------
(* Properties                                                               *)

States == {"free", "armed", "trig", "trig_period"}

\* The types of the table, the hardware timer, the semaphore and the threads.
TypeOK ==
    /\ timers \in [Rows -> [state : States, val : 0..TimevalMax,
                            interval : Periods \cup {0}, left : Nat,
                            late : BOOLEAN]]
    /\ last_timer_raw \in -1..N - 1
    /\ total_sleep_time \in 0..TimevalMax /\ last_timer_val \in 0..TimevalMax
    /\ hw \in [running : BOOLEAN, load : 1..TimevalMax + MinTimeout,
               count : Nat]
    /\ hw.count <= hw.load
    /\ sem \in 0..MaxSem
    /\ mutex \in Threads \cup {Nobody}
    /\ pend \in [Threads -> {None} \cup
                   [row : Rows, value : Values, period : Periods,
                    elapsed : 0..TimevalMax]]
    /\ dpc \in {"wait", "dispatch", "trig", "callback", "store"}
    /\ row \in 0..N /\ (dpc \in {"callback", "store"} => row < N)

\* The loops of TimeDispatch stop at last_timer_raw: an alarm above it would
\* never be looked at again, whatever was deleted before it.
RowsBelowLast ==
    \A i \in Rows : timers[i].state # "free" => i <= last_timer_raw

\* An alarm is overslept by nothing but time the table lost while it waited:
\* else the hardware wakes the dispatcher no later than the moment it is due,
\* whatever is set, deleted, called or set again meanwhile, and whichever of
\* these restarted the hardware.  The code loses time between an interrupt and
\* its dispatch, when setTimer is called again before a dispatch, and by the
\* shortest time-out.
WakesInTime ==
    \A i \in Rows : timers[i].state = "armed" /\ ~timers[i].late
                      => hw.load - hw.count <= timers[i].left

\* While nobody is inside the table and an alarm is armed, the dispatcher is
\* about to run or the hardware counts a sleep that is not the idle one.
AlarmWatched ==
    mutex = Nobody /\ (\E i \in Rows : timers[i].state = "armed")
      => sem > 0 \/ (hw.running /\ hw.load < TimevalMax)

\* A SetAlarm that returns has a row of its own: it does not take the place
\* of an alarm set meanwhile ("Set an alarm to execute a callback function
\* when expired").
OwnRow ==
    [][\A t \in Threads :
         pend[t] # None /\ pend'[t] = None
           => timers[pend[t].row].state # "armed"]_vars

\* A callback is not called before the delay its alarm asked for has passed
\* ("Call the callback function at current time + value").
NeverEarly ==
    \A i \in Rows : timers[i].state \in {"trig", "trig_period"}
                      => timers[i].left = 0

\* Every alarm that is set is called or deleted, whatever other alarms are
\* set, deleted and set again, for ever, as long as they are not set for at
\* once: then the time that passes before each is never counted.
AlarmServed ==
    \A i \in Rows : timers[i].state = "armed" ~> timers[i].state # "armed"

----------------------------------------------------------------------------
(* What the table implements                                                *)

\* A row seen as an alarm.
AlarmOf(r) ==
    CASE r.state = "free" -> [status |-> "free", period |-> 0]
      [] r.state = "armed" -> [status |-> "set", period |-> r.interval]
      [] OTHER -> [status |-> "due", period |-> r.interval]

Round == CASE dpc \in {"wait", "dispatch"} -> "idle"
           [] dpc = "trig" -> "round"
           [] dpc \in {"callback", "store"} -> "callback"

Service == INSTANCE AlarmService WITH
    Handles <- Rows, at <- Round,
    alarms <- [i \in Rows |-> AlarmOf(timers[i])]

\* An alarm is set on a free row only, is called once and in the order of the
\* rows each time it falls due, unless it is deleted first, and is then free
\* or armed again; a dispatch calls all that fell due before it ends, and
\* while it runs only its own callbacks set and delete alarms.
AlarmSpec == Service!Spec
============================================================================
