-------------------------- MODULE CanTimerProofs --------------------------
(***************************************************************************)
(* Proofs about the alarm table, for every number of rows, every delay and *)
(* period below the longest count, and every set of threads: the types,    *)
(* and, when every thread takes the mutex, that no alarm is out of the     *)
(* dispatcher's reach, unwatched or overwritten, and none is overslept     *)
(* but for time the table has lost.                                        *)
(***************************************************************************)
EXTENDS CanTimer, WellFoundedInduction, TLAPS

----------------------------------------------------------------------------
(* Arithmetic                                                               *)

\* A set of natural numbers that has an element has a least one.
LEMMA LeastNat ==
    ASSUME NEW T \in SUBSET Nat, T # {}
    PROVE  \E x \in T : \A y \in T : x <= y
<1>1. PICK x \in T : \A y \in T : ~ (<<y, x>> \in OpToRel(<, Nat))
  BY NatLessThanWellFounded, WFMin
<1>2. \A y \in T : ~ (y < x)
  BY <1>1 DEF OpToRel
<1> QED BY <1>2

LEMMA ValueFacts ==
    /\ \A x \in Values : x \in 0..MaxCount - 1
    /\ \A x \in Values : x \in 0..TimevalMax /\ x \in Int /\ x < MaxCount
  BY TimerAssumption

LEMMA WrapType ==
    ASSUME NEW x \in Int
    PROVE  /\ Wrap(x) \in 0..TimevalMax
           /\ x \in 0..TimevalMax => Wrap(x) = x
  BY TimerAssumption DEF Wrap

\* The next sleep is the least of what the rows have left, or the idle sleep.
LEMMA SoonestType ==
    ASSUME NEW S \in SUBSET (1..TimevalMax)
    PROVE  /\ Soonest(S) \in 1..TimevalMax
           /\ \A w \in S : Soonest(S) <= w
<1>1. CASE S = {}
  BY <1>1, TimerAssumption DEF Soonest
<1>2. CASE S # {}
  <2>1. \E v \in S : \A w \in S : v <= w
    BY <1>2, LeastNat, TimerAssumption
  <2>2. Soonest(S) \in S /\ \A w \in S : Soonest(S) <= w
    BY <1>2, <2>1 DEF Soonest
  <2> QED BY <2>2
<1> QED BY <1>1, <1>2

LEMMA ReadType ==
    ASSUME TypeOK
    PROVE  /\ HwRead \in 0..TimevalMax
           /\ HwRead <= MaxCount
           /\ ElapsedTime \in 0..TimevalMax
           /\ last_timer_val = 0 => ElapsedTime = HwRead
<1>1. hw.count \in Nat /\ hw.load \in 1..TimevalMax + MinTimeout
      /\ hw.count <= hw.load /\ last_timer_val \in 0..TimevalMax
  BY DEF TypeOK
<1>2. hw.count % MaxCount \in 0..MaxCount - 1
  BY <1>1, TimerAssumption
<1>3. HwRead \in 0..TimevalMax /\ HwRead <= MaxCount
  BY <1>1, <1>2, TimerAssumption DEF HwRead
<1>4. HwRead - last_timer_val \in Int
  BY <1>1, <1>3
<1>5. ElapsedTime \in 0..TimevalMax
  BY <1>4, WrapType DEF ElapsedTime
<1>6. last_timer_val = 0 => ElapsedTime = HwRead
  BY <1>3, WrapType DEF ElapsedTime
<1> QED BY <1>3, <1>5, <1>6

\* A value is raised by no more than the shortest time-out, and never empty.
LEMMA LoadType ==
    ASSUME NEW value \in 0..TimevalMax
    PROVE  /\ Load(value) \in 1..TimevalMax + MinTimeout
           /\ value <= Load(value) /\ Load(value) <= value + MinTimeout
<1>1. value \in Nat /\ value <= TimevalMax
      /\ Second \in Nat \ {0} /\ MinTimeout \in Nat \ {0} /\ TimevalMax \in Nat
  BY TimerAssumption
<1> DEFINE r == value % Second
<1>2. r \in 0..Second - 1
  BY <1>1
<1>3. value = 0 => r = 0
  BY <1>1
<1>4. Load(value) = IF r < MinTimeout THEN value + (MinTimeout - r) ELSE value
  BY DEF Load
<1> HIDE DEF r
<1>5. CASE r < MinTimeout
  <2>1. MinTimeout - r \in 1..MinTimeout /\ r \in Nat
    BY <1>1, <1>2, <1>5
  <2> QED BY <1>1, <1>4, <1>5, <2>1
<1>6. CASE ~ (r < MinTimeout)
  <2>1. value # 0
    BY <1>1, <1>3, <1>6
  <2> QED BY <1>1, <1>4, <1>6, <2>1
<1> QED BY <1>5, <1>6

LEMMA SetTimerType ==
    ASSUME NEW value \in 0..TimevalMax, SetTimer(value)
    PROVE  /\ hw' \in [running : BOOLEAN, load : 1..TimevalMax + MinTimeout,
                       count : Nat]
           /\ hw'.count <= hw'.load
           /\ hw'.load = Load(value) /\ hw'.count = 0
           /\ hw'.running = TRUE /\ last_timer_val' = 0
<1> DEFINE l == Load(value)
<1>1. l \in 1..TimevalMax + MinTimeout /\ 0 <= l
  BY LoadType, TimerAssumption
<1>2. hw' = [running |-> TRUE, load |-> l, count |-> 0] /\ last_timer_val' = 0
  BY DEF SetTimer
<1> HIDE DEF l
<1>3. hw'.load = l /\ hw'.count = 0 /\ hw'.running = TRUE
  BY <1>2
<1> QED BY <1>1, <1>2, <1>3 DEF l

Entry == [state : States, val : 0..TimevalMax, interval : Periods \cup {0},
          left : Nat, late : BOOLEAN]

\* What the first loop of TimeDispatch makes of an armed row.
LEMMA AfterType ==
    ASSUME NEW r \in Entry, r.state = "armed",
           NEW total \in 0..TimevalMax, NEW overrun \in 0..TimevalMax
    PROVE  /\ After(r, total, overrun) \in Entry
           /\ After(r, total, overrun).state # "free"
           /\ r.val > total \/ r.interval # 0
                => After(r, total, overrun).val \in 1..TimevalMax
           /\ After(r, total, overrun).state \in {"armed", "trig_period"}
                => r.val > total \/ r.interval # 0
           /\ After(r, total, overrun).val <= r.val
              \/ After(r, total, overrun).val < MaxCount
<1>1. CASE r.val > total
  <2>1. After(r, total, overrun) = [r EXCEPT !.val = r.val - total]
    BY <1>1 DEF After, Entry
  <2>2. r.val - total \in 1..TimevalMax /\ r.val - total <= r.val
    BY <1>1, TimerAssumption DEF Entry
  <2> QED BY <1>1, <2>1, <2>2, TimerAssumption DEF Entry
<1>2. CASE ~ (r.val > total) /\ r.interval = 0
  <2>1. After(r, total, overrun) = [r EXCEPT !.state = "trig", !.late = FALSE]
    BY <1>2, TimerAssumption DEF After, Entry
  <2> DEFINE a == After(r, total, overrun)
  <2>2. a \in Entry /\ a.state = "trig" /\ a.val = r.val
    BY <2>1 DEF Entry, States
  <2>3. a.val <= r.val
    BY <2>2, TimerAssumption DEF Entry
  <2> QED BY <1>2, <2>2, <2>3
<1>3. CASE ~ (r.val > total) /\ r.interval # 0
  <2> DEFINE v == r.interval - (overrun % r.interval)
  <2>1. After(r, total, overrun) =
          [r EXCEPT !.state = "trig_period", !.late = FALSE, !.val = v]
    <3>1. ~ (r.val > total) /\ ~ (r.val <= total /\ r.interval = 0)
      BY <1>3
    <3> QED BY ONLY <3>1, Zenon DEF After, v
  <2>2. r.interval \in 1..MaxCount - 1
    <3>1. \A x \in Periods : x \in 0..MaxCount - 1
      BY TimerAssumption
    <3>2. \A x \in Periods \cup {0} : x # 0 => x \in 1..MaxCount - 1
      BY <3>1, TimerAssumption
    <3>3. r.interval \in Periods \cup {0} /\ r.interval # 0
      BY <1>3 DEF Entry
    <3> QED BY <3>2, <3>3
  <2>3. overrun % r.interval \in 0..r.interval - 1
    BY <2>2
  <2>4. v \in 1..TimevalMax /\ v < MaxCount
    BY <2>2, <2>3, TimerAssumption
  <2>5. v \in Int
    BY <2>2, <2>3, TimerAssumption
  <2> HIDE DEF v
  <2> DEFINE a == After(r, total, overrun)
  <2>6. a.state = "trig_period" /\ a.val = v
    BY <2>1 DEF Entry
  <2>7. a \in Entry
    <3>1. v \in 0..TimevalMax
      BY <2>4, TimerAssumption
    <3> QED BY <2>1, <3>1 DEF Entry, States
  <2> QED BY <1>3, <2>4, <2>6, <2>7
<1> QED BY <1>1, <1>2, <1>3

\* What becomes of a row depends on what it holds, not on its ghosts.
LEMMA AfterVal ==
    ASSUME NEW r \in Entry, NEW s \in Entry, r.state = s.state, r.val = s.val,
           r.interval = s.interval,
           NEW total \in 0..TimevalMax, NEW overrun \in 0..TimevalMax
    PROVE  After(s, total, overrun).val = After(r, total, overrun).val
<1>1. r.val > total \/ r.val <= total
  BY TimerAssumption DEF Entry
<1>2. CASE r.val > total
  BY <1>2 DEF After, Entry
<1>3. CASE ~ (r.val > total) /\ r.interval = 0
  BY <1>1, <1>3 DEF After, Entry
<1>4. CASE ~ (r.val > total) /\ r.interval # 0
  <2> DEFINE v == r.interval - (overrun % r.interval)
             w == s.interval - (overrun % s.interval)
  <2>1. v = w
    OBVIOUS
  <2>2. After(r, total, overrun) =
          [r EXCEPT !.state = "trig_period", !.late = FALSE, !.val = v]
    BY <1>4, Zenon DEF After
  <2>3. After(s, total, overrun) =
          [s EXCEPT !.state = "trig_period", !.late = FALSE, !.val = w]
    BY <1>4, Zenon DEF After
  <2> HIDE DEF v, w
  <2> QED BY <2>1, <2>2, <2>3 DEF Entry
<1> QED BY <1>2, <1>3, <1>4

\* An alarm that is marked late is an alarm all the same.
LEMMA LosingType ==
    ASSUME TypeOK, NEW lost \in BOOLEAN, NEW i \in Rows
    PROVE  LET r == timers[i]
               s == Losing(lost)[i]
           IN  /\ s \in Entry
               /\ s.state = r.state /\ s.val = r.val /\ s.left = r.left
               /\ s.interval = r.interval
               /\ r.late => s.late
               /\ ~lost \/ r.state # "armed" => s = r
               /\ lost /\ r.state = "armed" => s.late
<1>1. timers[i] \in Entry
  BY DEF TypeOK, Entry
<1>2. Losing(lost)[i] = IF lost /\ timers[i].state = "armed"
                        THEN [timers[i] EXCEPT !.late = TRUE] ELSE timers[i]
  BY DEF Losing
<1> QED BY <1>1, <1>2 DEF Entry

LEMMA LosingTable ==
    ASSUME TypeOK, NEW lost \in BOOLEAN
    PROVE  Losing(lost) \in [Rows -> Entry]
  BY LosingType DEF Losing

\* An alarm that has just been set, or set again.
LEMMA AlarmType ==
    ASSUME NEW val \in 0..TimevalMax, NEW period \in Periods \cup {0},
           NEW value \in Nat, NEW late \in BOOLEAN
    PROVE  LET a == Alarm(val, period, value, late)
           IN  /\ a \in Entry /\ a.state = "armed"
               /\ a.val = val /\ a.left = value /\ a.interval = period
               /\ a.late = late
  BY DEF Alarm, Entry, States

LEMMA FreeType == Free \in Entry /\ Free.state = "free" /\ Free.interval = 0
  BY TimerAssumption DEF Free, Entry, States

LEMMA AsleepType ==
    ASSUME TypeOK, NEW total \in 0..TimevalMax,
           NEW overrun \in 0..TimevalMax
    PROVE  Asleep(total, overrun) \in SUBSET (1..TimevalMax)
<1> SUFFICES ASSUME NEW i \in Armed,
                    timers[i].val > total \/ timers[i].interval # 0
             PROVE  After(timers[i], total, overrun).val \in 1..TimevalMax
  BY DEF Asleep
<1>1. timers[i] \in Entry /\ timers[i].state = "armed"
  BY DEF TypeOK, Entry, Armed
<1> QED BY <1>1, AfterType

----------------------------------------------------------------------------
(* Types                                                                    *)

Pending == [row : Rows, value : Values, period : Periods,
            elapsed : 0..TimevalMax]

LEMMA ThreadFacts ==
    /\ Dispatcher \in Threads /\ Dispatcher # Nobody
    /\ Dispatcher \notin Lockers \cup Strays
    /\ Nobody \notin Threads
  BY ThreadAssumption DEF Threads, Dispatcher, Nobody

LEMMA SetAlarmType ==
    ASSUME TypeOK, NEW t \in Threads, NEW value \in Values,
           NEW period \in Periods, SetAlarm(t, value, period)
    PROVE  /\ last_timer_raw' \in -1..N - 1
           /\ pend' \in [Threads -> {None} \cup Pending]
           /\ mutex' \in Threads \cup {Nobody}
<1>1. PICK r \in Rows :
        /\ last_timer_raw' = IF r = last_timer_raw + 1 THEN r
                                                       ELSE last_timer_raw
        /\ pend' = [pend EXCEPT ![t] = [row |-> r, value |-> value,
                        period |-> period, elapsed |-> ElapsedTime]]
  BY DEF SetAlarm
<1>2. last_timer_raw' \in -1..N - 1
  BY <1>1, TimerAssumption DEF TypeOK, Rows
<1>3. [row |-> r, value |-> value, period |-> period,
       elapsed |-> ElapsedTime] \in Pending
  BY ReadType DEF Pending
<1>4. pend \in [Threads -> {None} \cup Pending]
  BY DEF TypeOK, Pending
<1>5. pend' \in [Threads -> {None} \cup Pending]
  BY <1>1, <1>3, <1>4
<1>6. mutex' \in Threads \cup {Nobody}
  BY DEF SetAlarm, TypeOK
<1> QED BY <1>2, <1>5, <1>6

LEMMA StoreAlarmType ==
    ASSUME TypeOK, NEW t \in Threads, StoreAlarm(t)
    PROVE  /\ timers' \in [Rows -> Entry]
           /\ total_sleep_time' \in 0..TimevalMax
           /\ last_timer_val' \in 0..TimevalMax
           /\ hw' \in [running : BOOLEAN, load : 1..TimevalMax + MinTimeout,
                       count : Nat]
           /\ hw'.count <= hw'.load
           /\ pend' \in [Threads -> {None} \cup Pending]
           /\ mutex' \in Threads \cup {Nobody}
<1> DEFINE p == pend[t]
<1>1. p \in Pending
  BY DEF TypeOK, Pending, StoreAlarm
<1>2. p.row \in Rows /\ p.value \in Values /\ p.period \in Periods
      /\ p.elapsed \in 0..TimevalMax
  BY <1>1 DEF Pending
<1>3. p.value \in 0..TimevalMax /\ p.value \in Int /\ p.elapsed \in Int
  <2>1. p.value \in 0..TimevalMax /\ p.value \in Int
    BY <1>2, ValueFacts
  <2>2. \A x \in 0..TimevalMax : x \in Int
    BY TimerAssumption
  <2> QED BY <1>2, <2>1, <2>2
<1>4. Wrap(p.elapsed + p.value) \in 0..TimevalMax
      /\ Wrap(p.value + p.elapsed) \in 0..TimevalMax
  BY <1>3, WrapType
<1> DEFINE lost == Lost(0, 0)
           late == p.elapsed > Counted'
           a    == Alarm(Wrap(p.value + p.elapsed), p.period, p.value, late)
<1>5. timers' = [Losing(lost) EXCEPT ![p.row] = a]
  BY DEF StoreAlarm
<1>6. a \in Entry
  <2>1. p.period \in Periods \cup {0} /\ p.value \in Nat /\ late \in BOOLEAN
    BY <1>2, <1>3
  <2> HIDE DEF late
  <2> QED BY <1>4, <2>1, AlarmType
<1>7. timers' \in [Rows -> Entry]
  <2>1. lost \in BOOLEAN
    BY DEF Lost
  <2> HIDE DEF a, lost
  <2>2. Losing(lost) \in [Rows -> Entry]
    BY <2>1, LosingTable
  <2> QED BY <1>2, <1>5, <1>6, <2>2
<1> HIDE DEF a, lost, late
<1>8. pend' \in [Threads -> {None} \cup Pending]
      /\ mutex' \in Threads \cup {Nobody}
  BY DEF StoreAlarm, TypeOK, Pending
<1>9. CASE /\ total_sleep_time' = Wrap(p.elapsed + p.value)
           /\ SetTimer(p.value)
  <2>1. SetTimer(p.value) /\ p.value \in 0..TimevalMax
    BY <1>3, <1>9
  <2> HIDE DEF p
  <2>2. /\ hw' \in [running : BOOLEAN, load : 1..TimevalMax + MinTimeout,
                    count : Nat]
        /\ hw'.count <= hw'.load /\ last_timer_val' = 0
    BY <2>1, SetTimerType
  <2>3. 0 \in 0..TimevalMax
    BY TimerAssumption
  <2> QED BY <1>4, <1>7, <1>8, <1>9, <2>2, <2>3
<1>10. CASE UNCHANGED <<total_sleep_time, hw, last_timer_val>>
  BY <1>7, <1>8, <1>10 DEF TypeOK
<1> QED BY <1>9, <1>10 DEF StoreAlarm

LEMMA DelAlarmType ==
    ASSUME TypeOK, NEW t \in Threads, NEW handle \in Rows,
           DelAlarm(t, handle)
    PROVE  /\ timers' \in [Rows -> Entry]
           /\ last_timer_raw' \in -1..N - 1
<1>1. /\ timers' = [timers EXCEPT ![handle] = Free]
      /\ last_timer_raw' = IF handle = last_timer_raw THEN last_timer_raw - 1
                                                      ELSE last_timer_raw
  BY DEF DelAlarm
<1>2. timers \in [Rows -> Entry] /\ last_timer_raw \in -1..N - 1
  BY DEF TypeOK, Entry
<1>3. timers' \in [Rows -> Entry]
  BY <1>1, <1>2, FreeType
<1>4. last_timer_raw' \in -1..N - 1
  BY <1>1, <1>2, TimerAssumption DEF Rows
<1> QED BY <1>3, <1>4

\* A row that is armed is looked at as it is, or marked late.
LEMMA DispatchRows ==
    ASSUME TypeOK, TimeDispatch
    PROVE  LET overrun == ElapsedTime
               total   == Wrap(total_sleep_time + overrun)
               s       == Losing(Lost(0, total))
           IN  /\ overrun \in 0..TimevalMax /\ total \in 0..TimevalMax
               /\ \A i \in Armed :
                    /\ timers'[i] = After(s[i], total, overrun)
                    /\ s[i] \in Entry /\ s[i].state = "armed"
                    /\ s[i].val = timers[i].val /\ s[i].left = timers[i].left
                    /\ s[i].interval = timers[i].interval
                    /\ ~ s[i].late => ~ Lost(0, total) /\ ~ timers[i].late
               /\ \A i \in Rows : i \notin Armed => timers'[i] = timers[i]
               /\ timers' = [i \in Rows |-> timers'[i]]
               /\ total_sleep_time' = Soonest(Asleep(total, overrun))
               /\ SetTimer(Soonest(Asleep(total, overrun)))
<1> DEFINE overrun == ElapsedTime
           total   == Wrap(total_sleep_time + overrun)
           lost    == Lost(0, total)
           s       == Losing(lost)
<1>1. overrun \in 0..TimevalMax /\ total \in 0..TimevalMax
  BY ReadType, WrapType, TimerAssumption DEF TypeOK
<1>2. /\ timers' = [i \in Rows |-> IF i \in Armed THEN After(s[i], total, overrun)
                                                ELSE timers[i]]
      /\ total_sleep_time' = Soonest(Asleep(total, overrun))
      /\ SetTimer(Soonest(Asleep(total, overrun)))
  BY DEF TimeDispatch
<1>3. lost \in BOOLEAN
  BY DEF Lost
<1> HIDE DEF lost, overrun, total
<1>4. ASSUME NEW i \in Armed
      PROVE  /\ s[i] \in Entry /\ s[i].state = "armed"
             /\ s[i].val = timers[i].val /\ s[i].left = timers[i].left
             /\ s[i].interval = timers[i].interval
             /\ ~ s[i].late => ~ lost /\ ~ timers[i].late
  <2>1. i \in Rows /\ timers[i].state = "armed"
    BY DEF Armed
  <2> QED BY <1>3, <2>1, LosingType
<1> HIDE DEF s
<1>5. /\ \A i \in Armed : i \in Rows /\ timers'[i] = After(s[i], total, overrun)
      /\ \A i \in Rows : i \notin Armed => timers'[i] = timers[i]
      /\ timers' = [i \in Rows |-> timers'[i]]
  BY <1>2 DEF Armed
<1> QED BY <1>1, <1>2, <1>4, <1>5 DEF lost, overrun, total, s

LEMMA DispatchType ==
    ASSUME TypeOK, TimeDispatch
    PROVE  /\ timers' \in [Rows -> Entry]
           /\ total_sleep_time' \in 1..TimevalMax
           /\ hw'.running = TRUE /\ hw'.count = 0
           /\ hw'.load = Load(total_sleep_time')
           /\ hw' \in [running : BOOLEAN, load : 1..TimevalMax + MinTimeout,
                       count : Nat]
           /\ hw'.count <= hw'.load
           /\ last_timer_val' = 0
<1> DEFINE overrun == ElapsedTime
           total   == Wrap(total_sleep_time + overrun)
           s       == Losing(Lost(0, total))
<1>1. overrun \in 0..TimevalMax /\ total \in 0..TimevalMax
  BY DispatchRows
<1>2. Asleep(total, overrun) \in SUBSET (1..TimevalMax)
  BY <1>1, AsleepType
<1>3. /\ \A i \in Armed : timers'[i] = After(s[i], total, overrun)
      /\ \A i \in Armed : s[i] \in Entry /\ s[i].state = "armed"
      /\ \A i \in Rows : i \notin Armed => timers'[i] = timers[i]
      /\ timers' = [i \in Rows |-> timers'[i]]
      /\ total_sleep_time' = Soonest(Asleep(total, overrun))
      /\ SetTimer(Soonest(Asleep(total, overrun)))
  BY DispatchRows
<1> HIDE DEF overrun, total, s
<1>4. Soonest(Asleep(total, overrun)) \in 1..TimevalMax
  BY <1>2, SoonestType
<1>5. timers' \in [Rows -> Entry]
  <2> SUFFICES ASSUME NEW i \in Rows PROVE timers'[i] \in Entry
    BY <1>3
  <2>1. timers[i] \in Entry
    BY DEF TypeOK, Entry
  <2>2. CASE i \in Armed
    BY <1>1, <1>3, <2>2, AfterType
  <2> QED BY <1>3, <2>1, <2>2
<1>6. total_sleep_time' \in 0..TimevalMax /\ SetTimer(total_sleep_time')
  BY <1>3, <1>4, TimerAssumption
<1> QED BY <1>3, <1>4, <1>5, <1>6, SetTimerType

\* TypeOK in the words of these proofs.
LEMMA TypeParts ==
    TypeOK <=>
      /\ timers \in [Rows -> Entry]
      /\ last_timer_raw \in -1..N - 1
      /\ total_sleep_time \in 0..TimevalMax /\ last_timer_val \in 0..TimevalMax
      /\ hw \in [running : BOOLEAN, load : 1..TimevalMax + MinTimeout,
                 count : Nat]
      /\ hw.count <= hw.load
      /\ sem \in 0..MaxSem
      /\ mutex \in Threads \cup {Nobody}
      /\ pend \in [Threads -> {None} \cup Pending]
      /\ dpc \in {"wait", "dispatch", "trig", "callback", "store"}
      /\ row \in 0..N /\ (dpc \in {"callback", "store"} => row < N)
  BY DEF TypeOK, Entry, Pending

LEMMA TypePartsNext ==
    TypeOK' <=>
      /\ timers' \in [Rows -> Entry]
      /\ last_timer_raw' \in -1..N - 1
      /\ total_sleep_time' \in 0..TimevalMax
      /\ last_timer_val' \in 0..TimevalMax
      /\ hw' \in [running : BOOLEAN, load : 1..TimevalMax + MinTimeout,
                  count : Nat]
      /\ hw'.count <= hw'.load
      /\ sem' \in 0..MaxSem
      /\ mutex' \in Threads \cup {Nobody}
      /\ pend' \in [Threads -> {None} \cup Pending]
      /\ dpc' \in {"wait", "dispatch", "trig", "callback", "store"}
      /\ row' \in 0..N /\ (dpc' \in {"callback", "store"} => row' < N)
  BY DEF TypeOK, Entry, Pending

LEMMA InitType == Init => TypeOK
<1> SUFFICES ASSUME Init PROVE TypeOK
  OBVIOUS
<1>1. PICK boot \in Values \ {0} :
        /\ timers = [i \in Rows |-> IF i # 0 THEN Free
                        ELSE Alarm(boot, 0, boot, boot < Load(boot))]
        /\ total_sleep_time = boot
        /\ hw = [running |-> TRUE, load |-> Load(boot), count |-> 0]
  BY DEF Init
<1>2. boot \in 1..TimevalMax /\ boot \in 0..TimevalMax /\ boot \in Nat
  BY ValueFacts
<1> DEFINE late == boot < Load(boot)
           a    == Alarm(boot, 0, boot, late)
           l    == Load(boot)
<1>3. late \in BOOLEAN /\ Free \in Entry
  BY FreeType
<1>4. a \in Entry
  <2> HIDE DEF late
  <2> QED BY <1>2, <1>3, AlarmType
<1> HIDE DEF a
<1>5. timers \in [Rows -> Entry]
  BY <1>1, <1>3, <1>4 DEF a
<1>6. pend \in [Threads -> {None} \cup Pending]
  BY DEF Init
<1>7. /\ last_timer_raw \in -1..N - 1 /\ last_timer_val \in 0..TimevalMax
      /\ sem \in 0..MaxSem /\ row \in 0..N
      /\ mutex \in Threads \cup {Nobody} /\ dpc = "wait"
  BY TimerAssumption DEF Init
<1>8. l \in 1..TimevalMax + MinTimeout /\ 0 <= l
  BY <1>2, LoadType, TimerAssumption
<1>9. hw = [running |-> TRUE, load |-> l, count |-> 0]
  BY <1>1
<1> HIDE DEF l
<1>10. /\ hw \in [running : BOOLEAN, load : 1..TimevalMax + MinTimeout,
                  count : Nat]
       /\ hw.count <= hw.load
  BY <1>8, <1>9
<1> QED BY <1>1, <1>2, <1>5, <1>6, <1>7, <1>10, TypeParts

\* A row that waits has less left, and may be marked late.
LEMMA TickRows ==
    ASSUME TypeOK, Tick, NEW i \in Rows
    PROVE  LET r == timers[i]
               s == timers'[i]
           IN  /\ s \in Entry
               /\ s.state = r.state /\ s.val = r.val
               /\ s.interval = r.interval
               /\ r.left - 1 <= s.left
               /\ s.state = "armed" /\ ~ s.late => ~ r.late /\ ~ Lost(1, 0)
<1> DEFINE lost == Lost(1, 0)
           w    == Losing(lost)[i]
<1>1. lost \in BOOLEAN
  BY DEF Lost
<1>2. timers'[i] = IF w.left = 0 THEN w ELSE [w EXCEPT !.left = w.left - 1]
  BY DEF Tick
<1> HIDE DEF lost
<1>3. /\ w \in Entry
      /\ w.state = timers[i].state /\ w.val = timers[i].val
      /\ w.left = timers[i].left /\ w.interval = timers[i].interval
      /\ w.state = "armed" /\ ~ w.late => ~ timers[i].late /\ ~ lost
  BY <1>1, LosingType
<1> HIDE DEF w
<1>4. w.left \in Nat /\ (w.left # 0 => w.left - 1 \in Nat)
  BY <1>3 DEF Entry
<1>5. CASE w.left = 0
  BY <1>2, <1>3, <1>4, <1>5 DEF lost
<1>6. CASE w.left # 0
  <2>1. timers'[i] = [w EXCEPT !.left = w.left - 1]
    BY <1>2, <1>6
  <2>2. timers'[i] \in Entry /\ timers'[i].left = w.left - 1
        /\ timers'[i].state = w.state /\ timers'[i].val = w.val
        /\ timers'[i].interval = w.interval /\ timers'[i].late = w.late
    BY <1>3, <1>4, <1>6, <2>1 DEF Entry
  <2> QED BY <1>3, <1>4, <2>2 DEF lost
<1> QED BY <1>5, <1>6

LEMMA TypeStep == TypeOK /\ [Next]_vars => TypeOK'
<1> SUFFICES ASSUME TypeOK, [Next]_vars PROVE TypeOK'
  OBVIOUS
<1>0. Dispatcher \in Threads /\ \A t \in Lockers \cup Strays : t \in Threads
  BY ThreadFacts DEF Threads
<1>1. ASSUME NEW t \in Lockers \cup Strays, Caller(t) PROVE TypeOK'
  <2>0. t \in Threads /\ UNCHANGED <<dpc, row>>
    BY <1>0, <1>1 DEF Caller
  <2>1. CASE \E value \in Values, period \in Periods :
               SetAlarm(t, value, period)
    <3>1. PICK value \in Values, period \in Periods :
            SetAlarm(t, value, period)
      BY <2>1
    <3>2. UNCHANGED <<timers, total_sleep_time, last_timer_val, hw, sem>>
      BY <3>1 DEF SetAlarm
    <3> QED BY <2>0, <3>1, <3>2, SetAlarmType, TypeParts, TypePartsNext
  <2>2. CASE StoreAlarm(t)
    <3>1. UNCHANGED <<last_timer_raw, sem>>
      BY <2>2 DEF StoreAlarm
    <3> QED BY <2>0, <2>2, <3>1, StoreAlarmType, TypeParts, TypePartsNext
  <2>3. CASE \E handle \in Rows : DelAlarm(t, handle)
    <3>1. PICK handle \in Rows : DelAlarm(t, handle)
      BY <2>3
    <3>2. UNCHANGED <<total_sleep_time, last_timer_val, hw, sem, mutex, pend>>
      BY <3>1 DEF DelAlarm
    <3> QED BY <2>0, <3>1, <3>2, DelAlarmType, TypeParts, TypePartsNext
  <2> QED BY <1>1, <2>1, <2>2, <2>3 DEF Caller
<1>2. CASE TakeSemaphore
  <2>1. /\ sem' \in 0..MaxSem /\ mutex' \in Threads \cup {Nobody}
        /\ last_timer_val' \in 0..TimevalMax /\ dpc' = "dispatch"
    BY <1>0, <1>2, ReadType, TypeParts, TimerAssumption DEF TakeSemaphore
  <2>2. UNCHANGED <<table, total_sleep_time, hw, pend, row>>
    BY <1>2 DEF TakeSemaphore
  <2> QED BY <2>1, <2>2, TypeParts, TypePartsNext DEF table
<1>3. CASE TimeDispatch
  <2>1. /\ UNCHANGED <<last_timer_raw, sem, mutex, pend>>
        /\ dpc' = "trig" /\ row' = 0
    BY <1>3 DEF TimeDispatch
  <2>2. /\ timers' \in [Rows -> Entry]
        /\ total_sleep_time' \in 0..TimevalMax
        /\ hw' \in [running : BOOLEAN, load : 1..TimevalMax + MinTimeout,
                    count : Nat]
        /\ hw'.count <= hw'.load
        /\ last_timer_val' \in 0..TimevalMax /\ row' \in 0..N
    BY <1>3, <2>1, DispatchType, TimerAssumption
  <2> QED BY <2>1, <2>2, TypeParts, TypePartsNext
<1>4. CASE Trig
  <2>1. /\ UNCHANGED <<last_timer_raw, total_sleep_time, last_timer_val, hw,
                       sem, mutex, pend>>
        /\ dpc = "trig" /\ row <= last_timer_raw
    BY <1>4 DEF Trig
  <2>2. row \in Rows /\ row < N /\ timers \in [Rows -> Entry]
    BY <2>1, TypeParts, TimerAssumption DEF Rows
  <2> DEFINE r == timers[row]
  <2>3. r \in Entry
    BY <2>2
  <2>4. CASE /\ timers' = [timers EXCEPT ![row] = Free]
             /\ dpc' = "callback" /\ UNCHANGED row
    <3>1. timers' \in [Rows -> Entry]
      BY <2>2, <2>4, FreeType
    <3> QED BY <2>1, <2>2, <2>4, <3>1, TypeParts, TypePartsNext
  <2> DEFINE late == Counted < 0
             a    == Alarm(r.val, r.interval, r.interval, late)
  <2>5. CASE /\ timers' = [timers EXCEPT ![row] = a]
             /\ dpc' = "callback" /\ UNCHANGED row
    <3>1. r.interval \in Nat /\ r.interval \in Periods \cup {0}
          /\ r.val \in 0..TimevalMax /\ late \in BOOLEAN
      <4>1. \A x \in Periods \cup {0} : x \in Nat
        BY TimerAssumption
      <4>2. r.interval \in Periods \cup {0} /\ r.val \in 0..TimevalMax
        BY <2>3 DEF Entry
      <4> QED BY <4>1, <4>2
    <3>2. a \in Entry
      <4> HIDE DEF late, r
      <4> QED BY <3>1, AlarmType
    <3> HIDE DEF a
    <3>3. timers' \in [Rows -> Entry]
      BY <2>2, <2>5, <3>2
    <3> QED BY <2>1, <2>2, <2>5, <3>3, TypeParts, TypePartsNext
  <2>6. CASE row' = row + 1 /\ UNCHANGED <<timers, dpc>>
    <3>1. row' \in 0..N
      BY <2>2, <2>6, TypeParts, TimerAssumption
    <3> QED BY <2>1, <2>6, <3>1, TypeParts, TypePartsNext
  <2> QED BY <1>4, <2>4, <2>5, <2>6 DEF Trig
<1>5. CASE Callback
  <2>1. UNCHANGED row
    BY <1>5 DEF Callback
  <2>2. CASE /\ dpc' = dpc
             /\ \E handle \in Rows : DelAlarm(Dispatcher, handle)
    <3>1. PICK handle \in Rows : DelAlarm(Dispatcher, handle)
      BY <2>2
    <3>2. UNCHANGED <<total_sleep_time, last_timer_val, hw, sem, mutex, pend>>
      BY <3>1 DEF DelAlarm
    <3> QED BY <1>0, <2>1, <2>2, <3>1, <3>2, DelAlarmType, TypeParts,
               TypePartsNext
  <2>3. CASE /\ dpc = "callback" /\ dpc' = "store"
             /\ \E value \in Values, period \in Periods :
                  SetAlarm(Dispatcher, value, period)
    <3>1. PICK value \in Values, period \in Periods :
            SetAlarm(Dispatcher, value, period)
      BY <2>3
    <3>2. UNCHANGED <<timers, total_sleep_time, last_timer_val, hw, sem>>
      BY <3>1 DEF SetAlarm
    <3> QED BY <1>0, <2>1, <2>3, <3>1, <3>2, SetAlarmType, TypeParts,
               TypePartsNext
  <2>4. CASE dpc = "store" /\ dpc' = "callback" /\ StoreAlarm(Dispatcher)
    <3>1. UNCHANGED <<last_timer_raw, sem>>
      BY <2>4 DEF StoreAlarm
    <3> QED BY <1>0, <2>1, <2>4, <3>1, StoreAlarmType, TypeParts, TypePartsNext
  <2> QED BY <1>5, <2>2, <2>3, <2>4 DEF Callback
<1>10. CASE Return
  <2>1. /\ dpc' = "trig" /\ dpc = "callback" /\ row' = row + 1
        /\ UNCHANGED <<table, total_sleep_time, last_timer_val, hw, sem, mutex,
                       pend>>
    BY <1>10 DEF Return
  <2>2. row' \in 0..N
    BY <2>1, TypeParts, TimerAssumption
  <2> QED BY <2>1, <2>2, TypeParts, TypePartsNext DEF table
<1>6. CASE DispatchDone
  <2>1. /\ UNCHANGED <<table, total_sleep_time, last_timer_val, hw, sem, pend>>
        /\ dpc' = "wait" /\ mutex' = Nobody /\ row' = 0
    BY <1>6 DEF DispatchDone
  <2> QED BY <2>1, TypeParts, TypePartsNext, TimerAssumption DEF table
<1>7. CASE Expire
  <2>1. UNCHANGED <<table, total_sleep_time, last_timer_val, mutex, pend, dpc,
                    row>>
    BY <1>7 DEF Expire
  <2>2. sem' \in 0..MaxSem
    BY <1>7, TypeParts, TimerAssumption DEF Expire
  <2>3. /\ hw' \in [running : BOOLEAN, load : 1..TimevalMax + MinTimeout,
                    count : Nat]
        /\ hw'.count <= hw'.load
    BY <1>7, TypeParts DEF Expire
  <2> QED BY <2>1, <2>2, <2>3, TypeParts, TypePartsNext DEF table
<1>8. CASE Tick
  <2>1. UNCHANGED <<last_timer_raw, total_sleep_time, last_timer_val, sem,
                    mutex, pend, dpc, row>>
    BY <1>8 DEF Tick
  <2>2. /\ hw' \in [running : BOOLEAN, load : 1..TimevalMax + MinTimeout,
                    count : Nat]
        /\ hw'.count <= hw'.load
    <3>1. CASE ~ hw.running
      BY <1>8, <3>1, TypeParts DEF Tick
    <3>2. CASE hw.running
      <4>1. hw.count # hw.load /\ hw' = [hw EXCEPT !.count = hw.count + 1]
        BY <1>8, <3>2 DEF Tick
      <4>2. hw \in [running : BOOLEAN, load : 1..TimevalMax + MinTimeout,
                    count : Nat] /\ hw.count <= hw.load
        BY TypeParts
      <4>3. hw.count + 1 \in Nat /\ hw.count + 1 <= hw.load
        BY <4>1, <4>2, TimerAssumption
      <4> QED BY <4>1, <4>2, <4>3
    <3> QED BY <3>1, <3>2
  <2>3. timers' \in [Rows -> Entry]
    <3> SUFFICES ASSUME NEW i \in Rows PROVE timers'[i] \in Entry
      BY <1>8 DEF Tick
    <3>1. timers'[i] \in Entry
      BY <1>8, TickRows
    <3> QED BY <3>1
  <2> QED BY <2>1, <2>2, <2>3, TypeParts, TypePartsNext
<1>9. CASE UNCHANGED vars
  BY <1>9, TypeParts, TypePartsNext DEF vars, table
<1> QED BY <1>1, <1>2, <1>3, <1>4, <1>5, <1>6, <1>7, <1>8, <1>9, <1>10
        DEF Next, Dispatch

\* The table, the hardware timer and the threads keep their types, whatever
\* threads set and delete alarms with or without the mutex (timer.c).
THEOREM TimerTypes == Spec => []TypeOK
  BY InitType, TypeStep, PTL DEF Spec

----------------------------------------------------------------------------
(* The table when every thread takes the mutex.                             *)

\* The dispatcher holds the mutex from the semaphore to the end of a dispatch;
\* any other thread holds it exactly while its SetAlarm is between its halves.
Locked ==
    /\ dpc # "wait" <=> mutex = Dispatcher
    /\ dpc = "store" <=> pend[Dispatcher] # None
    /\ \A t \in Lockers : mutex = t => pend[t] # None

\* A SetAlarm between its halves holds the mutex and a free row in reach.
Owned ==
    \A t \in Threads : pend[t] # None =>
        /\ mutex = t
        /\ pend[t].row \in Rows /\ pend[t].row <= last_timer_raw
        /\ timers[pend[t].row].state = "free"

\* What the first loop of TimeDispatch marks is ahead of the second.
Due ==
    \A i \in Rows : timers[i].state \in {"trig", "trig_period"} =>
        /\ dpc \in {"trig", "callback", "store"}
        /\ IF dpc = "trig" THEN row <= i ELSE row < i

OwnInv == Locked /\ Owned /\ Due /\ RowsBelowLast

\* A row that stays in the table has no less left than the sleep.
Covered ==
    \A i \in Rows : timers[i].state \in {"armed", "trig_period"} =>
        total_sleep_time <= timers[i].val /\ timers[i].val < MaxCount + MaxCount

\* The counter is read from its start except at the start of a dispatch.
ReadFromStart ==
    /\ dpc # "dispatch" => last_timer_val = 0
    /\ \A t \in Threads : pend[t] # None => pend[t].elapsed <= MaxCount

\* A sleep that is not the idle one is being counted, or has been.
CountedSleep ==
    dpc # "dispatch" /\ total_sleep_time < MaxCount + MaxCount
      => sem > 0 \/ (hw.running /\ hw.load < TimevalMax)

TimeInv == Covered /\ ReadFromStart /\ CountedSleep

\* In a step of SetAlarm whoever takes it is alone in the table.
LEMMA SetAlarmOwn ==
    ASSUME TypeOK, Owned, RowsBelowLast,
           NEW t \in Threads \ Strays, NEW value \in Values,
           NEW period \in Periods, SetAlarm(t, value, period)
    PROVE  /\ mutex' = t
           /\ \A u \in Threads : u # t => pend'[u] = None /\ pend[u] = None
           /\ pend'[t] # None /\ pend'[t].elapsed = ElapsedTime
           /\ pend'[t].row \in Rows /\ pend'[t].row <= last_timer_raw'
           /\ timers'[pend'[t].row].state = "free"
           /\ RowsBelowLast'
           /\ timers' = timers
<1>1. PICK r \in Rows :
        /\ r <= last_timer_raw + 1 /\ timers[r].state = "free"
        /\ last_timer_raw' = IF r = last_timer_raw + 1 THEN r
                                                       ELSE last_timer_raw
        /\ pend' = [pend EXCEPT ![t] = [row |-> r, value |-> value,
                        period |-> period, elapsed |-> ElapsedTime]]
  BY DEF SetAlarm
<1>2. pend \in [Threads -> {None} \cup Pending]
      /\ last_timer_raw \in Int /\ r \in Int
  BY TypeParts, TimerAssumption DEF Rows
<1>3. mutex \in {Nobody, t} /\ mutex' = t /\ timers' = timers
      /\ pend[t] = None
  BY DEF SetAlarm, Enter
<1>4. pend'[t] = [row |-> r, value |-> value, period |-> period,
                  elapsed |-> ElapsedTime]
  BY <1>1, <1>2
<1>5. pend'[t] # None
  <2>1. r # -1
    BY <1>2, TimerAssumption DEF Rows
  <2> QED BY <1>4, <2>1 DEF None
<1>6. \A u \in Threads : u # t => pend'[u] = None /\ pend[u] = None
  <2>1. \A u \in Threads : u # t => pend'[u] = pend[u]
    BY <1>1, <1>2
  <2>2. \A u \in Threads : u # t => u \notin {Nobody, t}
    BY ThreadFacts
  <2> QED BY <1>3, <2>1, <2>2 DEF Owned
<1>7. r <= last_timer_raw' /\ last_timer_raw <= last_timer_raw'
      /\ last_timer_raw' \in Int
  BY <1>1, <1>2
<1>8. RowsBelowLast'
  BY <1>2, <1>3, <1>7, TimerAssumption DEF RowsBelowLast, Rows
<1> QED BY <1>1, <1>3, <1>4, <1>5, <1>6, <1>7, <1>8

\* The second half of SetAlarm fills its row; the others may be marked late.
LEMMA StoreAlarmRows ==
    ASSUME TypeOK, NEW t \in Threads, StoreAlarm(t)
    PROVE  LET p == pend[t]
               r == timers'[p.row]
           IN  /\ p \in Pending /\ p.row \in Rows
               /\ r.state = "armed" /\ r.val = Wrap(p.value + p.elapsed)
               /\ r.interval = p.period /\ r.left = p.value
               /\ ~ r.late => ~ (p.elapsed > Counted')
               /\ \A i \in Rows : i # p.row =>
                    /\ timers'[i].state = timers[i].state
                    /\ timers'[i].val = timers[i].val
                    /\ timers'[i].left = timers[i].left
                    /\ timers'[i].interval = timers[i].interval
                    /\ timers'[i].state = "armed" /\ ~ timers'[i].late =>
                         ~ timers[i].late /\ ~ Lost(0, 0)
<1> DEFINE p    == pend[t]
           lost == Lost(0, 0)
           late == p.elapsed > Counted'
           val  == Wrap(p.value + p.elapsed)
           a    == Alarm(val, p.period, p.value, late)
<1>1. p \in Pending /\ lost \in BOOLEAN /\ late \in BOOLEAN
  BY DEF TypeOK, Pending, StoreAlarm, Lost
<1>2. timers' = [Losing(lost) EXCEPT ![p.row] = a]
  BY DEF StoreAlarm
<1>3. p.value \in Nat /\ p.value \in Int /\ p.elapsed \in Int
      /\ p.period \in Periods \cup {0} /\ p.row \in Rows
  <2>1. p.value \in Values /\ p.elapsed \in 0..TimevalMax
        /\ p.period \in Periods /\ p.row \in Rows
    BY <1>1 DEF Pending
  <2> HIDE DEF p
  <2>2. \A x \in 0..TimevalMax : x \in Nat /\ x \in Int
    BY TimerAssumption
  <2>3. p.value \in 0..TimevalMax
    BY <2>1, ValueFacts
  <2> QED BY <2>1, <2>2, <2>3
<1>4. val \in 0..TimevalMax
  BY <1>3, WrapType
<1> HIDE DEF lost, late, val, p
<1>5. /\ a.state = "armed" /\ a.val = val /\ a.left = p.value
      /\ a.interval = p.period /\ a.late = late
  BY <1>1, <1>3, <1>4, AlarmType
<1>6. Losing(lost) \in [Rows -> Entry]
  BY <1>1, LosingTable
<1> HIDE DEF a
<1>7. timers'[p.row] = a
      /\ \A i \in Rows : i # p.row => timers'[i] = Losing(lost)[i]
  BY <1>2, <1>3, <1>6
<1>8. ASSUME NEW i \in Rows, i # p.row
      PROVE  /\ timers'[i].state = timers[i].state
             /\ timers'[i].val = timers[i].val
             /\ timers'[i].left = timers[i].left
             /\ timers'[i].interval = timers[i].interval
             /\ timers'[i].state = "armed" /\ ~ timers'[i].late =>
                  ~ timers[i].late /\ ~ lost
  <2>1. timers'[i] = Losing(lost)[i]
    BY <1>7, <1>8
  <2> QED BY <1>1, <2>1, LosingType
<1>9. ~ a.late => ~ late
  BY <1>5
<1> QED BY <1>1, <1>3, <1>5, <1>7, <1>8, <1>9 DEF p, lost, late, val

LEMMA StoreAlarmOwn ==
    ASSUME TypeOK, Owned, RowsBelowLast, Due,
           NEW t \in Threads, StoreAlarm(t)
    PROVE  /\ mutex = t
           /\ \A u \in Threads : pend'[u] = None
           /\ pend[t] \in Pending
           /\ timers[pend[t].row].state = "free"
           /\ timers'[pend[t].row].state = "armed"
           /\ \A i \in Rows : i # pend[t].row =>
                timers'[i].state = timers[i].state
           /\ RowsBelowLast'
<1>1. pend \in [Threads -> {None} \cup Pending] /\ pend[t] # None
  BY TypeParts DEF StoreAlarm
<1>2. mutex = t /\ pend[t].row \in Rows /\ pend[t].row <= last_timer_raw
      /\ timers[pend[t].row].state = "free"
  BY <1>1 DEF Owned
<1>3. \A u \in Threads : pend'[u] = None
  <2>1. \A u \in Threads : u # t => pend[u] = None
    BY <1>2 DEF Owned
  <2>2. pend' = [pend EXCEPT ![t] = None]
    BY DEF StoreAlarm
  <2> QED BY <1>1, <2>1, <2>2
<1>4. last_timer_raw' = last_timer_raw
  BY DEF StoreAlarm
<1>5. timers'[pend[t].row].state = "armed" /\ pend[t] \in Pending
      /\ \A i \in Rows : i # pend[t].row => timers'[i].state = timers[i].state
  BY StoreAlarmRows
<1>6. RowsBelowLast'
  BY <1>2, <1>4, <1>5 DEF RowsBelowLast
<1> QED BY <1>1, <1>2, <1>3, <1>5, <1>6

LEMMA DelAlarmOwn ==
    ASSUME TypeOK, Owned, RowsBelowLast,
           NEW t \in Threads \ Strays, NEW handle \in Rows,
           DelAlarm(t, handle)
    PROVE  /\ mutex \in {Nobody, t}
           /\ \A u \in Threads : pend'[u] = None /\ pend[u] = None
           /\ timers'[handle].state = "free"
           /\ \A i \in Rows : i # handle => timers'[i] = timers[i]
           /\ RowsBelowLast'
<1>1. /\ timers' = [timers EXCEPT ![handle] = Free]
      /\ last_timer_raw' = IF handle = last_timer_raw THEN last_timer_raw - 1
                                                      ELSE last_timer_raw
      /\ pend' = pend /\ pend[t] = None /\ mutex \in {Nobody, t}
  BY DEF DelAlarm, Enter
<1>2. timers \in [Rows -> Entry] /\ last_timer_raw \in Int
  BY TypeParts, TimerAssumption
<1>3. timers'[handle].state = "free"
      /\ \A i \in Rows : i # handle => timers'[i] = timers[i]
  BY <1>1, <1>2, FreeType
<1>4. \A u \in Threads : pend'[u] = None /\ pend[u] = None
  <2>1. \A u \in Threads : u # t => u \notin {Nobody, t}
    BY ThreadFacts
  <2> QED BY <1>1, <2>1 DEF Owned
<1>5. RowsBelowLast'
  <2> SUFFICES ASSUME NEW i \in Rows, timers'[i].state # "free"
               PROVE  i <= last_timer_raw'
    BY DEF RowsBelowLast
  <2>1. i # handle /\ i <= last_timer_raw
    BY <1>3 DEF RowsBelowLast
  <2>2. i \in Int /\ handle \in Int
    BY TimerAssumption DEF Rows
  <2> QED BY <1>1, <1>2, <2>1, <2>2
<1> QED BY <1>1, <1>3, <1>4, <1>5

LEMMA OwnStep ==
    Strays = {} /\ TypeOK /\ OwnInv /\ [Next]_vars => OwnInv'
<1> SUFFICES ASSUME Strays = {}, TypeOK, Locked, Owned, Due, RowsBelowLast,
                    [Next]_vars
             PROVE  Locked' /\ Owned' /\ Due' /\ RowsBelowLast'
  BY DEF OwnInv
<1>0. /\ Dispatcher \in Threads \ Strays /\ Dispatcher # Nobody
      /\ \A t \in Lockers : t \in Threads \ Strays /\ t # Dispatcher
      /\ \A t \in Threads : t # Nobody
      /\ \A t \in Threads : t = Dispatcher \/ t \in Lockers
  BY ThreadFacts DEF Threads
<1>a. \A i \in Rows : i \in Int
  BY TimerAssumption DEF Rows
<1>1. ASSUME NEW t \in Lockers, Caller(t)
      PROVE  Locked' /\ Owned' /\ Due' /\ RowsBelowLast'
  <2>0. UNCHANGED <<dpc, row>>
    BY <1>1 DEF Caller
  <2>1. CASE \E value \in Values, period \in Periods :
               SetAlarm(t, value, period)
    <3>1. PICK value \in Values, period \in Periods :
            SetAlarm(t, value, period)
      BY <2>1
    <3>2. /\ mutex' = t
          /\ \A u \in Threads : u # t => pend'[u] = None /\ pend[u] = None
          /\ pend'[t] # None
          /\ pend'[t].row \in Rows /\ pend'[t].row <= last_timer_raw'
          /\ timers'[pend'[t].row].state = "free"
          /\ RowsBelowLast' /\ timers' = timers
      BY <1>0, <3>1, SetAlarmOwn
    <3>3. mutex \in {Nobody, t} /\ pend[t] = None
      BY <3>1, <1>0 DEF SetAlarm, Enter
    <3>4. Locked'
      BY <1>0, <2>0, <3>2, <3>3 DEF Locked
    <3>5. Owned'
      BY <3>2 DEF Owned
    <3>6. Due'
      BY <2>0, <3>2 DEF Due
    <3> QED BY <3>2, <3>4, <3>5, <3>6
  <2>2. CASE StoreAlarm(t)
    <3>1. /\ mutex = t /\ RowsBelowLast'
          /\ \A u \in Threads : pend'[u] = None
          /\ timers'[pend[t].row].state = "armed"
          /\ \A i \in Rows : i # pend[t].row =>
               timers'[i].state = timers[i].state
      BY <1>0, <2>2, StoreAlarmOwn
    <3>2. mutex' = Nobody
      BY <2>2 DEF StoreAlarm
    <3>3. Locked'
      BY <1>0, <2>0, <3>1, <3>2 DEF Locked
    <3>4. Owned'
      BY <3>1 DEF Owned
    <3>5. Due'
      BY <2>0, <3>1 DEF Due
    <3> QED BY <3>1, <3>3, <3>4, <3>5
  <2>3. CASE \E handle \in Rows : DelAlarm(t, handle)
    <3>1. PICK handle \in Rows : DelAlarm(t, handle)
      BY <2>3
    <3>2. /\ \A u \in Threads : pend'[u] = None /\ pend[u] = None
          /\ timers'[handle].state = "free"
          /\ \A i \in Rows : i # handle => timers'[i] = timers[i]
          /\ RowsBelowLast'
      BY <1>0, <3>1, DelAlarmOwn
    <3>3. mutex' = mutex
      BY <3>1 DEF DelAlarm
    <3>4. Locked'
      BY <1>0, <2>0, <3>2, <3>3 DEF Locked
    <3>5. Owned'
      BY <3>2 DEF Owned
    <3>6. Due'
      BY <2>0, <3>2 DEF Due
    <3> QED BY <3>2, <3>4, <3>5, <3>6
  <2> QED BY <1>1, <2>1, <2>2, <2>3 DEF Caller
<1>2. CASE TakeSemaphore
  <2>1. /\ mutex = Nobody /\ mutex' = Dispatcher
        /\ dpc = "wait" /\ dpc' = "dispatch"
        /\ pend' = pend /\ timers' = timers /\ row' = row
        /\ last_timer_raw' = last_timer_raw
    BY <1>2 DEF TakeSemaphore, table
  <2>2. \A t \in Threads : pend[t] = None
    BY <1>0, <2>1 DEF Owned
  <2>3. Locked' /\ Owned'
    BY <1>0, <2>1, <2>2 DEF Locked, Owned
  <2>4. Due'
    BY <2>1 DEF Due
  <2> QED BY <2>1, <2>3, <2>4 DEF RowsBelowLast
<1>3. CASE TimeDispatch
  <2>1. /\ mutex' = mutex /\ pend' = pend /\ row' = 0
        /\ last_timer_raw' = last_timer_raw
        /\ dpc = "dispatch" /\ dpc' = "trig"
    BY <1>3 DEF TimeDispatch
  <2>2. \A i \in Rows : i \notin Armed => timers'[i] = timers[i]
    BY <1>3, DispatchRows
  <2>3. \A t \in Threads : pend[t] = None
    <3>1. mutex = Dispatcher /\ pend[Dispatcher] = None
      BY <2>1 DEF Locked
    <3> QED BY <3>1 DEF Owned
  <2>4. Locked' /\ Owned'
    BY <1>0, <2>1, <2>3 DEF Locked, Owned
  <2>5. ASSUME NEW i \in Rows
        PROVE  /\ timers'[i].state # "free" => i <= last_timer_raw'
               /\ row' <= i
    <3>1. CASE i \in Armed
      BY <1>a, <2>1, <3>1, TimerAssumption DEF Armed, Rows
    <3>2. CASE i \notin Armed
      BY <1>a, <2>1, <2>2, <3>2, TimerAssumption DEF RowsBelowLast, Rows
    <3> QED BY <3>1, <3>2
  <2>6. Due'
    BY <2>1, <2>5 DEF Due
  <2> QED BY <2>4, <2>5, <2>6 DEF RowsBelowLast
<1>4. CASE Trig
  <2>1. /\ mutex' = mutex /\ pend' = pend
        /\ last_timer_raw' = last_timer_raw
        /\ dpc = "trig" /\ row <= last_timer_raw
    BY <1>4 DEF Trig
  <2>2. row \in Rows /\ timers \in [Rows -> Entry]
    BY <2>1, TypeParts, TimerAssumption DEF Rows
  <2>3. \A t \in Threads : pend[t] = None
    <3>1. mutex = Dispatcher /\ pend[Dispatcher] = None
      BY <2>1 DEF Locked
    <3> QED BY <3>1 DEF Owned
  <2>4. dpc' \in {"trig", "callback"} => Locked' /\ Owned'
    BY <1>0, <2>1, <2>3 DEF Locked, Owned
  <2>5. CASE /\ \A i \in Rows : i # row => timers'[i] = timers[i]
             /\ timers'[row].state \in {"free", "armed"}
             /\ dpc' = "callback" /\ row' = row
    <3>1. Due'
      BY <1>a, <2>1, <2>2, <2>5 DEF Due
    <3>2. RowsBelowLast'
      BY <2>1, <2>5 DEF RowsBelowLast
    <3> QED BY <2>4, <2>5, <3>1, <3>2
  <2>6. CASE /\ timers[row].state \notin {"trig", "trig_period"}
             /\ row' = row + 1 /\ UNCHANGED <<timers, dpc>>
    <3>1. Due'
      BY <1>a, <2>1, <2>2, <2>6 DEF Due
    <3>2. RowsBelowLast'
      BY <2>1, <2>6 DEF RowsBelowLast
    <3> QED BY <2>1, <2>4, <2>6, <3>1, <3>2
  <2>7. CASE timers[row].state = "trig"
    <3>1. timers' = [timers EXCEPT ![row] = Free]
          /\ dpc' = "callback" /\ row' = row
      BY <1>4, <2>7 DEF Trig
    <3> QED BY <2>2, <2>5, <3>1, FreeType
  <2>8. CASE timers[row].state = "trig_period"
    <3>1. \E a : a.state = "armed" /\ timers' = [timers EXCEPT ![row] = a]
      BY <1>4, <2>8 DEF Trig, Alarm
    <3>2. dpc' = "callback" /\ row' = row
      BY <1>4, <2>8 DEF Trig
    <3> QED BY <2>2, <2>5, <3>1, <3>2
  <2>9. CASE timers[row].state \notin {"trig", "trig_period"}
    <3>1. row' = row + 1 /\ UNCHANGED <<timers, dpc>>
      BY <1>4, <2>9 DEF Trig
    <3> QED BY <2>6, <2>9, <3>1
  <2> QED BY <2>7, <2>8, <2>9
<1>5. CASE Callback
  <2>2. CASE /\ dpc = "callback" /\ UNCHANGED <<dpc, row>>
             /\ \E handle \in Rows : DelAlarm(Dispatcher, handle)
    <3>1. PICK handle \in Rows : DelAlarm(Dispatcher, handle)
      BY <2>2
    <3>2. /\ \A u \in Threads : pend'[u] = None /\ pend[u] = None
          /\ timers'[handle].state = "free"
          /\ \A i \in Rows : i # handle => timers'[i] = timers[i]
          /\ RowsBelowLast'
      BY <1>0, <3>1, DelAlarmOwn
    <3>3. mutex' = mutex
      BY <3>1 DEF DelAlarm
    <3>4. Locked' /\ Owned'
      BY <1>0, <2>2, <3>2, <3>3 DEF Locked, Owned
    <3>5. Due'
      BY <2>2, <3>2 DEF Due
    <3> QED BY <3>2, <3>4, <3>5
  <2>3. CASE /\ dpc = "callback" /\ dpc' = "store" /\ UNCHANGED row
             /\ \E value \in Values, period \in Periods :
                  SetAlarm(Dispatcher, value, period)
    <3>1. PICK value \in Values, period \in Periods :
            SetAlarm(Dispatcher, value, period)
      BY <2>3
    <3>2. /\ mutex' = Dispatcher
          /\ \A u \in Threads : u # Dispatcher => pend'[u] = None
          /\ pend'[Dispatcher] # None
          /\ pend'[Dispatcher].row \in Rows
          /\ pend'[Dispatcher].row <= last_timer_raw'
          /\ timers'[pend'[Dispatcher].row].state = "free"
          /\ RowsBelowLast' /\ timers' = timers
      BY <1>0, <3>1, SetAlarmOwn
    <3>3. Locked'
      BY <1>0, <2>3, <3>2 DEF Locked
    <3>4. Owned'
      BY <3>2 DEF Owned
    <3>5. Due'
      BY <2>3, <3>2 DEF Due
    <3> QED BY <3>2, <3>3, <3>4, <3>5
  <2>4. CASE /\ dpc = "store" /\ dpc' = "callback" /\ UNCHANGED row
             /\ StoreAlarm(Dispatcher)
    <3>1. /\ mutex = Dispatcher /\ RowsBelowLast'
          /\ \A u \in Threads : pend'[u] = None
          /\ timers'[pend[Dispatcher].row].state = "armed"
          /\ \A i \in Rows : i # pend[Dispatcher].row =>
               timers'[i].state = timers[i].state
      BY <1>0, <2>4, StoreAlarmOwn
    <3>2. mutex' = mutex
      BY <1>0, <2>4 DEF StoreAlarm
    <3>3. Locked' /\ Owned'
      BY <1>0, <2>4, <3>1, <3>2 DEF Locked, Owned
    <3>4. Due'
      BY <2>4, <3>1 DEF Due
    <3> QED BY <3>1, <3>3, <3>4
  <2> QED BY <1>5, <2>2, <2>3, <2>4 DEF Callback
<1>10. CASE Return
  <2>1. /\ UNCHANGED <<table, mutex, pend>>
        /\ dpc = "callback" /\ dpc' = "trig" /\ row' = row + 1
    BY <1>10 DEF Return
  <2>2. \A i \in Rows : row < i => row' <= i
    BY <1>a, <2>1, TypeParts, TimerAssumption
  <2>3. Locked' /\ Owned' /\ RowsBelowLast'
    BY <1>0, <2>1 DEF Locked, Owned, RowsBelowLast, table
  <2>4. Due'
    BY <2>1, <2>2 DEF Due, table
  <2> QED BY <2>3, <2>4
<1>6. CASE DispatchDone
  <2>1. /\ UNCHANGED <<table, pend>> /\ dpc = "trig" /\ row > last_timer_raw
        /\ dpc' = "wait" /\ mutex' = Nobody /\ row' = 0
    BY <1>6 DEF DispatchDone
  <2>2. \A t \in Threads : pend[t] = None
    <3>1. mutex = Dispatcher /\ pend[Dispatcher] = None
      BY <2>1 DEF Locked
    <3> QED BY <3>1 DEF Owned
  <2>3. Locked' /\ Owned' /\ RowsBelowLast'
    BY <1>0, <2>1, <2>2 DEF Locked, Owned, RowsBelowLast, table
  <2>4. \A i \in Rows : timers[i].state \notin {"trig", "trig_period"}
    <3> SUFFICES ASSUME NEW i \in Rows,
                        timers[i].state \in {"trig", "trig_period"}
                 PROVE  FALSE
      OBVIOUS
    <3>1. row <= i /\ i <= last_timer_raw
      BY <2>1 DEF Due, RowsBelowLast
    <3> QED BY <1>a, <2>1, <3>1, TypeParts, TimerAssumption
  <2>5. Due'
    BY <2>1, <2>4 DEF Due, table
  <2> QED BY <2>3, <2>5
<1>7. CASE Expire
  <2>1. UNCHANGED <<table, mutex, pend, dpc, row>>
    BY <1>7 DEF Expire
  <2> QED BY <2>1 DEF Locked, Owned, Due, RowsBelowLast, table
<1>8. CASE Tick
  <2>1. UNCHANGED <<last_timer_raw, mutex, pend, dpc, row>>
    BY <1>8 DEF Tick
  <2>2. \A i \in Rows : timers'[i].state = timers[i].state
    <3> SUFFICES ASSUME NEW i \in Rows
                 PROVE  timers'[i].state = timers[i].state
      OBVIOUS
    <3> QED BY <1>8, TickRows
  <2> QED BY <2>1, <2>2 DEF Locked, Owned, Due, RowsBelowLast
<1>9. CASE UNCHANGED vars
  BY <1>9 DEF vars, table, Locked, Owned, Due, RowsBelowLast
<1> QED BY <1>1, <1>2, <1>3, <1>4, <1>5, <1>6, <1>7, <1>8, <1>9, <1>10
        DEF Next, Dispatch

\* The second half of SetAlarm keeps the sleep below every row's, and counted.
LEMMA StoreAlarmTime ==
    ASSUME TypeOK, OwnInv, TimeInv, NEW t \in Threads, StoreAlarm(t),
           dpc # "dispatch", dpc' # "dispatch"
    PROVE  TimeInv'
<1> DEFINE p == pend[t]
<1>1. /\ p \in Pending /\ timers[p.row].state = "free"
      /\ \A i \in Rows : i # p.row => /\ timers'[i].state = timers[i].state
                                     /\ timers'[i].val = timers[i].val
      /\ timers'[p.row].val = Wrap(p.value + p.elapsed)
      /\ \A u \in Threads : pend'[u] = None
  BY StoreAlarmOwn, StoreAlarmRows DEF OwnInv
<1>2. p.row \in Rows /\ p.value \in Values /\ p.elapsed \in 0..TimevalMax
      /\ p.elapsed <= MaxCount
  BY <1>1 DEF Pending, StoreAlarm, TimeInv, ReadFromStart
<1>3. p.value \in 0..TimevalMax /\ p.value < MaxCount
  BY <1>2, ValueFacts
<1>4. /\ p.value + p.elapsed \in 0..TimevalMax
      /\ p.elapsed + p.value \in 0..TimevalMax
      /\ p.elapsed + p.value < MaxCount + MaxCount
      /\ p.value + p.elapsed < MaxCount + MaxCount
  BY <1>2, <1>3, TimerAssumption
<1>5. Wrap(p.value + p.elapsed) = p.elapsed + p.value
      /\ Wrap(p.elapsed + p.value) = p.elapsed + p.value
  BY <1>2, <1>3, <1>4, WrapType, TimerAssumption
<1>6. timers'[p.row].val = p.elapsed + p.value
  BY <1>1, <1>5
<1>7. total_sleep_time \in Int /\ p.elapsed \in Int /\ p.value \in Int
      /\ \A i \in Rows : timers[i].val \in Int
  BY <1>2, <1>3, TypeParts, TimerAssumption DEF Entry
<1>8. last_timer_val = 0 /\ UNCHANGED sem
  BY DEF StoreAlarm, TimeInv, ReadFromStart
<1> HIDE DEF p
<1>9. CASE /\ total_sleep_time > p.elapsed
           /\ total_sleep_time - p.elapsed > p.value
           /\ total_sleep_time' = Wrap(p.elapsed + p.value)
           /\ SetTimer(p.value)
  <2>1. /\ total_sleep_time' = p.elapsed + p.value
        /\ total_sleep_time' < total_sleep_time
    BY <1>5, <1>7, <1>9
  <2>2. /\ hw'.running = TRUE /\ last_timer_val' = 0
        /\ hw'.load = Load(p.value)
    BY <1>3, <1>9, SetTimerType
  <2>3. Covered'
    <3> SUFFICES ASSUME NEW i \in Rows,
                        timers'[i].state \in {"armed", "trig_period"}
                 PROVE  /\ total_sleep_time' <= timers'[i].val
                        /\ timers'[i].val < MaxCount + MaxCount
      BY DEF Covered
    <3>1. CASE i = p.row
      BY <1>4, <1>6, <1>7, <2>1, <3>1
    <3>2. CASE i # p.row
      <4>1. /\ timers'[i].state = timers[i].state
            /\ timers'[i].val = timers[i].val
        BY <1>1, <3>2
      <4>2. total_sleep_time <= timers[i].val /\ timers[i].val < MaxCount + MaxCount
        BY <4>1 DEF TimeInv, Covered
      <4>3. total_sleep_time' \in Int
        BY <1>7, <2>1
      <4> QED BY <1>7, <2>1, <4>1, <4>2, <4>3
    <3> QED BY <3>1, <3>2
  <2>4. ReadFromStart'
    BY <1>1, <2>2 DEF ReadFromStart
  <2>5. hw'.load < TimevalMax
    <3>1. Load(p.value) \in Int /\ Load(p.value) <= p.value + MinTimeout
      BY <1>3, LoadType, TimerAssumption
    <3> QED BY <1>3, <1>7, <2>2, <3>1, TimerAssumption
  <2>6. CountedSleep'
    BY <2>2, <2>5 DEF CountedSleep
  <2> QED BY <2>3, <2>4, <2>6 DEF TimeInv
<1>10. CASE /\ ~ (/\ total_sleep_time > p.elapsed
                  /\ total_sleep_time - p.elapsed > p.value)
            /\ UNCHANGED <<total_sleep_time, hw, last_timer_val>>
  <2>1. total_sleep_time <= p.elapsed + p.value
    BY <1>3, <1>7, <1>10
  <2>2. Covered'
    <3> SUFFICES ASSUME NEW i \in Rows,
                        timers'[i].state \in {"armed", "trig_period"}
                 PROVE  /\ total_sleep_time' <= timers'[i].val
                        /\ timers'[i].val < MaxCount + MaxCount
      BY DEF Covered
    <3>1. CASE i = p.row
      BY <1>4, <1>6, <1>7, <1>10, <2>1, <3>1
    <3>2. CASE i # p.row
      <4>1. /\ timers'[i].state = timers[i].state
            /\ timers'[i].val = timers[i].val
        BY <1>1, <3>2
      <4> QED BY <1>10, <4>1 DEF TimeInv, Covered
    <3> QED BY <3>1, <3>2
  <2>3. ReadFromStart'
    BY <1>1, <1>8, <1>10 DEF ReadFromStart
  <2>4. CountedSleep'
    BY <1>8, <1>10 DEF TimeInv, CountedSleep
  <2> QED BY <2>2, <2>3, <2>4 DEF TimeInv
<1> QED BY <1>9, <1>10 DEF StoreAlarm, p

LEMMA DispatchTime ==
    ASSUME TypeOK, OwnInv, TimeInv, TimeDispatch
    PROVE  TimeInv'
<1> DEFINE overrun == ElapsedTime
           total   == Wrap(total_sleep_time + overrun)
           s       == Losing(Lost(0, total))
<1>1. overrun \in 0..TimevalMax /\ total \in 0..TimevalMax
  BY DispatchRows
<1>2. /\ \A i \in Armed :
            /\ timers'[i] = After(s[i], total, overrun)
            /\ s[i] \in Entry /\ s[i].state = "armed"
            /\ s[i].val = timers[i].val /\ s[i].interval = timers[i].interval
      /\ \A i \in Rows : i \notin Armed => timers'[i] = timers[i]
      /\ total_sleep_time' = Soonest(Asleep(total, overrun))
      /\ dpc = "dispatch" /\ dpc' = "trig" /\ pend' = pend /\ UNCHANGED mutex
  <2>1. dpc = "dispatch" /\ dpc' = "trig" /\ pend' = pend /\ UNCHANGED mutex
    BY DEF TimeDispatch
  <2> QED BY <2>1, DispatchRows
<1>3. /\ hw'.running = TRUE /\ hw'.load = Load(total_sleep_time')
      /\ last_timer_val' = 0
      /\ total_sleep_time' \in 1..TimevalMax
  BY DispatchType
<1> HIDE DEF overrun, total, s
<1>4. Asleep(total, overrun) \in SUBSET (1..TimevalMax)
  BY <1>1, AsleepType
<1>5. \A w \in Asleep(total, overrun) : total_sleep_time' <= w
  BY <1>2, <1>4, SoonestType
<1>6. Covered'
  <2> SUFFICES ASSUME NEW i \in Rows,
                      timers'[i].state \in {"armed", "trig_period"}
               PROVE  /\ total_sleep_time' <= timers'[i].val
                      /\ timers'[i].val < MaxCount + MaxCount
    BY DEF Covered
  <2>1. timers[i] \in Entry
    BY TypeParts
  <2>2. i \in Armed
    <3> SUFFICES ASSUME i \notin Armed PROVE FALSE
      OBVIOUS
    <3>1. timers'[i] = timers[i]
      BY <1>2
    <3>2. timers[i].state # "trig_period"
      BY <1>2 DEF OwnInv, Due
    <3>3. timers[i].state = "armed" /\ i <= last_timer_raw
      BY <3>1, <3>2 DEF OwnInv, RowsBelowLast
    <3> QED BY <3>3 DEF Armed
  <2>3. /\ timers'[i] = After(s[i], total, overrun)
        /\ s[i] \in Entry /\ s[i].state = "armed" /\ timers[i].state = "armed"
        /\ s[i].val = timers[i].val /\ s[i].interval = timers[i].interval
    BY <1>2, <2>2 DEF Armed
  <2>4. /\ timers[i].val > total \/ timers[i].interval # 0
        /\ timers'[i].val \in 1..TimevalMax
        /\ timers'[i].val <= timers[i].val \/ timers'[i].val < MaxCount
    BY <1>1, <2>3, AfterType
  <2>5. timers'[i].val \in Asleep(total, overrun)
    <3>1. timers'[i].val = After(timers[i], total, overrun).val
      BY <1>1, <2>1, <2>3, AfterVal
    <3> QED BY <2>2, <2>4, <3>1 DEF Asleep
  <2>6. timers[i].val < MaxCount + MaxCount
    BY <2>3 DEF TimeInv, Covered
  <2>7. timers[i].val \in Int
    BY <2>1, TimerAssumption DEF Entry
  <2>8. timers'[i].val < MaxCount + MaxCount
    BY <2>4, <2>6, <2>7, TimerAssumption
  <2> QED BY <1>5, <2>5, <2>8
<1>7. ReadFromStart'
  BY <1>2, <1>3 DEF TimeInv, ReadFromStart
<1>8. CountedSleep'
  <2>1. ASSUME total_sleep_time' < MaxCount + MaxCount
        PROVE  hw'.load < TimevalMax
    <3>1. total_sleep_time' \in 0..TimevalMax /\ total_sleep_time' \in Int
      BY <1>3, TimerAssumption
    <3>2. Load(total_sleep_time') \in Int
          /\ Load(total_sleep_time') <= total_sleep_time' + MinTimeout
      BY <3>1, LoadType, TimerAssumption
    <3> QED BY <1>3, <2>1, <3>1, <3>2, TimerAssumption
  <2> QED BY <1>3, <2>1 DEF CountedSleep
<1> QED BY <1>6, <1>7, <1>8 DEF TimeInv

\* The first half of SetAlarm reads the counter from its start.
LEMMA SetAlarmTime ==
    ASSUME TypeOK, OwnInv, TimeInv, NEW t \in Threads \ Strays,
           NEW value \in Values, NEW period \in Periods,
           SetAlarm(t, value, period), dpc # "dispatch", dpc' # "dispatch"
    PROVE  TimeInv'
<1>1. /\ \A u \in Threads : u # t => pend'[u] = None
      /\ pend'[t].elapsed = ElapsedTime
  BY SetAlarmOwn DEF OwnInv
<1>2. UNCHANGED <<timers, total_sleep_time, last_timer_val, hw, sem>>
  BY DEF SetAlarm
<1>3. ElapsedTime <= MaxCount
  BY ReadType DEF TimeInv, ReadFromStart
<1>4. ReadFromStart'
  BY <1>1, <1>2, <1>3 DEF TimeInv, ReadFromStart
<1>5. Covered' /\ CountedSleep'
  BY <1>2 DEF TimeInv, Covered, CountedSleep
<1> QED BY <1>4, <1>5 DEF TimeInv

LEMMA DelAlarmTime ==
    ASSUME TypeOK, OwnInv, TimeInv, NEW t \in Threads \ Strays,
           NEW handle \in Rows, DelAlarm(t, handle),
           dpc # "dispatch", dpc' # "dispatch"
    PROVE  TimeInv'
<1>1. /\ \A u \in Threads : pend'[u] = None
      /\ timers'[handle].state = "free"
      /\ \A i \in Rows : i # handle => timers'[i] = timers[i]
  BY DelAlarmOwn DEF OwnInv
<1>2. UNCHANGED <<total_sleep_time, last_timer_val, hw, sem>>
  BY DEF DelAlarm
<1>3. Covered'
  BY <1>1, <1>2 DEF TimeInv, Covered
<1>4. ReadFromStart' /\ CountedSleep'
  BY <1>1, <1>2 DEF TimeInv, ReadFromStart, CountedSleep
<1> QED BY <1>3, <1>4 DEF TimeInv

LEMMA TimeStep ==
    Strays = {} /\ TypeOK /\ OwnInv /\ TimeInv /\ [Next]_vars => TimeInv'
<1> SUFFICES ASSUME Strays = {}, TypeOK, OwnInv, TimeInv, [Next]_vars
             PROVE  TimeInv'
  OBVIOUS
<1>0. /\ Dispatcher \in Threads \ Strays
      /\ \A t \in Lockers : t \in Threads \ Strays /\ t # Dispatcher
      /\ Dispatcher # Nobody
  BY ThreadFacts DEF Threads
<1>1. ASSUME NEW t \in Lockers, Caller(t) PROVE TimeInv'
  <2>0. UNCHANGED <<dpc, row>>
    BY <1>1 DEF Caller
  <2>1. CASE \E value \in Values, period \in Periods :
               SetAlarm(t, value, period)
    <3>1. PICK value \in Values, period \in Periods :
            SetAlarm(t, value, period)
      BY <2>1
    <3>2. dpc # "dispatch"
      BY <1>0, <3>1 DEF SetAlarm, Enter, OwnInv, Locked
    <3> QED BY <1>0, <2>0, <3>1, <3>2, SetAlarmTime
  <2>2. CASE StoreAlarm(t)
    <3>1. mutex = t
      BY <1>0, <2>2, StoreAlarmOwn DEF OwnInv
    <3>2. dpc # "dispatch"
      BY <1>0, <3>1 DEF OwnInv, Locked
    <3> QED BY <1>0, <2>0, <2>2, <3>2, StoreAlarmTime
  <2>3. CASE \E handle \in Rows : DelAlarm(t, handle)
    <3>1. PICK handle \in Rows : DelAlarm(t, handle)
      BY <2>3
    <3>2. dpc # "dispatch"
      BY <1>0, <3>1 DEF DelAlarm, Enter, OwnInv, Locked
    <3> QED BY <1>0, <2>0, <3>1, <3>2, DelAlarmTime
  <2> QED BY <1>1, <2>1, <2>2, <2>3 DEF Caller
<1>2. CASE TakeSemaphore
  <2>1. /\ UNCHANGED <<timers, total_sleep_time, pend>>
        /\ dpc' = "dispatch"
    BY <1>2 DEF TakeSemaphore, table
  <2> QED BY <2>1 DEF TimeInv, Covered, ReadFromStart, CountedSleep
<1>3. CASE TimeDispatch
  BY <1>3, DispatchTime
<1>4. CASE Trig
  <2>1. /\ UNCHANGED <<total_sleep_time, last_timer_val, hw, sem, pend>>
        /\ dpc = "trig" /\ row <= last_timer_raw
    BY <1>4 DEF Trig
  <2>2. row \in Rows /\ timers \in [Rows -> Entry]
    BY <2>1, TypeParts, TimerAssumption DEF Rows
  <2>3. dpc' # "dispatch"
    BY <1>4, <2>1 DEF Trig
  <2>4. ReadFromStart' /\ CountedSleep'
    BY <2>1, <2>3 DEF TimeInv, ReadFromStart, CountedSleep
  <2>5. \A i \in Rows :
          timers'[i].state \in {"armed", "trig_period"}
            => /\ timers[i].state \in {"armed", "trig_period"}
               /\ timers'[i].val = timers[i].val
    <3>1. CASE timers[row].state = "trig"
      <4>1. timers' = [timers EXCEPT ![row] = Free]
        BY <1>4, <3>1 DEF Trig
      <4> QED BY <2>2, <4>1, FreeType
    <3>2. CASE timers[row].state = "trig_period"
      <4>1. \E a : a.val = timers[row].val /\ timers' = [timers EXCEPT ![row] = a]
        BY <1>4, <3>2 DEF Trig, Alarm
      <4> QED BY <2>2, <3>2, <4>1
    <3>3. CASE timers[row].state \notin {"trig", "trig_period"}
      BY <1>4, <3>3 DEF Trig
    <3> QED BY <3>1, <3>2, <3>3
  <2>6. Covered'
    BY <2>1, <2>5 DEF TimeInv, Covered
  <2> QED BY <2>4, <2>6 DEF TimeInv
<1>5. CASE Callback
  <2>0. dpc # "dispatch" /\ dpc' # "dispatch"
    BY <1>5 DEF Callback
  <2>2. CASE \E handle \in Rows : DelAlarm(Dispatcher, handle)
    BY <1>0, <2>0, <2>2, DelAlarmTime
  <2>3. CASE \E value \in Values, period \in Periods :
               SetAlarm(Dispatcher, value, period)
    BY <1>0, <2>0, <2>3, SetAlarmTime
  <2>4. CASE StoreAlarm(Dispatcher)
    BY <1>0, <2>0, <2>4, StoreAlarmTime
  <2> QED BY <1>5, <2>2, <2>3, <2>4 DEF Callback
<1>10. CASE Return
  <2>1. /\ UNCHANGED <<timers, total_sleep_time, last_timer_val, hw, sem, pend>>
        /\ dpc = "callback" /\ dpc' = "trig"
    BY <1>10 DEF Return, table
  <2> QED BY <2>1 DEF TimeInv, Covered, ReadFromStart, CountedSleep
<1>6. CASE DispatchDone
  <2>1. /\ UNCHANGED <<timers, total_sleep_time, last_timer_val, hw, sem, pend>>
        /\ dpc = "trig" /\ dpc' = "wait"
    BY <1>6 DEF DispatchDone, table
  <2> QED BY <2>1 DEF TimeInv, Covered, ReadFromStart, CountedSleep
<1>7. CASE Expire
  <2>1. UNCHANGED <<timers, total_sleep_time, last_timer_val, pend, dpc>>
    BY <1>7 DEF Expire, table
  <2>2. sem' > 0
    BY <1>7, TypeParts, TimerAssumption DEF Expire
  <2> QED BY <2>1, <2>2 DEF TimeInv, Covered, ReadFromStart, CountedSleep
<1>8. CASE Tick
  <2>1. UNCHANGED <<total_sleep_time, last_timer_val, sem, pend, dpc>>
    BY <1>8 DEF Tick
  <2>2. \A i \in Rows : timers'[i].state = timers[i].state
                        /\ timers'[i].val = timers[i].val
    <3> SUFFICES ASSUME NEW i \in Rows
                 PROVE  timers'[i].state = timers[i].state
                        /\ timers'[i].val = timers[i].val
      OBVIOUS
    <3> QED BY <1>8, TickRows
  <2>3. hw'.running = hw.running /\ hw'.load = hw.load
    BY <1>8, TypeParts DEF Tick
  <2>4. CountedSleep'
    BY <2>1, <2>3 DEF TimeInv, CountedSleep
  <2> QED BY <2>1, <2>2, <2>4 DEF TimeInv, Covered, ReadFromStart
<1>9. CASE UNCHANGED vars
  BY <1>9 DEF vars, table, TimeInv, Covered, ReadFromStart, CountedSleep
<1> QED BY <1>1, <1>2, <1>3, <1>4, <1>5, <1>6, <1>7, <1>8, <1>9, <1>10
        DEF Next, Dispatch

LEMMA InitTable == Init => OwnInv /\ TimeInv
<1> SUFFICES ASSUME Init PROVE OwnInv /\ TimeInv
  OBVIOUS
<1>1. PICK boot \in Values \ {0} :
        /\ timers = [i \in Rows |-> IF i # 0 THEN Free
                        ELSE Alarm(boot, 0, boot, boot < Load(boot))]
        /\ total_sleep_time = boot
        /\ hw = [running |-> TRUE, load |-> Load(boot), count |-> 0]
  BY DEF Init
<1>2. boot \in 1..TimevalMax /\ boot < MaxCount
  BY ValueFacts
<1>3. boot < MaxCount + MaxCount /\ boot \in Int
  BY <1>2, TimerAssumption
<1>4. /\ dpc = "wait" /\ mutex = Nobody /\ last_timer_raw = 0
      /\ last_timer_val = 0
      /\ \A t \in Threads : pend[t] = None
  BY DEF Init
<1>5. \A i \in Rows :
        /\ timers[i].state \in {"free", "armed"}
        /\ timers[i].state = "armed" => i = 0 /\ timers[i].val = boot
  BY <1>1 DEF Free, Alarm
<1>6. Locked /\ Owned
  <2>1. Dispatcher \in Threads /\ \A t \in Lockers : t \in Threads /\ t # Nobody
    BY ThreadFacts DEF Threads
  <2> QED BY <1>4, <2>1, ThreadFacts DEF Locked, Owned
<1>7. Due /\ RowsBelowLast
  BY <1>4, <1>5 DEF Due, RowsBelowLast
<1>8. Covered
  BY <1>1, <1>3, <1>5 DEF Covered
<1>9. ReadFromStart /\ CountedSleep
  <2>1. hw.running = TRUE /\ hw.load = Load(boot)
    BY <1>1
  <2>2. Load(boot) \in Int /\ Load(boot) <= boot + MinTimeout
    BY <1>2, LoadType, TimerAssumption
  <2>3. hw.load < TimevalMax
    BY <1>2, <2>1, <2>2, TimerAssumption
  <2> QED BY <1>4, <2>1, <2>3 DEF ReadFromStart, CountedSleep
<1> QED BY <1>6, <1>7, <1>8, <1>9 DEF OwnInv, TimeInv

\* The inductive invariant of the table.
TableInv == TypeOK /\ OwnInv /\ TimeInv

LEMMA TableInvariant ==
    ASSUME Strays = {}
    PROVE  Spec => []TableInv
<1>1. Init => TableInv
  BY InitType, InitTable DEF TableInv
<1>2. TableInv /\ [Next]_vars => TableInv'
  BY TypeStep, OwnStep, TimeStep DEF TableInv
<1> QED BY <1>1, <1>2, PTL DEF Spec

\* Whatever alarms are set and deleted, in whatever order, every row in use is
\* one the loops of TimeDispatch reach (last_timer_raw, timer.c).
THEOREM AlarmsInReach ==
    ASSUME Strays = {}
    PROVE  Spec => []RowsBelowLast
<1>1. TableInv => RowsBelowLast
  BY DEF TableInv, OwnInv
<1> QED BY <1>1, TableInvariant, PTL

\* An armed alarm never waits for a timer that is not running: either the
\* semaphore is given or the hardware counts a finite sleep (SetAlarm,
\* TimeDispatch, setTimer and the expiry callback).
THEOREM AlarmsWatched ==
    ASSUME Strays = {}
    PROVE  Spec => []AlarmWatched
<1>1. TableInv => AlarmWatched
  <2> SUFFICES ASSUME TableInv, mutex = Nobody, NEW i \in Rows,
                      timers[i].state = "armed"
               PROVE  sem > 0 \/ (hw.running /\ hw.load < TimevalMax)
    BY DEF AlarmWatched
  <2>1. dpc # "dispatch"
    BY ThreadFacts DEF TableInv, OwnInv, Locked
  <2>2. total_sleep_time <= timers[i].val
        /\ timers[i].val < MaxCount + MaxCount
    BY DEF TableInv, TimeInv, Covered
  <2>3. total_sleep_time \in Int /\ timers[i].val \in Int
    BY TypeParts, TimerAssumption DEF TableInv, Entry
  <2>4. total_sleep_time < MaxCount + MaxCount
    BY <2>2, <2>3, TimerAssumption
  <2> QED BY <2>1, <2>4 DEF TableInv, TimeInv, CountedSleep
<1> QED BY <1>1, TableInvariant, PTL

\* A SetAlarm never overwrites an alarm that was set while it looked for a row.
THEOREM AlarmsOwnTheirRow ==
    ASSUME Strays = {}
    PROVE  Spec => OwnRow
<1>1. TableInv => \A t \in Threads :
        pend[t] # None => timers[pend[t].row].state # "armed"
  BY DEF TableInv, OwnInv, Owned
<1>2. TableInv /\ [Next]_vars =>
        [\A t \in Threads : pend[t] # None /\ pend'[t] = None
           => timers[pend[t].row].state # "armed"]_vars
  BY <1>1
<1> QED BY <1>2, TableInvariant, PTL DEF Spec, OwnRow

----------------------------------------------------------------------------
(* Waking in time                                                           *)

\* Time that an alarm's row has left, less what was counted since the last
\* dispatch, is what its caller waits for at least, unless time was lost.
Kept ==
    \A i \in Rows : timers[i].state = "armed" /\ ~ timers[i].late =>
        timers[i].val - Counted <= timers[i].left

\* A periodic alarm that is due is due again within a period.
WithinPeriod ==
    \A i \in Rows : timers[i].state = "trig_period" =>
        timers[i].val <= timers[i].interval

WakeInv == Kept /\ WithinPeriod

LEMMA CountedType ==
    /\ TypeOK => Counted \in Int
    /\ TypeOK' => Counted' \in Int
<1>1. ASSUME TypeOK PROVE Counted \in Int
  <2>1. total_sleep_time \in Int /\ hw.load \in Int /\ hw.count \in Int
    BY <1>1, TypeParts, TimerAssumption
  <2> QED BY <2>1 DEF Counted
<1>2. ASSUME TypeOK' PROVE Counted' \in Int
  <2>1. total_sleep_time' \in Int /\ hw'.load \in Int /\ hw'.count \in Int
    BY <1>2, TypePartsNext, TimerAssumption
  <2> QED BY <2>1 DEF Counted
<1> QED BY <1>1, <1>2

\* A step that loses no time.
LEMMA NotLost ==
    ASSUME Counted \in Int, Counted' \in Int
    PROVE  /\ ~ Lost(0, 0) => Counted <= Counted'
           /\ ~ Lost(1, 0) => Counted + 1 <= Counted'
<1> DEFINE c == Counted
           d == Counted'
<1>1. /\ ~ Lost(0, 0) => ~ (0 + d < c + 0)
      /\ ~ Lost(1, 0) => ~ (0 + d < c + 1)
  BY DEF Lost
<1>2. c \in Int /\ d \in Int
  OBVIOUS
<1> HIDE DEF c, d
<1>3. /\ ~ (0 + d < c + 0) => c <= d
      /\ ~ (0 + d < c + 1) => c + 1 <= d
  BY <1>2
<1> QED BY <1>1, <1>3 DEF c, d

\* The numbers of a row.
LEMMA RowNumbers ==
    ASSUME NEW r \in Entry
    PROVE  r.val \in Int /\ r.left \in Int /\ r.interval \in Nat
<1>1. \A x \in Periods \cup {0} : x \in Nat
  BY TimerAssumption
<1>2. \A x \in 0..TimevalMax : x \in Int
  BY TimerAssumption
<1>3. r.val \in 0..TimevalMax /\ r.left \in Nat /\ r.interval \in Periods \cup {0}
  BY DEF Entry
<1> QED BY <1>1, <1>2, <1>3

\* A row that sleeps on has the total less; one that is armed again, a period.
LEMMA AfterKeeps ==
    ASSUME NEW r \in Entry, r.state = "armed",
           NEW total \in 0..TimevalMax, NEW overrun \in 0..TimevalMax
    PROVE  LET a == After(r, total, overrun)
           IN  /\ a.state = "armed" =>
                    a.val = r.val - total /\ a.left = r.left /\ a.late = r.late
               /\ a.state = "trig_period" => a.val <= a.interval
<1>1. CASE r.val > total
  <2>1. After(r, total, overrun) = [r EXCEPT !.val = r.val - total]
    BY <1>1 DEF After, Entry
  <2> QED BY <2>1 DEF Entry
<1>2. CASE ~ (r.val > total) /\ r.interval = 0
  <2>1. After(r, total, overrun) = [r EXCEPT !.state = "trig", !.late = FALSE]
    BY <1>2, TimerAssumption DEF After, Entry
  <2> QED BY <2>1 DEF Entry
<1>3. CASE ~ (r.val > total) /\ r.interval # 0
  <2> DEFINE v == r.interval - (overrun % r.interval)
             a == After(r, total, overrun)
  <2>1. a = [r EXCEPT !.state = "trig_period", !.late = FALSE, !.val = v]
    <3>1. ~ (r.val > total) /\ ~ (r.val <= total /\ r.interval = 0)
      BY <1>3
    <3> QED BY ONLY <3>1, Zenon DEF After, v, a
  <2>2. v <= r.interval
    <3>1. r.interval \in Nat \ {0} /\ overrun \in Nat
      BY <1>3, RowNumbers, TimerAssumption
    <3>2. overrun % r.interval \in Nat
      BY <3>1
    <3> QED BY <3>1, <3>2
  <2> HIDE DEF a, v
  <2>3. a.state = "trig_period" /\ a.val = v /\ a.interval = r.interval
    BY <2>1 DEF Entry
  <2> QED BY <2>2, <2>3 DEF a
<1> QED BY <1>1, <1>2, <1>3

\* The new alarm counts from the time elapsed, which the dispatch will take
\* off its row again; for the others the counter restarts.
LEMMA StoreAlarmWakes ==
    ASSUME TableInv, TypeOK', WakeInv, NEW t \in Threads, StoreAlarm(t)
    PROVE  WakeInv'
<1> DEFINE p == pend[t]
<1>1. /\ p \in Pending /\ p.row \in Rows
      /\ timers'[p.row].state = "armed"
      /\ timers'[p.row].val = Wrap(p.value + p.elapsed)
      /\ timers'[p.row].left = p.value
      /\ ~ timers'[p.row].late => ~ (p.elapsed > Counted')
  BY StoreAlarmRows DEF TableInv
<1>2. \A i \in Rows : i # p.row =>
        /\ timers'[i].state = timers[i].state
        /\ timers'[i].val = timers[i].val
        /\ timers'[i].left = timers[i].left
        /\ timers'[i].interval = timers[i].interval
        /\ timers'[i].state = "armed" /\ ~ timers'[i].late =>
             ~ timers[i].late /\ ~ Lost(0, 0)
  BY StoreAlarmRows DEF TableInv
<1>3. p.value \in 0..TimevalMax /\ p.value < MaxCount
      /\ p.elapsed \in 0..TimevalMax
  <2>1. p.value \in Values /\ p.elapsed \in 0..TimevalMax
    BY <1>1 DEF Pending
  <2> QED BY <2>1, ValueFacts
<1>4. p.value \in Int /\ p.elapsed \in Int
      /\ Wrap(p.value + p.elapsed) = p.value + p.elapsed
  <2>1. p.elapsed <= MaxCount
    BY DEF StoreAlarm, TableInv, TimeInv, ReadFromStart
  <2> HIDE DEF p
  <2>2. p.value + p.elapsed \in 0..TimevalMax /\ p.value + p.elapsed \in Int
    BY <1>3, <2>1, TimerAssumption
  <2> QED BY <1>3, <2>2, WrapType, TimerAssumption
<1>5. Counted \in Int /\ Counted' \in Int
  BY CountedType DEF TableInv
<1> HIDE DEF p
<1>6. Kept'
  <2> SUFFICES ASSUME NEW i \in Rows, timers'[i].state = "armed",
                      ~ timers'[i].late
               PROVE  timers'[i].val - Counted' <= timers'[i].left
    BY DEF Kept
  <2>1. CASE i = p.row
    BY <1>1, <1>4, <1>5, <2>1
  <2>2. CASE i # p.row
    <3>0. ~ Lost(0, 0)
      BY <1>2, <2>2
    <3>1. Counted <= Counted'
      BY <1>5, <3>0, NotLost
    <3>2. timers[i].val - Counted <= timers[i].left
      BY <1>2, <2>2 DEF WakeInv, Kept
    <3>3. timers[i].val \in Int /\ timers[i].left \in Int
      BY TypeParts, RowNumbers DEF TableInv
    <3> QED BY <1>2, <1>5, <2>2, <3>1, <3>2, <3>3
  <2> QED BY <2>1, <2>2
<1>7. WithinPeriod'
  BY <1>1, <1>2 DEF WakeInv, WithinPeriod
<1> QED BY <1>6, <1>7 DEF WakeInv

\* The first loop takes the same time off every row, and restarts the counter.
LEMMA DispatchWakes ==
    ASSUME TableInv, TypeOK', WakeInv, TimeDispatch
    PROVE  WakeInv'
<1> DEFINE overrun == ElapsedTime
           total   == Wrap(total_sleep_time + overrun)
           s       == Losing(Lost(0, total))
<1>1. overrun \in 0..TimevalMax /\ total \in 0..TimevalMax /\ total \in Int
  <2>1. overrun \in 0..TimevalMax /\ total \in 0..TimevalMax
    BY DispatchRows DEF TableInv
  <2> HIDE DEF overrun, total
  <2> QED BY <2>1, TimerAssumption
<1>2. /\ \A i \in Armed :
            /\ timers'[i] = After(s[i], total, overrun)
            /\ s[i] \in Entry /\ s[i].state = "armed"
            /\ s[i].val = timers[i].val /\ s[i].left = timers[i].left
            /\ s[i].interval = timers[i].interval
            /\ ~ s[i].late => ~ Lost(0, total) /\ ~ timers[i].late
      /\ \A i \in Rows : i \notin Armed => timers'[i] = timers[i]
  BY DispatchRows DEF TableInv
<1>3. Counted \in Int /\ Counted' \in Int
  BY CountedType DEF TableInv
<1> HIDE DEF overrun, total, s
<1>4. \A i \in Rows : timers[i].state = "armed" => i \in Armed
  BY DEF TableInv, OwnInv, RowsBelowLast, Armed
<1>5. \A i \in Armed :
        /\ i \in Rows /\ timers[i].state = "armed"
        /\ timers'[i].state # "free"
        /\ timers'[i].state = "armed" =>
             /\ timers'[i].val = timers[i].val - total
             /\ timers'[i].left = timers[i].left
             /\ timers'[i].late = s[i].late
        /\ timers'[i].state = "trig_period" =>
             timers'[i].val <= timers'[i].interval
  BY <1>1, <1>2, AfterType, AfterKeeps DEF Armed
<1>6. Kept'
  <2> SUFFICES ASSUME NEW i \in Rows, timers'[i].state = "armed",
                      ~ timers'[i].late
               PROVE  timers'[i].val - Counted' <= timers'[i].left
    BY DEF Kept
  <2>1. i \in Armed
    BY <1>2, <1>4
  <2>2. ~ Lost(0, total) /\ ~ timers[i].late /\ timers[i].state = "armed"
        /\ timers'[i].val = timers[i].val - total
        /\ timers'[i].left = timers[i].left
    BY <1>2, <1>5, <2>1
  <2>3. Counted <= total + Counted'
    BY <1>1, <1>3, <2>2 DEF Lost
  <2>4. timers[i].val - Counted <= timers[i].left
    BY <2>2 DEF WakeInv, Kept
  <2>5. timers[i].val \in Int /\ timers[i].left \in Int
    BY TypeParts, RowNumbers DEF TableInv
  <2> QED BY <1>1, <1>3, <2>2, <2>3, <2>4, <2>5
<1>7. WithinPeriod'
  BY <1>2, <1>5 DEF WakeInv, WithinPeriod
<1> QED BY <1>6, <1>7 DEF WakeInv

\* A periodic alarm has its whole period before it, and the dispatcher no more.
LEMMA TrigWakes ==
    ASSUME TableInv, TypeOK', WakeInv, Trig
    PROVE  WakeInv'
<1>1. row \in Rows /\ timers \in [Rows -> Entry] /\ UNCHANGED Counted
  BY TypeParts, TimerAssumption DEF TableInv, Trig, Rows, Counted
<1>2. Counted \in Int
  BY CountedType DEF TableInv
<1> DEFINE r == timers[row]
           s == timers'[row]
<1>3. \A i \in Rows : i # row => timers'[i] = timers[i]
  BY <1>1 DEF Trig
<1>4. CASE r.state = "trig_period"
  <2> DEFINE late == Counted < 0
             a    == Alarm(r.val, r.interval, r.interval, late)
  <2>1. timers' = [timers EXCEPT ![row] = a]
    BY <1>4 DEF Trig
  <2>2. r \in Entry /\ r.val \in Int /\ r.interval \in Nat
    BY <1>1, RowNumbers
  <2>3. r.val \in 0..TimevalMax /\ r.interval \in Periods \cup {0}
        /\ late \in BOOLEAN
    BY <2>2 DEF Entry
  <2>4. r.val <= r.interval
    BY <1>1, <1>4 DEF WakeInv, WithinPeriod
  <2> HIDE DEF late, r
  <2>5. a.state = "armed" /\ a.val = r.val /\ a.left = r.interval
        /\ a.late = late
    BY <2>2, <2>3, AlarmType
  <2> HIDE DEF a
  <2>6. s = a
    BY <1>1, <2>1
  <2>7. ~ s.late => ~ (Counted < 0)
    BY <2>5, <2>6 DEF late
  <2>8. ~ (Counted < 0) => r.val - Counted <= r.interval
    BY <1>2, <2>2, <2>4
  <2> QED BY <1>1, <1>3, <2>5, <2>6, <2>7, <2>8
          DEF WakeInv, Kept, WithinPeriod
<1>5. CASE r.state # "trig_period"
  <2>1. s.state = "free" \/ s = r
    BY <1>1, <1>5, FreeType DEF Trig
  <2> QED BY <1>1, <1>3, <2>1 DEF WakeInv, Kept, WithinPeriod
<1> QED BY <1>4, <1>5

\* A moment that passes is counted, or lost.
LEMMA TickWakes ==
    ASSUME TableInv, TypeOK', WakeInv, Tick
    PROVE  WakeInv'
<1>1. \A i \in Rows :
        /\ timers'[i].state = timers[i].state /\ timers'[i].val = timers[i].val
        /\ timers'[i].interval = timers[i].interval
        /\ timers[i].left - 1 <= timers'[i].left
        /\ timers'[i].left \in Int /\ timers[i].left \in Int
        /\ timers[i].val \in Int
        /\ timers'[i].state = "armed" /\ ~ timers'[i].late =>
             ~ timers[i].late /\ ~ Lost(1, 0)
  BY TickRows, TypeParts, RowNumbers DEF TableInv
<1>2. Counted \in Int /\ Counted' \in Int
  BY CountedType DEF TableInv
<1>4. Counted' <= Counted + 1
  <2>1. total_sleep_time' = total_sleep_time
    BY DEF Tick
  <2>2. total_sleep_time \in Int /\ hw.load \in Int /\ hw.count \in Int
        /\ hw \in [running : BOOLEAN, load : 1..TimevalMax + MinTimeout,
                   count : Nat]
    BY TypeParts, TimerAssumption DEF TableInv
  <2>3. hw'.load = hw.load /\ (hw'.count = hw.count \/ hw'.count = hw.count + 1)
    BY <2>2 DEF Tick
  <2> QED BY <2>1, <2>2, <2>3 DEF Counted
<1>5. Kept'
  <2> SUFFICES ASSUME NEW i \in Rows, timers'[i].state = "armed",
                      ~ timers'[i].late
               PROVE  timers'[i].val - Counted' <= timers'[i].left
    BY DEF Kept
  <2>1. Counted' = Counted + 1
    <3>1. ~ Lost(1, 0)
      BY <1>1
    <3>2. Counted + 1 <= Counted'
      BY <1>2, <3>1, NotLost
    <3> QED BY <1>2, <1>4, <3>2
  <2>2. timers[i].val - Counted <= timers[i].left
    BY <1>1 DEF WakeInv, Kept
  <2>3. /\ timers'[i].val = timers[i].val
        /\ timers[i].left - 1 <= timers'[i].left
        /\ timers'[i].left \in Int /\ timers[i].left \in Int
        /\ timers[i].val \in Int
    BY <1>1
  <2> QED BY <1>2, <2>1, <2>2, <2>3
<1>6. WithinPeriod'
  BY <1>1 DEF WakeInv, WithinPeriod
<1> QED BY <1>5, <1>6 DEF WakeInv

LEMMA WakeStep ==
    ASSUME Strays = {}, TableInv, TypeOK', WakeInv, [Next]_vars
    PROVE  WakeInv'
<1>1. ASSUME UNCHANGED <<timers, Counted>> PROVE WakeInv'
  BY <1>1 DEF WakeInv, Kept, WithinPeriod
<1>2. ASSUME NEW t \in Threads, NEW value \in Values, NEW period \in Periods,
             SetAlarm(t, value, period)
      PROVE  WakeInv'
  BY <1>1, <1>2 DEF SetAlarm, Counted
<1>3. ASSUME NEW t \in Threads, NEW handle \in Rows, DelAlarm(t, handle)
      PROVE  WakeInv'
  <2>1. timers \in [Rows -> Entry]
    BY TypeParts DEF TableInv
  <2>2. timers' = [timers EXCEPT ![handle] = Free] /\ UNCHANGED Counted
    BY <1>3 DEF DelAlarm, Counted
  <2>3. timers'[handle].state = "free"
        /\ \A i \in Rows : i # handle => timers'[i] = timers[i]
    BY <2>1, <2>2, FreeType
  <2> QED BY <2>2, <2>3 DEF WakeInv, Kept, WithinPeriod
<1>4. ASSUME NEW t \in Lockers, Caller(t) PROVE WakeInv'
  <2>1. t \in Threads
    BY DEF Threads
  <2> QED BY <1>2, <1>3, <1>4, <2>1, StoreAlarmWakes DEF Caller
<1>5. CASE Callback
  BY <1>2, <1>3, <1>5, ThreadFacts, StoreAlarmWakes DEF Callback
<1>6. CASE TakeSemaphore \/ Return \/ DispatchDone
  BY <1>1, <1>6 DEF TakeSemaphore, Return, DispatchDone, table, Counted
<1>7. CASE Expire
  <2>1. hw' = [hw EXCEPT !.running = FALSE] /\ UNCHANGED <<timers, total_sleep_time>>
    BY <1>7 DEF Expire, table
  <2>2. hw'.load = hw.load /\ hw'.count = hw.count
    BY <2>1, TypeParts DEF TableInv
  <2> QED BY <1>1, <2>1, <2>2 DEF Counted
<1>8. CASE UNCHANGED vars
  BY <1>1, <1>8 DEF vars, table, Counted
<1> QED
  BY <1>4, <1>5, <1>6, <1>7, <1>8, DispatchWakes, TrigWakes, TickWakes
     DEF Next, Dispatch

LEMMA InitWakes == Init => WakeInv
<1> SUFFICES ASSUME Init PROVE WakeInv
  OBVIOUS
<1>1. PICK boot \in Values \ {0} :
        /\ timers = [i \in Rows |-> IF i # 0 THEN Free
                        ELSE Alarm(boot, 0, boot, boot < Load(boot))]
        /\ total_sleep_time = boot
        /\ hw = [running |-> TRUE, load |-> Load(boot), count |-> 0]
  BY DEF Init
<1>2. boot \in Int /\ Load(boot) \in Int
  BY ValueFacts, LoadType, TimerAssumption
<1>3. Counted = boot - Load(boot)
  BY <1>1, <1>2 DEF Counted
<1>4. \A i \in Rows :
        /\ timers[i].state \in {"free", "armed"}
        /\ timers[i].state = "armed" =>
             /\ timers[i].val = boot /\ timers[i].left = boot
             /\ timers[i].late = (boot < Load(boot))
  BY <1>1 DEF Free, Alarm
<1>5. ASSUME NEW i \in Rows, timers[i].state = "armed", ~ timers[i].late
      PROVE  timers[i].val - Counted <= timers[i].left
  <2>1. ~ (boot < Load(boot))
    BY <1>4, <1>5
  <2>2. timers[i].val = boot /\ timers[i].left = boot
    BY <1>4, <1>5
  <2> QED BY <1>2, <1>3, <2>1, <2>2
<1> QED BY <1>4, <1>5 DEF WakeInv, Kept, WithinPeriod

\* However alarms are set, deleted, called and set again, and whichever of
\* these restarts the hardware, an alarm for which no time was lost while it
\* waited is not overslept: when it is due the hardware has run out (SetAlarm,
\* TimeDispatch, setTimer).
THEOREM AlarmsWake ==
    ASSUME Strays = {}
    PROVE  Spec => []WakesInTime
<1>1. TableInv /\ WakeInv => WakesInTime
  <2> SUFFICES ASSUME TableInv, WakeInv, NEW i \in Rows,
                      timers[i].state = "armed", ~ timers[i].late
               PROVE  hw.load - hw.count <= timers[i].left
    BY DEF WakesInTime
  <2>1. total_sleep_time <= timers[i].val
    BY DEF TableInv, TimeInv, Covered
  <2>2. timers[i].val - Counted <= timers[i].left
    BY DEF WakeInv, Kept
  <2>3. /\ timers[i].val \in Int /\ timers[i].left \in Int
        /\ total_sleep_time \in Int /\ hw.load \in Int /\ hw.count \in Int
    BY TypeParts, RowNumbers, TimerAssumption DEF TableInv
  <2> QED BY <2>1, <2>2, <2>3 DEF Counted
<1>2. TableInv /\ TableInv' /\ WakeInv /\ [Next]_vars => WakeInv'
  BY WakeStep DEF TableInv
<1> QED BY <1>1, <1>2, InitWakes, TableInvariant, PTL DEF Spec

----------------------------------------------------------------------------
(* What the table implements                                                *)

\* A row that is due is marked as its period says.
Marked ==
    \A i \in Rows : /\ timers[i].state = "trig" => timers[i].interval = 0
                    /\ timers[i].state = "trig_period" => timers[i].interval # 0

LEMMA AlarmShapes ==
    ASSUME NEW r \in Entry
    PROVE  /\ r.state = "free" <=> AlarmOf(r) = Service!Free
           /\ r.state = "armed" <=> AlarmOf(r).status = "set"
           /\ r.state = "armed" => AlarmOf(r) = Service!Alarm("set", r.interval)
           /\ r.state \in {"trig", "trig_period"} <=> AlarmOf(r).status = "due"
           /\ r.state \in {"trig", "trig_period"} =>
                AlarmOf(r) = Service!Alarm("due", r.interval)
           /\ r.state # "free" => AlarmOf(r).period = r.interval
<1>1. r.state \in {"free", "armed", "trig", "trig_period"}
  BY DEF Entry, States
<1>2. CASE r.state = "free"
  BY <1>2 DEF AlarmOf, Service!Free, Service!Alarm
<1>3. CASE r.state = "armed"
  BY <1>3 DEF AlarmOf, Service!Free, Service!Alarm
<1>4. CASE r.state \in {"trig", "trig_period"}
  BY <1>4 DEF AlarmOf, Service!Free, Service!Alarm
<1> QED BY <1>1, <1>2, <1>3, <1>4

\* Who is inside the table is outside the rounds, or is a callback.
LEMMA OutsideRound ==
    ASSUME TableInv, NEW t \in Lockers, mutex \in {Nobody, t}, dpc' = dpc
    PROVE  Service!Outside
<1>1. dpc = "wait"
  BY ThreadFacts DEF TableInv, OwnInv, Locked
<1> QED BY <1>1 DEF Service!Outside, Round

LEMMA OutsideCallback ==
    ASSUME dpc \in {"callback", "store"}, dpc' = "callback"
    PROVE  Service!Outside
  BY DEF Service!Outside, Round

\* The second half of SetAlarm sets an alarm.
LEMMA StoreSets ==
    ASSUME TableInv, NEW t \in Threads, StoreAlarm(t), Service!Outside
    PROVE  Service!Next
<1> DEFINE p == pend[t]
<1>1. /\ p \in Pending /\ timers[p.row].state = "free"
  BY StoreAlarmOwn DEF TableInv, OwnInv
<1>2. p.row \in Rows /\ p.period \in Periods
  BY <1>1 DEF Pending
<1>3. /\ timers'[p.row].state = "armed" /\ timers'[p.row].interval = p.period
      /\ \A i \in Rows : i # p.row =>
           /\ timers'[i].state = timers[i].state
           /\ timers'[i].interval = timers[i].interval
  BY StoreAlarmRows DEF TableInv
<1> HIDE DEF p
<1>4. timers \in [Rows -> Entry]
  BY TypeParts DEF TableInv
<1>5. AlarmOf(timers[p.row]) = Service!Free
  BY <1>1, <1>2, <1>4, AlarmShapes
<1>6. AlarmOf(timers'[p.row]) = Service!Alarm("set", p.period)
  BY <1>3 DEF AlarmOf, Service!Alarm
<1>7. \A i \in Rows : i # p.row => AlarmOf(timers'[i]) = AlarmOf(timers[i])
  BY <1>3 DEF AlarmOf
<1>8. Service!Set(p.row, p.period)
  BY <1>2, <1>5, <1>6, <1>7 DEF Service!Set
<1> QED BY <1>2, <1>8 DEF Service!Next

\* DelAlarm deletes one.
LEMMA DelDeletes ==
    ASSUME TableInv, NEW t \in Threads, NEW handle \in Rows,
           DelAlarm(t, handle), Service!Outside
    PROVE  Service!Next
<1>1. timers \in [Rows -> Entry]
  BY TypeParts DEF TableInv
<1>2. timers' = [timers EXCEPT ![handle] = Free]
  BY DEF DelAlarm
<1>3. AlarmOf(timers'[handle]) = Service!Free
  <2>1. timers'[handle] \in Entry /\ timers'[handle].state = "free"
    BY <1>1, <1>2, FreeType
  <2> QED BY <2>1, AlarmShapes
<1>4. \A i \in Rows : i # handle => timers'[i] = timers[i]
  BY <1>1, <1>2
<1>5. Service!Delete(handle)
  BY <1>3, <1>4 DEF Service!Delete
<1> QED BY <1>5 DEF Service!Next

\* While the dispatcher is about to begin no row is due.
LEMMA NothingDue ==
    ASSUME TableInv, dpc \in {"wait", "dispatch"} \/ row > last_timer_raw
    PROVE  Service!DueHandles = {}
<1> SUFFICES ASSUME NEW i \in Rows,
                    timers[i].state \in {"trig", "trig_period"}
             PROVE  FALSE
  <2>1. \A i \in Rows : timers[i] \in Entry
    BY TypeParts DEF TableInv
  <2> QED BY <2>1, AlarmShapes DEF Service!DueHandles
<1>1. i <= last_timer_raw /\ row <= i /\ dpc \notin {"wait", "dispatch"}
  <2>1. i \in Int /\ row \in Int
    BY TypeParts, TimerAssumption DEF TableInv, Rows
  <2> QED BY <2>1 DEF TableInv, OwnInv, Due, RowsBelowLast
<1> QED
  BY <1>1, TypeParts, TimerAssumption DEF TableInv, Rows

\* The first loop of TimeDispatch lets alarms fall due.
LEMMA DispatchFalls ==
    ASSUME TableInv, TimeDispatch
    PROVE  Service!Fall
<1> DEFINE overrun == ElapsedTime
           total   == Wrap(total_sleep_time + overrun)
           S       == {i \in Armed : timers'[i].state # "armed"}
           l       == Losing(Lost(0, total))
<1>1. /\ timers \in [Rows -> Entry]
      /\ overrun \in 0..TimevalMax /\ total \in 0..TimevalMax
  BY DispatchRows, TypeParts DEF TableInv
<1>2. /\ \A i \in Armed :
            /\ timers'[i] = After(l[i], total, overrun)
            /\ l[i] \in Entry /\ l[i].state = "armed"
            /\ l[i].interval = timers[i].interval
      /\ \A i \in Rows : i \notin Armed => timers'[i] = timers[i]
      /\ dpc = "dispatch" /\ dpc' = "trig"
  <2>1. dpc = "dispatch" /\ dpc' = "trig"
    BY DEF TimeDispatch
  <2> QED BY <2>1, DispatchRows DEF TableInv
<1> HIDE DEF overrun, total, l
<1>3. ASSUME NEW i \in Rows
      PROVE  AlarmOf(timers'[i]) =
               IF i \in S THEN Service!Alarm("due", AlarmOf(timers[i]).period)
                          ELSE AlarmOf(timers[i])
  <2>1. CASE i \notin Armed
    BY <1>2, <2>1
  <2>2. CASE i \in Armed
    <3> DEFINE r == timers[i]
               a == After(l[i], total, overrun)
    <3>1. r \in Entry /\ r.state = "armed" /\ timers'[i] = a
      BY <1>1, <1>2, <2>2 DEF Armed
    <3>2. a \in Entry /\ a.state # "free"
      BY <1>1, <1>2, <2>2, AfterType
    <3>3. a.interval = r.interval
      <4>1. l[i] \in Entry /\ l[i].interval = r.interval
        BY <1>2, <2>2
      <4> QED BY <4>1 DEF After, Entry
    <3> HIDE DEF r, a
    <3>4. AlarmOf(r) = Service!Alarm("set", r.interval)
      BY <3>1, AlarmShapes
    <3>5. CASE a.state = "armed"
      <4>1. AlarmOf(a) = Service!Alarm("set", a.interval)
        BY <3>2, <3>5, AlarmShapes
      <4> QED BY <3>1, <3>3, <3>4, <3>5, <4>1 DEF r
    <3>6. CASE a.state # "armed"
      <4>1. a.state \in {"trig", "trig_period"}
        BY <3>2, <3>6 DEF Entry, States
      <4>2. AlarmOf(a) = Service!Alarm("due", a.interval)
        BY <3>2, <4>1, AlarmShapes
      <4>3. AlarmOf(r).period = r.interval
        BY <3>1, AlarmShapes
      <4> QED BY <2>2, <3>1, <3>3, <3>6, <4>2, <4>3 DEF r
    <3> QED BY <3>5, <3>6
  <2> QED BY <2>1, <2>2
<1>4. S \in SUBSET {h \in Rows : AlarmOf(timers[h]).status = "set"}
  BY <1>1, AlarmShapes DEF Armed
<1> HIDE DEF S
<1>5. Service!DueHandles = {}
  BY <1>2, NothingDue
<1>6. Round = "idle" /\ Round' = "round"
  BY <1>2 DEF Round
<1> QED BY <1>3, <1>4, <1>5, <1>6 DEF Service!Fall

\* The second loop calls the first of those that are due, or goes on.
LEMMA TrigCalls ==
    ASSUME TableInv, Marked, Trig
    PROVE  [Service!Next]_Service!vars
<1>1. /\ timers \in [Rows -> Entry] /\ row \in Rows
      /\ dpc = "trig" /\ Round = "round"
  BY TypeParts, TimerAssumption DEF TableInv, Trig, Rows, Round
<1> DEFINE r == timers[row]
<1>2. r \in Entry
  BY <1>1
<1>3. CASE r.state \notin {"trig", "trig_period"}
  <2>1. UNCHANGED <<timers, dpc>>
    BY <1>3 DEF Trig
  <2> QED BY <2>1 DEF Service!vars, Round
<1>4. CASE r.state \in {"trig", "trig_period"}
  <2>1. dpc' = "callback" /\ Round' = "callback"
    BY <1>4 DEF Trig, Round
  <2>2. row \in Service!DueHandles /\ \A other \in Service!DueHandles : row <= other
    <3>1. \A i \in Rows : AlarmOf(timers[i]).status = "due" <=>
                            timers[i].state \in {"trig", "trig_period"}
      BY <1>1, AlarmShapes
    <3> QED BY <1>1, <1>4, <3>1 DEF Service!DueHandles, TableInv, OwnInv, Due
  <2>3. \A i \in Rows : i # row => timers'[i] = timers[i]
    BY <1>1, <1>4 DEF Trig
  <2>4. AlarmOf(r).period = r.interval
    BY <1>2, <1>4, AlarmShapes
  <2>5. AlarmOf(timers'[row]) = IF r.interval = 0 THEN Service!Free
                                ELSE Service!Alarm("set", r.interval)
    <3>1. CASE r.state = "trig"
      <4>1. timers' = [timers EXCEPT ![row] = Free] /\ r.interval = 0
        BY <1>1, <3>1 DEF Trig, Marked
      <4>2. timers'[row].state = "free"
        BY <1>1, <4>1, FreeType
      <4> QED BY <4>1, <4>2 DEF AlarmOf, Service!Free, Service!Alarm
    <3>2. CASE r.state = "trig_period"
      <4>1. /\ \E a : /\ a.state = "armed" /\ a.interval = r.interval
                      /\ timers' = [timers EXCEPT ![row] = a]
            /\ r.interval # 0
        BY <1>1, <3>2 DEF Trig, Marked, Alarm
      <4>2. timers'[row].state = "armed" /\ timers'[row].interval = r.interval
        BY <1>1, <4>1
      <4> QED BY <4>1, <4>2 DEF AlarmOf, Service!Alarm
    <3> QED BY <1>4, <3>1, <3>2
  <2> HIDE DEF r
  <2>6. Service!Call(row)
    BY <1>1, <2>1, <2>2, <2>3, <2>4, <2>5 DEF Service!Call, r
  <2> QED BY <1>1, <2>6 DEF Service!Next
<1> QED BY <1>3, <1>4

\* A callback that sets an alarm is not back until the second half of SetAlarm.
LEMMA CallbackServes ==
    ASSUME TableInv, Callback
    PROVE  [Service!Next]_Service!vars
<1>1. Dispatcher \in Threads
  BY ThreadFacts
<1>2. CASE /\ dpc = "callback" /\ UNCHANGED <<dpc, row>>
           /\ \E handle \in Rows : DelAlarm(Dispatcher, handle)
  BY <1>1, <1>2, OutsideCallback, DelDeletes
<1>3. CASE /\ dpc = "callback" /\ dpc' = "store"
           /\ \E value \in Values, period \in Periods :
                SetAlarm(Dispatcher, value, period)
  BY <1>3 DEF SetAlarm, Service!vars, Round
<1>4. CASE dpc = "store" /\ dpc' = "callback" /\ StoreAlarm(Dispatcher)
  BY <1>1, <1>4, OutsideCallback, StoreSets
<1> QED BY <1>2, <1>3, <1>4 DEF Callback

\* Another thread has the mutex in both halves of SetAlarm and in DelAlarm.
LEMMA CallerServes ==
    ASSUME Strays = {}, TableInv, NEW t \in Lockers, Caller(t)
    PROVE  [Service!Next]_Service!vars
<1>1. t \in Threads /\ dpc' = dpc
  BY DEF Threads, Caller
<1>2. CASE \E value \in Values, period \in Periods : SetAlarm(t, value, period)
  BY <1>1, <1>2 DEF SetAlarm, Service!vars, Round
<1>3. CASE StoreAlarm(t)
  <2>1. mutex = t
    BY <1>1, <1>3, StoreAlarmOwn DEF TableInv, OwnInv
  <2> QED BY <1>1, <1>3, <2>1, OutsideRound, StoreSets
<1>4. CASE \E handle \in Rows : DelAlarm(t, handle)
  <2>1. mutex \in {Nobody, t}
    BY <1>4 DEF DelAlarm, Enter
  <2> QED BY <1>1, <1>4, <2>1, OutsideRound, DelDeletes
<1> QED BY <1>2, <1>3, <1>4 DEF Caller

\* Every step is a step of the service or shows nothing.
LEMMA Serves ==
    ASSUME Strays = {}, TableInv, Marked, [Next]_vars
    PROVE  [Service!Next]_Service!vars
<1>1. CASE TakeSemaphore
  BY <1>1 DEF TakeSemaphore, table, Service!vars, Round
<1>2. CASE TimeDispatch
  BY <1>2, DispatchFalls DEF Service!Next
<1>3. CASE DispatchDone
  <2>1. Service!DueHandles = {}
    BY <1>3, NothingDue DEF DispatchDone
  <2>2. Service!EndRound
    BY <1>3, <2>1 DEF DispatchDone, table, Round, Service!EndRound
  <2> QED BY <2>2 DEF Service!Next
<1>4. CASE Expire \/ UNCHANGED vars
  BY <1>4 DEF Expire, vars, table, Service!vars, Round
<1>5. CASE Tick
  <2>1. dpc' = dpc
    BY <1>5 DEF Tick
  <2>2. \A i \in Rows : AlarmOf(timers'[i]) = AlarmOf(timers[i])
    <3> SUFFICES ASSUME NEW i \in Rows
                 PROVE  AlarmOf(timers'[i]) = AlarmOf(timers[i])
      OBVIOUS
    <3>1. timers'[i].state = timers[i].state
          /\ timers'[i].interval = timers[i].interval
      BY <1>5, TickRows DEF TableInv
    <3> QED BY <3>1 DEF AlarmOf
  <2> QED BY <2>1, <2>2 DEF Service!vars, Round
<1>6. CASE Return
  BY <1>6 DEF Return, table, Round, Service!Return, Service!Next
<1> QED
  BY <1>1, <1>2, <1>3, <1>4, <1>5, <1>6, TrigCalls, CallbackServes,
     CallerServes
     DEF Next, Dispatch

\* Only TimeDispatch marks a row, by its period, which it keeps.
LEMMA MarkedStep ==
    ASSUME TypeOK, Marked, [Next]_vars
    PROVE  Marked'
<1>0. timers \in [Rows -> Entry]
  BY TypeParts
<1>1. ASSUME \A i \in Rows :
                \/ timers'[i].state \notin {"trig", "trig_period"}
                \/ /\ timers'[i].state = timers[i].state
                   /\ timers'[i].interval = timers[i].interval
      PROVE  Marked'
  BY <1>1 DEF Marked
<1>2. ASSUME NEW t \in Threads, StoreAlarm(t) PROVE Marked'
  BY <1>1, <1>2, StoreAlarmRows
<1>3. ASSUME NEW t \in Threads, NEW handle \in Rows, DelAlarm(t, handle)
      PROVE  Marked'
  BY <1>0, <1>1, <1>3, FreeType DEF DelAlarm
<1>4. CASE TimeDispatch
  <2> DEFINE overrun == ElapsedTime
             total   == Wrap(total_sleep_time + overrun)
             l       == Losing(Lost(0, total))
  <2>1. /\ overrun \in 0..TimevalMax /\ total \in 0..TimevalMax
        /\ \A i \in Armed : /\ timers'[i] = After(l[i], total, overrun)
                            /\ l[i] \in Entry /\ l[i].state = "armed"
        /\ \A i \in Rows : i \notin Armed => timers'[i] = timers[i]
    BY <1>4, DispatchRows
  <2> HIDE DEF overrun, total, l
  <2>3. ASSUME NEW i \in Armed
        PROVE  /\ timers'[i].state = "trig" => timers'[i].interval = 0
               /\ timers'[i].state = "trig_period" => timers'[i].interval # 0
    <3>1. l[i] \in Entry /\ l[i].state = "armed"
          /\ timers'[i] = After(l[i], total, overrun)
      BY <2>1
    <3>2. l[i].val > total \/ l[i].val <= total
      BY <2>1, <3>1, TimerAssumption DEF Entry
    <3> QED BY <3>1, <3>2 DEF After, Entry
  <2>4. \A i \in Rows : i \notin Armed => timers'[i] = timers[i]
    BY <2>1
  <2> QED BY <2>3, <2>4 DEF Marked
<1>5. CASE Trig
  <2>1. row \in Rows
    BY <1>5, TypeParts, TimerAssumption DEF Trig, Rows
  <2> QED BY <1>0, <1>1, <1>5, <2>1, FreeType DEF Trig, Alarm
<1>6. CASE Tick
  BY <1>1, <1>6, TickRows
<1>7. ASSUME timers' = timers PROVE Marked'
  BY <1>1, <1>7
<1>8. ASSUME NEW t \in Lockers \cup Strays, Caller(t) PROVE Marked'
  <2>1. t \in Threads
    BY DEF Threads
  <2> QED BY <1>2, <1>3, <1>7, <1>8, <2>1 DEF Caller, SetAlarm
<1>9. CASE Callback
  <2>1. Dispatcher \in Threads
    BY ThreadFacts
  <2> QED BY <1>2, <1>3, <1>7, <1>9, <2>1 DEF Callback, SetAlarm, table
<1> QED
  BY <1>4, <1>5, <1>6, <1>7, <1>8, <1>9
     DEF Next, Dispatch, TakeSemaphore, Return, DispatchDone, Expire, table,
         vars

LEMMA ServiceStart == Init => Marked /\ Service!Init
<1> SUFFICES ASSUME Init PROVE Marked /\ Service!Init
  OBVIOUS
<1>1. PICK boot \in Values \ {0} :
        timers = [i \in Rows |-> IF i # 0 THEN Free
                    ELSE Alarm(boot, 0, boot, boot < Load(boot))]
  BY DEF Init
<1>2. Marked
  BY <1>1 DEF Marked, Free, Alarm
<1>3. 0 \in Rows
  BY TimerAssumption DEF Rows
<1>4. [i \in Rows |-> AlarmOf(timers[i])] =
      [i \in Rows |-> IF i = 0 THEN Service!Alarm("set", 0) ELSE Service!Free]
  BY <1>1 DEF Free, Alarm, AlarmOf, Service!Free, Service!Alarm
<1>5. Round = "idle"
  BY DEF Init, Round
<1> QED BY <1>2, <1>3, <1>4, <1>5 DEF Service!Init

\* However the rows are taken, released and renumbered, an alarm set through
\* SetAlarm and not deleted is called once, in the order of the handles, in the
\* round in which it falls due, and a round of TimeDispatch ends only when
\* nothing is due; meanwhile only its own callbacks change the table.
THEOREM ImplementsAlarms ==
    ASSUME Strays = {}
    PROVE  Spec => AlarmSpec
<1>1. TableInv /\ Marked /\ [Next]_vars => Marked'
  BY MarkedStep DEF TableInv
<1>2. TableInv /\ Marked /\ [Next]_vars => [Service!Next]_Service!vars
  BY Serves
<1> QED
  BY <1>1, <1>2, ServiceStart, TableInvariant, PTL
     DEF Spec, AlarmSpec, Service!Spec
============================================================================
