----------------------------- MODULE TimerProofs -----------------------------
(***************************************************************************)
(* Theorems about timer.c, for every number of slots, width of a word, set  *)
(* of tasks and set of delays that meet the assumptions of module Timer.    *)
(* They need no pace of the main thread: they hold of Spec.                 *)
(***************************************************************************)
EXTENDS Timer, TLAPS

-----------------------------------------------------------------------------
(* The arithmetic of the two words. *)

LEMMA TwoWords == /\ WORD \in Nat /\ WORD >= 2
                  /\ WORD * WORD \in Nat /\ WORD * WORD >= 2 * WORD
<1>1. WORD \in Nat /\ WORD >= 2
  BY WordAssumption
<1>2. \A w \in Nat : w >= 2 => w * w \in Nat /\ w * w >= 2 * w
  OBVIOUS
<1> QED BY <1>1, <1>2

LEMMA Division ==
    ASSUME NEW c \in Ticks
    PROVE  /\ c \div WORD \in 0..(WORD - 1)
           /\ c % WORD \in 0..(WORD - 1)
           /\ c = (WORD * (c \div WORD)) + (c % WORD)
<1> DEFINE q == c \div WORD
           r == c % WORD
<1>1. WORD \in Nat /\ WORD >= 2 /\ c \in Nat /\ c < WORD * WORD
  BY TwoWords DEF Ticks
<1>2. q \in Int /\ r \in 0..(WORD - 1) /\ c = (WORD * q) + r
  BY <1>1
<1> HIDE DEF q, r
<1>3. q >= 0
  <2> SUFFICES ASSUME q <= -1 PROVE FALSE
    BY <1>2
  <2>1. WORD * q <= -WORD
    BY <1>1, <1>2
  <2> QED BY <2>1, <1>1, <1>2
<1>4. q < WORD
  <2> SUFFICES ASSUME q >= WORD PROVE FALSE
    BY <1>1, <1>2
  <2>1. WORD * q >= WORD * WORD
    BY <1>1, <1>2
  <2> QED BY <2>1, <1>1, <1>2
<1> QED BY <1>1, <1>2, <1>3, <1>4 DEF q, r

(* The low word of the counter, before and after it needs its high word.    *)
LEMMA LowWord ==
    ASSUME NEW c \in Ticks
    PROVE  /\ c < WORD => c % WORD = c /\ c \div WORD = 0
           /\ c >= WORD => c - (c % WORD) >= WORD
           /\ c = (WORD * WORD) - 1 => c % WORD = WORD - 1
<1> DEFINE q == c \div WORD
           r == c % WORD
<1>1. WORD \in Nat /\ WORD >= 2 /\ c \in Nat
  BY TwoWords DEF Ticks
<1>2. q \in 0..(WORD - 1) /\ r \in 0..(WORD - 1) /\ c = (WORD * q) + r
  BY Division
<1> HIDE DEF q, r
<1>3. q >= 1 => WORD * q >= WORD
  BY <1>1, <1>2
<1>4. q = 0 => c = r
  BY <1>1, <1>2
<1>5. q < WORD - 1 => WORD * q <= (WORD * WORD) - (2 * WORD)
  BY <1>1, <1>2
<1>6. q = WORD - 1 => WORD * q = (WORD * WORD) - WORD
  BY <1>1, <1>2
<1>7. c < WORD => r = c /\ q = 0
  BY <1>1, <1>2, <1>3, <1>4
<1>8. c >= WORD => c - r >= WORD
  BY <1>1, <1>2, <1>3, <1>4
<1>9. c = (WORD * WORD) - 1 => r = WORD - 1
  BY <1>1, <1>2, <1>5, <1>6, TwoWords
<1> QED BY <1>7, <1>8, <1>9 DEF q, r

(* The difference of two-word unsigned integers. *)
LEMMA ElapsedValue ==
    ASSUME NEW now \in Ticks, NEW then \in Ticks
    PROVE  /\ Elapsed(now, then) \in Ticks
           /\ then <= now => Elapsed(now, then) = now - then
           /\ now < then => Elapsed(now, then) = (now - then) + (WORD * WORD)
<1> DEFINE square == WORD * WORD
<1>1. square \in Nat \ {0}
  BY TwoWords
<1>2. Ticks = 0..(square - 1)
  BY DEF Ticks
<1> HIDE DEF square
<1>3. \A n \in (-(square - 1))..(square - 1) :
         n % square = IF n >= 0 THEN n ELSE n + square
  BY <1>1
<1>4. now - then \in (-(square - 1))..(square - 1)
  BY <1>1, <1>2
<1>5. Elapsed(now, then) = (now - then) % square
  BY DEF Elapsed, square
<1>6. Elapsed(now, then) = IF now - then >= 0 THEN now - then ELSE (now - then) + square
  BY <1>3, <1>4, <1>5
<1>7. CASE then <= now
  BY <1>1, <1>2, <1>6, <1>7 DEF square
<1>8. CASE now < then
  BY <1>1, <1>2, <1>6, <1>8 DEF square
<1> QED BY <1>1, <1>2, <1>7, <1>8

(* The tick after c. *)
LEMMA NextTick ==
    ASSUME NEW c \in Ticks
    PROVE  /\ (c + 1) % (WORD * WORD) \in Ticks
           /\ c < (WORD * WORD) - 1 => (c + 1) % (WORD * WORD) = c + 1
           /\ c = (WORD * WORD) - 1 => (c + 1) % (WORD * WORD) = 0
<1> DEFINE square == WORD * WORD
<1>1. square \in Nat \ {0}
  BY TwoWords
<1>2. Ticks = 0..(square - 1)
  BY DEF Ticks
<1> HIDE DEF square
<1>3. /\ (c + 1) % square \in 0..(square - 1)
      /\ c < square - 1 => (c + 1) % square = c + 1
      /\ c = square - 1 => (c + 1) % square = 0
  BY <1>1, <1>2
<1> QED BY <1>2, <1>3 DEF square

-----------------------------------------------------------------------------
(* Type correctness, with what timer_register_task knows of its locals.     *)

Registering == pc \in {"scan", "period", "last_call"}

RegisterOK ==
    /\ Registering => ms >= 1 /\ func # NULL
    /\ pc \in {"period", "last_call"} => slot \in Slots
    /\ pc = "last_call" => task_list[slot].period = ms

Typed == TypeOK /\ RegisterOK

Slot == [callback : Callbacks \cup {NULL}, period : 0..(WORD - 1),
         last_call : 0..(WORD - 1)]

LEMMA TypedInit == Init => Typed
<1> SUFFICES ASSUME Init PROVE Typed
  OBVIOUS
<1>1. 0 \in Ticks /\ 0 \in 0..(WORD - 1) /\ 0 \in 0..WORD
  BY TwoWords DEF Ticks
<1>2. 0 \in 0..TIMER_MAX_TASKS
  BY SlotAssumption
<1> QED BY <1>1, <1>2 DEF Init, Typed, TypeOK, RegisterOK, Registering

(* timer_handler leaves a slot a slot, and its period as it is. *)
LEMMA HandlerSlots ==
    ASSUME TypeOK, timer_handler
    PROVE  /\ timer_counter' \in Ticks
           /\ task_list' \in [Slots -> Slot]
           /\ \A i \in Slots :
                /\ task_list'[i].period = task_list[i].period
                /\ task_list'[i].callback \in {task_list[i].callback, NULL}
                /\ Due(i, timer_counter') =>
                       task_list'[i].last_call = timer_counter' % WORD
                /\ ~Due(i, timer_counter') => task_list'[i] = task_list[i]
<1>1. timer_counter' \in Ticks
  BY NextTick DEF TypeOK, timer_handler
<1>2. timer_counter' % WORD \in 0..(WORD - 1)
  BY <1>1, Division
<1>3. PICK Quit \in SUBSET {i \in Slots : Due(i, timer_counter')} :
          task_list' = [i \in Slots |->
                           IF Due(i, timer_counter')
                           THEN Called(i, timer_counter', i \in Quit)
                           ELSE task_list[i]]
  BY DEF timer_handler
<1>4. \A i \in Slots : task_list[i] \in Slot
  BY DEF TypeOK, Slot
<1>5. ASSUME NEW i \in Slots, Due(i, timer_counter')
      PROVE  task_list'[i] = [task_list[i] EXCEPT
                                  !.callback  = IF i \in Quit THEN NULL ELSE @,
                                  !.last_call = timer_counter' % WORD]
  BY <1>3, <1>5 DEF Called
<1>6. ASSUME NEW i \in Slots, Due(i, timer_counter')
      PROVE  /\ task_list'[i] \in Slot
             /\ task_list'[i].period = task_list[i].period
             /\ task_list'[i].callback \in {task_list[i].callback, NULL}
             /\ task_list'[i].last_call = timer_counter' % WORD
  <2>1. CASE i \in Quit
    BY <1>2, <1>4, <1>5, <1>6, <2>1 DEF Slot
  <2>2. CASE i \notin Quit
    BY <1>2, <1>4, <1>5, <1>6, <2>2 DEF Slot
  <2> QED BY <2>1, <2>2
<1>7. ASSUME NEW i \in Slots, ~Due(i, timer_counter')
      PROVE  task_list'[i] = task_list[i]
  BY <1>3, <1>7
<1>8. DOMAIN task_list' = Slots /\ task_list' = [i \in Slots |-> task_list'[i]]
  BY <1>3
<1>9. \A i \in Slots : task_list'[i] \in Slot
  BY <1>4, <1>6, <1>7
<1>10. task_list' \in [Slots -> Slot]
  BY <1>8, <1>9
<1> QED BY <1>1, <1>6, <1>7, <1>10

(* The two words that sleep combines, loaded at different times.            *)
LEMMA CounterReadType == TypeOK => CounterRead \in Ticks
<1> SUFFICES ASSUME TypeOK PROVE CounterRead \in Ticks
  OBVIOUS
<1> DEFINE q == timer_counter \div WORD
<1>1. WORD \in Nat /\ WORD >= 2 /\ low \in 0..(WORD - 1)
  BY TwoWords DEF TypeOK
<1>2. q \in 0..(WORD - 1)
  BY Division DEF TypeOK
<1>3. CounterRead = (q * WORD) + low
  BY DEF CounterRead
<1> HIDE DEF q
<1>4. q * WORD >= 0 /\ q * WORD <= (WORD * WORD) - WORD
  BY <1>1, <1>2
<1>5. q * WORD \in Int /\ WORD * WORD \in Int
  BY <1>1, <1>2
<1> QED BY <1>1, <1>3, <1>4, <1>5 DEF Ticks

LEMMA TypedNext == Typed /\ [Next]_vars => Typed'
<1> SUFFICES ASSUME Typed, [Next]_vars PROVE Typed'
  OBVIOUS
<1> USE DEF Typed
<1>w. WORD \in Nat /\ WORD >= 2 /\ TIMER_MAX_TASKS \in Nat
  BY TwoWords, SlotAssumption
<1>s. task_list \in [Slots -> Slot]
  BY DEF TypeOK, Slot
<1>c. timer_counter % WORD \in 0..(WORD - 1)
  BY Division DEF TypeOK
<1>1. CASE timer_handler
  <2>1. age' \in [Slots -> 0..WORD]
    BY <1>1, <1>w DEF timer_handler, TypeOK, Count
  <2>2. slept' \in 0..WORD /\ long' \in BOOLEAN
    BY <1>1, <1>w DEF timer_handler, TypeOK, Count
  <2>3. TypeOK'
    BY <1>1, <2>1, <2>2, HandlerSlots DEF timer_handler, registering, TypeOK, Slot
  <2>4. RegisterOK'
    BY <1>1, HandlerSlots DEF timer_handler, registering, RegisterOK, Registering
  <2> QED BY <2>3, <2>4
<1>2. ASSUME NEW r \in Requests, timer_register_task(r[1], r[2]) PROVE Typed'
  <2>1. r[1] \in Callbacks /\ r[1] # NULL /\ r[2] \in 1..(WORD - 1)
    BY RequestAssumption
  <2>2. 0 \in 0..TIMER_MAX_TASKS /\ r[2] \in 0..(WORD - 1) /\ r[2] >= 1
    BY <1>w, <2>1
  <2> QED BY <1>2, <2>1, <2>2 DEF timer_register_task, sleeping, TypeOK, RegisterOK, Registering
<1>3. ASSUME NEW delay \in Delays, sleep(delay) PROVE Typed'
  <2>1. delay \in 0..(WORD - 1) /\ 0 \in 0..WORD
    BY DelayAssumption, <1>w
  <2> QED BY <1>3, <2>1 DEF sleep, registering, TypeOK, RegisterOK, Registering
<1>4. CASE Scan
  <2>1. CASE task_list[slot].callback = NULL
    <3>1. slot \in Slots /\ func \in Callbacks
      BY <1>4 DEF Scan, TypeOK, RegisterOK, Registering
    <3>2. task_list' = [task_list EXCEPT ![slot].callback = func]
      BY <1>4, <2>1 DEF Scan
    <3>3. task_list' \in [Slots -> Slot]
      BY <1>s, <3>1, <3>2 DEF Slot
    <3> QED BY <1>4, <2>1, <3>1, <3>3 DEF Scan, sleeping, TypeOK, RegisterOK, Registering, Slot
  <2>2. CASE task_list[slot].callback # NULL
    <3>1. slot + 1 \in 0..TIMER_MAX_TASKS
      BY <1>4, <1>w DEF Scan, Slots
    <3> QED BY <1>4, <2>2, <3>1 DEF Scan, sleeping, TypeOK, RegisterOK, Registering
  <2> QED BY <2>1, <2>2
<1>5. CASE QueueFull
  BY <1>5, <1>w DEF QueueFull, Return, sleeping, TypeOK, RegisterOK, Registering
<1>6. CASE StorePeriod
  <2>1. slot \in Slots /\ task_list' = [task_list EXCEPT ![slot].period = ms]
    BY <1>6 DEF StorePeriod, RegisterOK
  <2>2. task_list' \in [Slots -> Slot] /\ task_list'[slot].period = ms
    BY <1>s, <2>1 DEF TypeOK, Slot
  <2> QED BY <1>6, <2>1, <2>2
             DEF StorePeriod, registering, sleeping, TypeOK, RegisterOK, Registering, Slot
<1>7. CASE StoreLastCall
  <2>1. /\ slot \in Slots
        /\ task_list' = [task_list EXCEPT ![slot].last_call = timer_counter % WORD]
    BY <1>7 DEF StoreLastCall, RegisterOK
  <2>2. task_list' \in [Slots -> Slot]
    BY <1>s, <1>c, <2>1 DEF Slot
  <2>3. age' \in [Slots -> 0..WORD]
    <3>1. 0 \in 0..WORD /\ age \in [Slots -> 0..WORD] /\ age' = [age EXCEPT ![slot] = 0]
      BY <1>7, <1>w DEF StoreLastCall, TypeOK
    <3> QED BY <3>1
  <2> QED BY <1>7, <1>w, <2>2, <2>3
             DEF StoreLastCall, Return, sleeping, TypeOK, RegisterOK, Registering, Slot
<1>8. CASE ReadLow("start_low", "start_high") \/ ReadLow("low", "high")
  BY <1>8, <1>c DEF ReadLow, registering, TypeOK, RegisterOK, Registering
<1>9. CASE StartRead
  <2>1. CounterRead \in Ticks
    BY CounterReadType
  <2> QED BY <1>9, <1>w, <2>1 DEF StartRead, registering, TypeOK, RegisterOK, Registering
<1>10. CASE SleepTest
  BY <1>10, <1>w DEF SleepTest, registering, TypeOK, RegisterOK, Registering
<1>11. CASE SleepReturn
  BY <1>11, <1>w, TwoWords DEF SleepReturn, registering, TypeOK, RegisterOK, Registering, Ticks
<1>12. CASE UNCHANGED vars
  BY <1>12 DEF vars, TypeOK, RegisterOK, Registering
<1> QED BY <1>1, <1>2, <1>3, <1>4, <1>5, <1>6, <1>7, <1>8, <1>9, <1>10, <1>11, <1>12
           DEF Next, Call, Register, Sleep

(* Every value of every variable has its type: the counter, which wraps,    *)
(* and last_call, which has half its bits, keep within their words.         *)
THEOREM Types == Spec => []TypeOK
<1>1. Typed => TypeOK
  BY DEF Typed
<1> QED BY <1>1, TypedInit, TypedNext, PTL DEF Spec

-----------------------------------------------------------------------------
(* No task is late.  The time since a task was called or registered is the  *)
(* time since its last_call, unless the counter needs its high word, which  *)
(* last_call does not have: then the task is due at the next tick.          *)

Since(i) == Elapsed(timer_counter, task_list[i].last_call)

SlotOnTime(i) ==
    /\ task_list[i].period >= 1
    /\ \/ age[i] <= Since(i) /\ Since(i) < task_list[i].period
       \/ age[i] = 0 /\ task_list[i].last_call = timer_counter % WORD

OnTime == \A i \in Slots : Settled(i) => SlotOnTime(i)

LEMMA OnTimeSuffices == Typed /\ OnTime => NeverLate
<1> SUFFICES ASSUME Typed, OnTime, NEW i \in Slots, Settled(i)
             PROVE  age[i] < task_list[i].period
  BY DEF NeverLate
<1>1. SlotOnTime(i)
  BY DEF OnTime
<1>2. age[i] \in Nat /\ task_list[i].period \in Nat /\ task_list[i].last_call \in Ticks
  BY TwoWords DEF Typed, TypeOK, Ticks
<1>3. Since(i) \in Nat
  BY <1>2, ElapsedValue DEF Since, Typed, TypeOK, Ticks
<1> QED BY <1>1, <1>2, <1>3 DEF SlotOnTime

(* A tick finds the task due, or brings it one tick nearer.                 *)
LEMMA TickOnTime ==
    ASSUME Typed, OnTime, timer_handler, NEW i \in Slots, Settled(i)'
    PROVE  SlotOnTime(i)'
<1> DEFINE c  == timer_counter
           lc == task_list[i].last_call
           p  == task_list[i].period
           square == WORD * WORD
<1>1. /\ c \in 0..(square - 1) /\ lc \in 0..(WORD - 1) /\ p \in 0..(WORD - 1)
      /\ age[i] \in 0..WORD
      /\ c \in Ticks /\ lc \in Ticks
  BY TwoWords DEF Typed, TypeOK, Ticks
<1>2. Settled(i) /\ task_list'[i].period = p
  BY HandlerSlots DEF Typed, Settled, Filling, timer_handler, registering
<1>3. SlotOnTime(i)
  BY <1>2 DEF OnTime
<1>4. /\ c' \in Ticks
      /\ c < square - 1 => c' = c + 1
      /\ c = square - 1 => c' = 0
  BY <1>1, NextTick DEF timer_handler
<1>5. WORD \in Nat /\ WORD >= 2 /\ square \in Nat /\ square >= 2 * WORD
  BY TwoWords
<1>6. Since(i) = Elapsed(c, lc) /\ Elapsed(c, lc) \in Ticks /\ Elapsed(c', lc) \in Ticks
  BY <1>1, <1>4, ElapsedValue DEF Since
<1>7. /\ lc <= c  => Elapsed(c, lc) = c - lc
      /\ c < lc   => Elapsed(c, lc) = (c - lc) + square
  BY <1>1, ElapsedValue
<1>8. /\ lc <= c' => Elapsed(c', lc) = c' - lc
      /\ c' < lc  => Elapsed(c', lc) = (c' - lc) + square
  BY <1>1, <1>4, ElapsedValue
<1>9. /\ c < WORD => c % WORD = c
      /\ c >= WORD => c - (c % WORD) >= WORD
      /\ c = square - 1 => c % WORD = WORD - 1
  BY <1>1, LowWord
<1>10. Due(i, c') <=> Elapsed(c', lc) >= p
  BY <1>2 DEF Due, Settled, Filling
<1>11. CASE Due(i, c')
  <2>1. age'[i] = 0
    BY <1>11 DEF timer_handler
  <2>2. task_list'[i].last_call = c' % WORD
    BY <1>11, HandlerSlots DEF Typed
  <2> QED BY <1>2, <1>3, <2>1, <2>2 DEF SlotOnTime
<1>12. CASE ~Due(i, c')
  <2>1. age'[i] = Count(age[i])
    BY <1>2, <1>12 DEF timer_handler, Settled, Filling
  <2>2. age'[i] \in Nat /\ age'[i] <= age[i] + 1
    BY <1>1, <1>5, <2>1 DEF Count
  <2>3. task_list'[i] = task_list[i]
    BY <1>12, HandlerSlots DEF Typed
  <2>4. Elapsed(c', lc) < p
    BY <1>1, <1>4, <1>6, <1>10, <1>12 DEF Ticks
  <2>5. Since(i)' = Elapsed(c', lc)
    BY <2>3 DEF Since
  <2>6. p >= 1
    BY <1>3 DEF SlotOnTime
  <2>7. SUFFICES age'[i] <= Elapsed(c', lc)
    BY <1>2, <2>4, <2>5, <2>6 DEF SlotOnTime
  <2>0. Elapsed(c, lc) \in Nat /\ Elapsed(c', lc) \in Nat
    BY <1>6 DEF Ticks
  <2> HIDE DEF c, lc, p, square
  <2>8. CASE age[i] <= Elapsed(c, lc) /\ Elapsed(c, lc) < p
    <3>1. lc <= c
      BY <1>1, <1>5, <1>7, <2>8
    <3>2. c < square - 1
      BY <1>1, <1>5, <1>7, <2>8, <3>1
    <3>3. Elapsed(c', lc) = Elapsed(c, lc) + 1
      BY <1>1, <1>4, <1>7, <1>8, <3>1, <3>2
    <3> QED BY <1>1, <2>0, <2>2, <2>8, <3>3
  <2>9. CASE age[i] = 0 /\ lc = c % WORD
    <3>1. CASE c < WORD
      <4>1. c' = c + 1 /\ lc = c
        BY <1>1, <1>4, <1>5, <1>9, <2>9, <3>1
      <4>2. Elapsed(c', lc) = 1
        BY <1>1, <1>8, <4>1
      <4> QED BY <2>2, <2>9, <4>2, <2>1, <1>5 DEF Count
    <3>2. CASE c >= WORD /\ c < square - 1
      <4>1. Elapsed(c', lc) >= WORD
        BY <1>1, <1>4, <1>5, <1>8, <1>9, <2>9, <3>2
      <4> QED BY <1>1, <1>5, <2>0, <2>4, <4>1
    <3>3. CASE c = square - 1
      <4>1. lc = WORD - 1 /\ c' = 0
        BY <1>4, <1>9, <2>9, <3>3
      <4>2. Elapsed(c', lc) = (0 - (WORD - 1)) + square
        BY <1>5, <1>8, <4>1
      <4> QED BY <1>1, <1>5, <2>4, <4>2
    <3> QED BY <1>1, <1>5, <3>1, <3>2, <3>3
  <2> QED BY <1>3, <1>6, <2>8, <2>9 DEF SlotOnTime, c, lc, p, square
<1> QED BY <1>11, <1>12

LEMMA OnTimeInit == Init => OnTime
BY DEF Init, OnTime, Settled, Filling

(* A step of the main thread that leaves a settled slot alone.              *)
LEMMA KeepsSlot ==
    ASSUME OnTime, NEW i \in Slots, Settled(i), timer_counter' = timer_counter,
           task_list'[i] = task_list[i], age'[i] = age[i]
    PROVE  SlotOnTime(i)'
BY DEF OnTime, SlotOnTime, Since

LEMMA OnTimeNext == Typed /\ OnTime /\ [Next]_vars => OnTime'
<1> SUFFICES ASSUME Typed, OnTime, [Next]_vars, NEW i \in Slots, Settled(i)'
             PROVE  SlotOnTime(i)'
  BY DEF OnTime
<1>s. task_list \in [Slots -> Slot] /\ age \in [Slots -> 0..WORD]
  BY DEF Typed, TypeOK, Slot
<1>1. CASE timer_handler
  BY <1>1, TickOnTime
<1>2. CASE Call
  <2>1. Settled(i) /\ UNCHANGED <<timer_counter, task_list, age>>
    BY <1>2 DEF Call, timer_register_task, sleep, registering, sleeping, Settled, Filling
  <2> QED BY <2>1, KeepsSlot
<1>3. CASE Scan
  <2>1. (slot' = slot /\ pc' = "period") \/ UNCHANGED <<task_list, pc>>
    BY <1>3 DEF Scan
  <2>2. Settled(i) /\ task_list'[i] = task_list[i]
    BY <1>3, <1>s, <2>1 DEF Scan, Settled, Filling
  <2>3. timer_counter' = timer_counter /\ age' = age
    BY <1>3 DEF Scan
  <2> QED BY <2>2, <2>3, KeepsSlot
<1>4. CASE QueueFull
  <2>1. Settled(i) /\ UNCHANGED <<timer_counter, task_list, age>>
    BY <1>4 DEF QueueFull, Settled, Filling
  <2> QED BY <2>1, KeepsSlot
<1>5. CASE StorePeriod
  <2>1. slot' = slot /\ pc' = "last_call" /\ pc = "period"
    BY <1>5 DEF StorePeriod, registering
  <2>2. i # slot
    BY <2>1 DEF Settled, Filling
  <2>3. Settled(i) /\ task_list'[i] = task_list[i]
    BY <1>5, <1>s, <2>1, <2>2 DEF StorePeriod, Settled, Filling
  <2>4. timer_counter' = timer_counter /\ age' = age
    BY <1>5 DEF StorePeriod
  <2> QED BY <2>3, <2>4, KeepsSlot
<1>6. CASE StoreLastCall
  <2>1. /\ task_list' = [task_list EXCEPT ![slot].last_call = timer_counter % WORD]
        /\ age' = [age EXCEPT ![slot] = 0]
        /\ timer_counter' = timer_counter
        /\ pc = "last_call"
    BY <1>6 DEF StoreLastCall
  <2>2. CASE i = slot
    <3>1. /\ task_list'[i].last_call = timer_counter % WORD
          /\ task_list'[i].period = task_list[i].period
          /\ age'[i] = 0
      BY <1>s, <2>1, <2>2 DEF Slot
    <3>2. task_list[i].period >= 1
      BY <2>1, <2>2 DEF Typed, RegisterOK, Registering
    <3> QED BY <2>1, <3>1, <3>2 DEF SlotOnTime
  <2>3. CASE i # slot
    <3>1. Settled(i) /\ task_list'[i] = task_list[i] /\ age'[i] = age[i]
      BY <1>s, <2>1, <2>3 DEF Settled, Filling
    <3> QED BY <2>1, <3>1, KeepsSlot
  <2> QED BY <2>2, <2>3
<1>7. CASE Sleep
  <2>1. Settled(i) /\ UNCHANGED <<timer_counter, task_list, age>>
    BY <1>7 DEF Sleep, ReadLow, StartRead, SleepTest, SleepReturn, Settled, Filling
  <2> QED BY <2>1, KeepsSlot
<1>8. CASE UNCHANGED vars
  <2>1. Settled(i) /\ UNCHANGED <<timer_counter, task_list, age>>
    BY <1>8 DEF vars, Settled, Filling
  <2> QED BY <2>1, KeepsSlot
<1> QED BY <1>1, <1>2, <1>3, <1>4, <1>5, <1>6, <1>7, <1>8 DEF Next, Register

(* No task of timer.c is ever called late, although last_call has one word, *)
(* the counter two, and ticks come between the stores of a registration.    *)
THEOREM Punctual == Spec => []NeverLate
<1>1. Typed /\ OnTime /\ [Next]_vars => (Typed /\ OnTime)'
  BY TypedNext, OnTimeNext
<1> QED BY <1>1, TypedInit, OnTimeInit, OnTimeSuffices, PTL DEF Spec

-----------------------------------------------------------------------------
(* Nothing is early before the counter needs its high word: until then the  *)
(* age of a task is the time since its last_call, and sleep measures time.  *)

Exact ==
    ~long =>
        /\ timer_counter < WORD
        /\ \A i \in Slots : Settled(i) =>
               /\ task_list[i].last_call <= timer_counter
               /\ age[i] = timer_counter - task_list[i].last_call

Measured ==
    ~long =>
        /\ pc = "start_high" => low <= timer_counter /\ slept >= timer_counter - low
        /\ pc \in {"low", "high"} => start <= timer_counter /\ slept >= timer_counter - start
        /\ pc = "high" => start <= low /\ low <= timer_counter
        /\ pc = "slept" => slept >= ms

IInv == Typed /\ OnTime /\ Exact /\ Measured

LEMMA MeasuredInit == Init => Exact /\ Measured
BY TwoWords DEF Init, Exact, Measured, Settled, Filling

(* The tick of a counter that does not need its high word yet.              *)
LEMMA ShortTick ==
    ASSUME Typed, Exact, timer_handler, ~long'
    PROVE  /\ ~long
           /\ timer_counter < WORD
           /\ timer_counter' = timer_counter + 1
           /\ timer_counter' < WORD
<1>1. ~long /\ ~(timer_counter' >= WORD)
  BY DEF timer_handler
<1>2. timer_counter < WORD /\ timer_counter \in Ticks
  BY <1>1 DEF Exact, Typed, TypeOK
<1>3. WORD \in Nat /\ WORD >= 2 /\ WORD * WORD \in Nat /\ WORD * WORD >= 2 * WORD
  BY TwoWords
<1>4. timer_counter < (WORD * WORD) - 1
  BY <1>2, <1>3 DEF Ticks
<1>5. timer_counter' = timer_counter + 1
  BY <1>2, <1>4, NextTick DEF timer_handler
<1> QED BY <1>1, <1>2, <1>3, <1>5 DEF Ticks

LEMMA ExactNext == IInv /\ [Next]_vars => Exact'
<1> SUFFICES ASSUME IInv, [Next]_vars, ~long' PROVE Exact'
  BY DEF Exact
<1> USE DEF IInv
<1>s. /\ task_list \in [Slots -> Slot] /\ age \in [Slots -> 0..WORD]
      /\ timer_counter \in Ticks
  BY DEF Typed, TypeOK, Slot
<1>1. CASE timer_handler
  <2>1. /\ ~long /\ timer_counter < WORD
        /\ timer_counter' = timer_counter + 1 /\ timer_counter' < WORD
    BY <1>1, ShortTick
  <2>2. ASSUME NEW i \in Slots, Settled(i)'
        PROVE  /\ task_list'[i].last_call <= timer_counter'
               /\ age'[i] = timer_counter' - task_list'[i].last_call
    <3>1. Settled(i)
      BY <1>1, <2>2, HandlerSlots DEF Typed, Settled, Filling, timer_handler, registering
    <3>2. /\ task_list[i].last_call <= timer_counter
          /\ age[i] = timer_counter - task_list[i].last_call
      BY <2>1, <3>1 DEF Exact
    <3>3. CASE Due(i, timer_counter')
      <4>1. age'[i] = 0
        BY <1>1, <3>3 DEF timer_handler
      <4>2. timer_counter' \in Ticks /\ task_list'[i].last_call = timer_counter' % WORD
        BY <1>1, <3>3, HandlerSlots DEF Typed
      <4>3. timer_counter' % WORD = timer_counter'
        BY <2>1, <4>2, LowWord
      <4>4. timer_counter' \in Nat
        BY <4>2 DEF Ticks
      <4> QED BY <4>1, <4>2, <4>3, <4>4
    <3>4. CASE ~Due(i, timer_counter')
      <4>1. age'[i] = Count(age[i])
        BY <1>1, <3>1, <3>4 DEF timer_handler, Settled, Filling
      <4>2. task_list'[i] = task_list[i]
        BY <1>1, <3>4, HandlerSlots DEF Typed
      <4>3. /\ timer_counter \in Nat /\ WORD \in Nat
            /\ task_list[i].last_call \in Nat
        BY <1>s, TwoWords DEF Ticks, Slot
      <4> QED BY <2>1, <3>2, <4>1, <4>2, <4>3 DEF Count
    <3> QED BY <3>3, <3>4
  <2> QED BY <2>1, <2>2 DEF Exact
<1>2. CASE Call \/ Sleep \/ QueueFull \/ UNCHANGED vars
  <2>1. /\ UNCHANGED <<timer_counter, task_list, age, long>>
        /\ \A i \in Slots : Settled(i)' => Settled(i)
    BY <1>2 DEF Call, timer_register_task, sleep, registering, sleeping, Sleep, ReadLow,
                StartRead, SleepTest, SleepReturn, QueueFull, vars, Settled, Filling
  <2> QED BY <2>1 DEF Exact
<1>3. CASE Scan
  <2>1. /\ UNCHANGED <<timer_counter, age, long>>
        /\ \A i \in Slots : Settled(i)' => Settled(i) /\ task_list'[i] = task_list[i]
    BY <1>3, <1>s DEF Scan, Settled, Filling
  <2> QED BY <2>1 DEF Exact
<1>4. CASE StorePeriod
  <2>1. /\ UNCHANGED <<timer_counter, age, long>>
        /\ \A i \in Slots : Settled(i)' => Settled(i) /\ task_list'[i] = task_list[i]
    BY <1>4, <1>s DEF StorePeriod, registering, Settled, Filling
  <2> QED BY <2>1 DEF Exact
<1>5. CASE StoreLastCall
  <2>1. /\ task_list' = [task_list EXCEPT ![slot].last_call = timer_counter % WORD]
        /\ age' = [age EXCEPT ![slot] = 0]
        /\ timer_counter' = timer_counter
        /\ long' = long
        /\ pc = "last_call"
    BY <1>5 DEF StoreLastCall
  <2>2. timer_counter < WORD /\ timer_counter % WORD = timer_counter /\ timer_counter \in Nat
    BY <1>s, <2>1, LowWord, TwoWords DEF Exact, Ticks
  <2>3. ASSUME NEW i \in Slots, Settled(i)'
        PROVE  /\ task_list'[i].last_call <= timer_counter'
               /\ age'[i] = timer_counter' - task_list'[i].last_call
    <3>1. CASE i = slot
      <4>1. task_list'[i].last_call = timer_counter /\ age'[i] = 0
        BY <1>s, <2>1, <2>2, <3>1 DEF Slot
      <4> QED BY <2>1, <2>2, <4>1
    <3>2. CASE i # slot
      <4>1. Settled(i) /\ task_list'[i] = task_list[i] /\ age'[i] = age[i]
        BY <1>s, <2>1, <2>3, <3>2 DEF Settled, Filling
      <4> QED BY <2>1, <4>1 DEF Exact
    <3> QED BY <3>1, <3>2
  <2> QED BY <2>1, <2>2, <2>3 DEF Exact
<1> QED BY <1>1, <1>2, <1>3, <1>4, <1>5 DEF Next, Register

LEMMA MeasuredNext == IInv /\ [Next]_vars => Measured'
<1> SUFFICES ASSUME IInv, [Next]_vars, ~long' PROVE Measured'
  BY DEF Measured
<1> USE DEF IInv
<1>1. /\ timer_counter \in Ticks /\ timer_counter \in Nat /\ WORD \in Nat
      /\ low \in Nat /\ slept \in 0..WORD /\ ms \in Nat
      /\ start \in Ticks /\ start \in Nat
  BY TwoWords DEF Typed, TypeOK, Ticks
<1>2. CASE timer_handler
  <2>1. /\ ~long /\ timer_counter < WORD
        /\ timer_counter' = timer_counter + 1 /\ timer_counter' < WORD
    BY <1>2, ShortTick
  <2>2. UNCHANGED <<pc, low, start, ms>>
    BY <1>2 DEF timer_handler
  <2>3. pc \in {"start_low", "start_high", "low", "high", "slept"} => slept' = Count(slept)
    BY <1>2 DEF timer_handler
  <2>4. Count(slept) >= slept /\ (Count(slept) = slept + 1 \/ Count(slept) = WORD)
    BY <1>1 DEF Count
  <2>5. Count(slept) \in Nat
    BY <1>1 DEF Count
  <2>6. CASE pc = "start_high"
    BY <1>1, <2>1, <2>2, <2>3, <2>4, <2>5, <2>6 DEF Measured
  <2>7. CASE pc \in {"low", "high"}
    BY <1>1, <2>1, <2>2, <2>3, <2>4, <2>5, <2>7 DEF Measured
  <2>8. CASE pc = "slept"
    BY <1>1, <2>1, <2>2, <2>3, <2>4, <2>5, <2>8 DEF Measured
  <2> QED BY <2>2, <2>6, <2>7, <2>8 DEF Measured
<1>3. CASE ~timer_handler
  <2>1. ~long /\ timer_counter' = timer_counter
    BY <1>3 DEF Next, Call, timer_register_task, sleep, Register, Scan, QueueFull, StorePeriod,
                StoreLastCall, Sleep, ReadLow, StartRead, SleepTest, SleepReturn, vars
  <2>2. timer_counter < WORD
    BY <2>1 DEF Exact
  <2>3. timer_counter % WORD = timer_counter /\ timer_counter \div WORD = 0
    BY <1>1, <2>2, LowWord
  <2>4. CounterRead = low
    BY <1>1, <2>3 DEF CounterRead
  <2>5. CASE ReadLow("start_low", "start_high")
    BY <1>1, <2>1, <2>3, <2>5 DEF ReadLow, Measured
  <2>6. CASE StartRead
    BY <1>1, <2>1, <2>4, <2>6 DEF StartRead, Measured
  <2>7. CASE ReadLow("low", "high")
    BY <1>1, <2>1, <2>3, <2>7 DEF ReadLow, Measured
  <2>8. CASE SleepTest
    <3>1. start <= low /\ low <= timer_counter /\ slept >= timer_counter - start
      BY <2>1, <2>8 DEF SleepTest, Measured
    <3>2. low \in Ticks
      BY <1>1, <3>1 DEF Ticks
    <3>3. Elapsed(CounterRead, start) = low - start
      BY <1>1, <2>4, <3>1, <3>2, ElapsedValue
    <3>4. /\ UNCHANGED <<slept, start, ms>>
          /\ pc' = IF low - start >= ms THEN "slept" ELSE "low"
      BY <2>8, <3>3 DEF SleepTest, Over
    <3>5. low - start >= ms => slept >= ms
      BY <1>1, <3>1
    <3>6. start <= timer_counter
      BY <1>1, <3>1
    <3> QED BY <2>1, <3>1, <3>4, <3>5, <3>6 DEF Measured
  <2>9. CASE SleepReturn
    BY <2>9 DEF SleepReturn, Measured
  <2>10. CASE Call
    BY <2>10 DEF Call, timer_register_task, sleep, Measured
  <2>11. CASE Register
    BY <2>11 DEF Register, Scan, QueueFull, StorePeriod, StoreLastCall, Return, Measured
  <2>12. CASE UNCHANGED vars
    BY <2>1, <2>12 DEF vars, Measured
  <2> QED BY <1>3, <2>5, <2>6, <2>7, <2>8, <2>9, <2>10, <2>11, <2>12 DEF Next, Sleep
<1> QED BY <1>2, <1>3

LEMMA IInvariant == Spec => []IInv
<1>1. Init => IInv
  BY TypedInit, OnTimeInit, MeasuredInit DEF IInv
<1>2. IInv /\ [Next]_vars => IInv'
  BY TypedNext, OnTimeNext, ExactNext, MeasuredNext DEF IInv
<1> QED BY <1>1, <1>2, PTL DEF Spec

(* sleep never returns before its time, until the counter needs its high    *)
(* word, although ticks come between its loads of the two words.            *)
THEOREM SleepsLongEnough == Spec => []SleptLong
<1>1. IInv => SleptLong
  BY DEF IInv, Measured, SleptLong
<1> QED BY <1>1, IInvariant, PTL

(* Until then a task is called before its time only by a tick that cuts into *)
(* the three stores of its registration (timer.c:77-79), which does call it  *)
(* early.  With NeverLate, a task of period p that is registered is called   *)
(* at every p-th tick exactly.                                              *)
THEOREM EarlyCalls == Spec => EarlyOnlyFilling
<1>1. ASSUME IInv, [Next]_vars, NEW i \in Slots, timer_counter' # timer_counter, ~long',
             ~Filling(i), Due(i, timer_counter')
      PROVE  age[i] + 1 = task_list[i].period
  <2>0. Settled(i)
    BY <1>1 DEF Settled, Due
  <2>1. timer_handler
    BY <1>1 DEF Next, Call, timer_register_task, sleep, Register, Scan, QueueFull, StorePeriod,
                StoreLastCall, Sleep, ReadLow, StartRead, SleepTest, SleepReturn, vars
  <2>2. /\ ~long /\ timer_counter < WORD
        /\ timer_counter' = timer_counter + 1 /\ timer_counter' < WORD
    BY <1>1, <2>1, ShortTick DEF IInv
  <2>3. /\ task_list[i].last_call <= timer_counter
        /\ age[i] = timer_counter - task_list[i].last_call
    BY <1>1, <2>0, <2>2 DEF IInv, Exact
  <2>4. age[i] < task_list[i].period
    BY <1>1, <2>0, OnTimeSuffices DEF IInv, NeverLate
  <2>5. /\ timer_counter \in Nat /\ task_list[i].last_call \in Nat
        /\ task_list[i].last_call \in Ticks
        /\ task_list[i].period \in Nat
    BY <1>1, TwoWords DEF IInv, Typed, TypeOK, Ticks
  <2>6. timer_counter' \in Ticks
    BY <1>1, <2>1, HandlerSlots DEF IInv, Typed
  <2>7. Elapsed(timer_counter', task_list[i].last_call)
            = timer_counter' - task_list[i].last_call
    BY <2>2, <2>3, <2>5, <2>6, ElapsedValue
  <2>8. timer_counter' - task_list[i].last_call >= task_list[i].period
    BY <1>1, <2>7 DEF Due
  <2> QED BY <2>2, <2>3, <2>4, <2>5, <2>8
<1>2. IInv /\ [Next]_vars =>
        [\A i \in Slots :
            timer_counter' # timer_counter /\ ~long' /\ Due(i, timer_counter')
                => Filling(i) \/ age[i] + 1 = task_list[i].period]_vars
  BY <1>1
<1> QED BY <1>2, IInvariant, PTL DEF Spec, EarlyOnlyFilling
=============================================================================
