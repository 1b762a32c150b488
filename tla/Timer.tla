-------------------------------- MODULE Timer --------------------------------
(***************************************************************************)
(* timer.c: the tick counter, the list of periodic tasks, and sleep.        *)
(* timer_handler runs in an interrupt, with interrupts off: it is one step. *)
(* The main thread takes a step for every access to what they share.  The   *)
(* counter has two words, which the main thread loads one after the other,  *)
(* the low one first; last_call has one word.                               *)
(***************************************************************************)
EXTENDS Integers

CONSTANTS
    TIMER_MAX_TASKS,   \* 32 in the code
    WORD,              \* 2^32 in the code: the counter has two such words
    Requests,          \* the tasks registered: pairs of callback and period
    Delays             \* the arguments of sleep

NULL == "NULL"

Callbacks == {r[1] : r \in Requests}

ASSUME SlotAssumption == TIMER_MAX_TASKS \in Nat \ {0}
ASSUME WordAssumption == WORD \in Nat \ {0, 1}
ASSUME RequestAssumption ==
    \A r \in Requests : r \in Callbacks \X (1..(WORD - 1)) /\ NULL # r[1]
ASSUME DelayAssumption == Delays \subseteq 0..(WORD - 1)

VARIABLES
    timer_counter, \* milliseconds since timer_init
    task_list,     \* callback, period and last_call of every slot
    pc,            \* where the main thread is
    slot,          \* the slot timer_register_task looks at
    func,          \* its argument
    ms,            \* its argument, or the argument of sleep
    low,           \* the low word of the counter, as loaded
    start,         \* the local of sleep
    age,           \* ghost: ticks since a task was called or registered
    slept,         \* ghost: ticks since sleep was called
    long           \* ghost: the counter has needed its high word

vars == <<timer_counter, task_list, pc, slot, func, ms, low, start, age, slept, long>>
registering == <<slot, func>>
sleeping    == <<low, start, slept>>

Slots    == 0..(TIMER_MAX_TASKS - 1)

-----------------------------------------------------------------------------
(* timer_handler.  The difference is one of two-word unsigned integers.     *)

Ticks == 0..(WORD * WORD - 1)

(* The ghosts count up to WORD, which is more than any period or delay.     *)
Count(n) == IF n < WORD THEN n + 1 ELSE n

Elapsed(now, then) == (now - then) % (WORD * WORD)

(* Mutant: a task is due one tick after its period. *)
Due_After(i, now) ==
    /\ task_list[i].callback # NULL
    /\ Elapsed(now, task_list[i].last_call) > task_list[i].period

Due(i, now) ==
    /\ task_list[i].callback # NULL
    /\ Elapsed(now, task_list[i].last_call) >= task_list[i].period

(* A callback may unregister itself (test_timer.c).                         *)
Called(i, now, quits) ==
    [task_list[i] EXCEPT !.callback  = IF quits THEN NULL ELSE @,
                         !.last_call = now % WORD]

timer_handler ==
    /\ timer_counter' = (timer_counter + 1) % (WORD * WORD)
    /\ \E Quit \in SUBSET {i \in Slots : Due(i, timer_counter')} :
          task_list' = [i \in Slots |->
                           IF Due(i, timer_counter')
                           THEN Called(i, timer_counter', i \in Quit)
                           ELSE task_list[i]]
    /\ age' = [i \in Slots |->
                  IF Due(i, timer_counter') \/ task_list[i].callback = NULL
                  THEN 0 ELSE Count(age[i])]
    /\ slept' = IF pc \in {"start_low", "start_high", "low", "high", "slept"}
                THEN Count(slept) ELSE slept
    /\ long' = (long \/ timer_counter' >= WORD)
    /\ UNCHANGED <<pc, registering, ms, low, start>>

-----------------------------------------------------------------------------
(* timer_register_task *)

timer_register_task(callback, period) ==
    /\ pc = "run"
    /\ pc' = "scan"
    /\ slot' = 0
    /\ func' = callback
    /\ ms' = period
    /\ UNCHANGED <<timer_counter, task_list, sleeping, age, long>>

Return ==
    /\ pc' = "run"
    /\ slot' = 0 /\ func' = NULL /\ ms' = 0

(* A slot that is free stays so: the test and the store may be one step.    *)
Scan ==
    /\ pc = "scan"
    /\ slot \in Slots
    /\ IF task_list[slot].callback = NULL
       THEN /\ task_list' = [task_list EXCEPT ![slot].callback = func]
            /\ pc' = "period"
            /\ UNCHANGED slot
       ELSE /\ slot' = slot + 1
            /\ UNCHANGED <<task_list, pc>>
    /\ UNCHANGED <<timer_counter, func, ms, sleeping, age, long>>

QueueFull ==
    /\ pc = "scan"
    /\ slot \notin Slots
    /\ Return
    /\ UNCHANGED <<timer_counter, task_list, sleeping, age, long>>

StorePeriod ==
    /\ pc = "period"
    /\ task_list' = [task_list EXCEPT ![slot].period = ms]
    /\ pc' = "last_call"
    /\ UNCHANGED <<timer_counter, registering, ms, sleeping, age, long>>

(* Mutant: last_call is left as the slot's last task left it. *)
StoreLastCall_Not ==
    /\ pc = "last_call"
    /\ task_list' = task_list
    /\ age' = [age EXCEPT ![slot] = 0]
    /\ Return
    /\ UNCHANGED <<timer_counter, sleeping, long>>

StoreLastCall ==
    /\ pc = "last_call"
    /\ task_list' = [task_list EXCEPT ![slot].last_call = timer_counter % WORD]
    /\ age' = [age EXCEPT ![slot] = 0]
    /\ Return
    /\ UNCHANGED <<timer_counter, sleeping, long>>

-----------------------------------------------------------------------------
(* sleep *)

sleep(delay) ==
    /\ pc = "run"
    /\ pc' = "start_low"
    /\ ms' = delay
    /\ slept' = 0
    /\ UNCHANGED <<timer_counter, task_list, registering, low, start, age, long>>

ReadLow(from, to) ==
    /\ pc = from
    /\ low' = timer_counter % WORD
    /\ pc' = to
    /\ UNCHANGED <<timer_counter, task_list, registering, ms, start, age, slept, long>>

(* Mutant: the counter is not volatile, and sleep loads it once.            *)
CounterRead_NotVolatile ==
    IF pc = "high" THEN start ELSE (timer_counter \div WORD) * WORD + low

CounterRead == (timer_counter \div WORD) * WORD + low

StartRead ==
    /\ pc = "start_high"
    /\ start' = CounterRead
    /\ low' = 0
    /\ pc' = "low"
    /\ UNCHANGED <<timer_counter, task_list, registering, ms, age, slept, long>>

(* Mutant: the comparison is the wrong way round. *)
Over_Reversed(elapsed) == elapsed <= ms

Over(elapsed) == elapsed >= ms

SleepTest ==
    /\ pc = "high"
    /\ pc' = IF Over(Elapsed(CounterRead, start)) THEN "slept" ELSE "low"
    /\ low' = 0
    /\ UNCHANGED <<timer_counter, task_list, registering, ms, start, age, slept, long>>

SleepReturn ==
    /\ pc = "slept"
    /\ pc' = "run"
    /\ ms' = 0 /\ start' = 0 /\ slept' = 0
    /\ UNCHANGED <<timer_counter, task_list, registering, low, age, long>>

-----------------------------------------------------------------------------
(* timer_init *)
Init ==
    /\ timer_counter = 0
    /\ task_list = [i \in Slots |-> [callback |-> NULL, period |-> 0, last_call |-> 0]]
    /\ pc = "run"
    /\ slot = 0 /\ func = NULL /\ ms = 0
    /\ low = 0 /\ start = 0
    /\ age = [i \in Slots |-> 0]
    /\ slept = 0
    /\ long = FALSE

Register == Scan \/ QueueFull \/ StorePeriod \/ StoreLastCall

Sleep == ReadLow("start_low", "start_high") \/ StartRead \/ ReadLow("low", "high")
         \/ SleepTest \/ SleepReturn

Call ==
    \/ \E r \in Requests : timer_register_task(r[1], r[2])
    \/ \E delay \in Delays : sleep(delay)

Next == timer_handler \/ Call \/ Register \/ Sleep

Spec == Init /\ [][Next]_vars

-----------------------------------------------------------------------------
TypeOK ==
    /\ timer_counter \in Ticks
    /\ task_list \in [Slots -> [callback : Callbacks \cup {NULL}, period : 0..(WORD - 1),
                                last_call : 0..(WORD - 1)]]
    /\ pc \in {"run", "scan", "period", "last_call", "start_low", "start_high", "low",
               "high", "slept"}
    /\ slot \in 0..TIMER_MAX_TASKS
    /\ func \in Callbacks \cup {NULL}
    /\ ms \in 0..(WORD - 1)
    /\ low \in 0..(WORD - 1)
    /\ start \in Ticks
    /\ age \in [Slots -> 0..WORD]
    /\ slept \in 0..WORD
    /\ long \in BOOLEAN

(* The main thread is between the three stores that fill slot i, of which    *)
(* the first makes the callback known to timer_handler.                     *)
Filling(i) == pc \in {"period", "last_call"} /\ slot = i

(* A task whose registration is complete. *)
Settled(i) == task_list[i].callback # NULL /\ ~Filling(i)

(* No task is late, in whatever order the slot was freed, taken again and   *)
(* hit by ticks between the three stores that fill it, and although its     *)
(* last_call has half the bits of the counter.                              *)
NeverLate == \A i \in Slots : Settled(i) => age[i] < task_list[i].period

(* Until the counter needs its high word, a task is called before its time   *)
(* only by a tick between the stores of timer.c:77-79.  Such a tick finds    *)
(* the new callback with the period or the last_call of the slot's last      *)
(* task, and does call it early, even at once; no call after that is early,  *)
(* whatever the slot held and however many ticks cut the registration.       *)
EarlyOnlyFilling ==
    [][\A i \in Slots :
          timer_counter' # timer_counter /\ ~long' /\ Due(i, timer_counter')
              => Filling(i) \/ age[i] + 1 = task_list[i].period]_vars

(* sleep does not return before its time, until then: a carry between the   *)
(* two loads of the counter makes the value it reads one word too small or  *)
(* too large.                                                               *)
SleptLong == pc = "slept" /\ ~long => slept >= ms
=============================================================================
