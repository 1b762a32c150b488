---------------------------- MODULE FloppyProofs ----------------------------
(***************************************************************************)
(* Theorems about the floppy driver, for every number of drives, blocks and *)
(* retries and every spin-down time that meet the assumptions of module     *)
(* Floppy.  They hold of Spec: no fairness is needed.                       *)
(***************************************************************************)
EXTENDS Floppy, SequenceTheorems, Arithmetic

(* fd_block2hcs loses nothing: the sector at the address of a block is the  *)
(* block, for every geometry.                                               *)
THEOREM BlockAddressed ==
    ASSUME NEW b \in Nat
    PROVE  SectorAt(fd_block2hcs(b)) = b
<1> DEFINE T == SPT * HEADS
           c == b \div T
           r == b % T
           h == r \div SPT
           j == r % SPT
<1>1. SPT \in Nat \ {0} /\ HEADS \in Nat \ {0} /\ T \in Nat \ {0}
  BY BoundAssumption
<1>t. T = SPT * HEADS
  OBVIOUS
<1> HIDE DEF T
<1>2. b = (T * c) + r /\ c \in Nat /\ r \in Nat
  BY <1>1, DivMod
<1>3. r = (SPT * h) + j /\ h \in Nat /\ j \in 0..(SPT - 1)
  BY <1>1, <1>2, DivMod
<1> HIDE DEF c, r, h, j
<1>4. b = (SPT * ((HEADS * c) + h)) + j /\ (HEADS * c) + h \in Nat
  BY <1>t, <1>1, <1>2, <1>3
<1>5. b % SPT = j
  BY <1>1, <1>3, <1>4, DivModUnique
<1>6. fd_block2hcs(b) = [cyl |-> c, head |-> h, sector |-> j + 1]
  BY <1>5 DEF fd_block2hcs, T, c, h, r
<1>7. SectorAt([cyl |-> c, head |-> h, sector |-> j + 1])
        = (((c * HEADS) + h) * SPT) + ((j + 1) - 1)
  BY DEF SectorAt
<1> QED BY <1>1, <1>2, <1>3, <1>4, <1>6, <1>7

-----------------------------------------------------------------------------
Waits  == {"wait", "wait_exit", "wait_dec"}
Resets == {"reset_off", "reset_on", "reset_wait"}

-----------------------------------------------------------------------------
(* Type correctness, in four parts: a block is copied only while blocks are *)
(* left to read, and an interrupt is counted off only after one was counted.*)

CommandSet == [op : Commands \cup {"none"}, drive : {0, 1}, block : Nat]
DorSet     == [select : {0, 1}, motors : SUBSET {0, 1}]
StateSet   == [{0, 1} -> {FD_MOTOR_OFF, FD_MOTOR_ON, FD_MOTOR_WAIT}]
TickSet    == [{0, 1} -> uint16_t]
SectorSet  == Sector \cup {NoSector}

Reading == pc \in {"read_send", "read_result", "copy"} \/ (pc \in Waits /\ wait_for = "read")

ControllerOK ==
    /\ ctl \in {"idle", "busy", "result", "off", "resetting"}
    /\ cmd \in CommandSet
    /\ status \in Outcomes
    /\ dead \in BOOLEAN
    /\ dma \in SectorSet

MotorsOK ==
    /\ dor \in DorSet
    /\ dor_reg \in DorSet
    /\ motor_state \in StateSet
    /\ motor_ticks \in TickSet

RequestOK ==
    /\ block \in [{0, 1} -> Nat]
    /\ fd \in {0, 1}
    /\ left \in 0..MAX_READ
    /\ buf \in Seq(SectorSet)
    /\ result \in {"ok", "fail"}
    /\ tries \in Nat

FlowOK ==
    /\ irq_waiting \in uint8_t
    /\ installed \in {"nothing", "handler", "timer"}
    /\ pc \in PCs
    /\ irq_reg \in uint8_t
    /\ wait_for \in Commands \cup {"reset"}
    /\ reset_from \in {"configure", "off_ticks", "done"}
    /\ pc = "wait_dec" => irq_reg >= 1
    /\ Reading => left >= 1

Typed == ControllerOK /\ MotorsOK /\ RequestOK /\ FlowOK

LEMMA TypedSuffices == Typed => TypeOK
<1> SUFFICES ASSUME Typed PROVE TypeOK
  OBVIOUS
<1> USE DEF Typed
<1>1. /\ ctl \in {"idle", "busy", "result", "off", "resetting"}
      /\ cmd \in [op : Commands \cup {"none"}, drive : {0, 1}, block : Nat]
      /\ status \in Outcomes
      /\ dead \in BOOLEAN
      /\ dma \in Sector \cup {NoSector}
  BY DEF ControllerOK, CommandSet, SectorSet
<1>2. /\ dor \in [select : {0, 1}, motors : SUBSET {0, 1}]
      /\ dor_reg \in [select : {0, 1}, motors : SUBSET {0, 1}]
      /\ motor_state \in [{0, 1} -> {FD_MOTOR_OFF, FD_MOTOR_ON, FD_MOTOR_WAIT}]
      /\ motor_ticks \in [{0, 1} -> uint16_t]
  BY DEF MotorsOK, DorSet, StateSet, TickSet
<1>3. /\ block \in [{0, 1} -> Nat]
      /\ fd \in {0, 1}
      /\ left \in 0..MAX_READ
      /\ buf \in Seq(Sector \cup {NoSector})
      /\ result \in {"ok", "fail"}
      /\ tries \in Nat
  BY DEF RequestOK, SectorSet
<1>4. /\ irq_waiting \in uint8_t
      /\ installed \in {"nothing", "handler", "timer"}
      /\ pc \in PCs
      /\ irq_reg \in uint8_t
      /\ wait_for \in Commands \cup {"reset"}
      /\ reset_from \in {"configure", "off_ticks", "done"}
  BY DEF FlowOK
<1> HIDE DEF Typed
<1> QED BY ONLY <1>1, <1>2, <1>3, <1>4, Zenon DEF TypeOK

LEMMA Records ==
    /\ NoCommand \in CommandSet
    /\ \A o \in Commands, d \in {0, 1}, b \in Nat :
          [op |-> o, drive |-> d, block |-> b] \in CommandSet
    /\ NoDor \in DorSet
    /\ \A r \in DorSet, d \in {0, 1} : [r EXCEPT !.select = d] \in DorSet
    /\ \A r \in DorSet, d \in {0, 1} : [r EXCEPT !.motors = @ \cup {d}] \in DorSet
    /\ \A r \in DorSet, D \in SUBSET {0, 1} : [r EXCEPT !.motors = @ \ D] \in DorSet
BY DEF NoCommand, CommandSet, NoDor, DorSet

LEMMA TypedInit == Init => Typed
<1> SUFFICES ASSUME Init PROVE Typed
  OBVIOUS
<1>1. ControllerOK
  BY Records DEF Init, ControllerOK, Outcomes, SectorSet
<1>2. MotorsOK
  BY Records DEF Init, MotorsOK, StateSet, TickSet, uint16_t
<1>3. RequestOK
  <2>1. 0 \in 0..MAX_READ /\ <<>> \in Seq(SectorSet)
    BY BoundAssumption
  <2> QED BY <2>1 DEF Init, RequestOK
<1>4. FlowOK
  BY DEF Init, FlowOK, Reading, Waits, PCs, uint8_t
<1> QED BY <1>1, <1>2, <1>3, <1>4 DEF Typed

LEMMA TypedInterrupt == Typed /\ Interrupt => Typed'
<1> SUFFICES ASSUME Typed, Interrupt PROVE Typed'
  OBVIOUS
<1>1. UNCHANGED <<motors, block, installed, pc, request, dor_reg, calls>>
  BY DEF Interrupt
<1>2. ControllerOK'
  <2>1. CASE Answer /\ EndRead
    <3>1. cmd.drive \in {0, 1} /\ cmd.block \in Nat
      BY DEF Typed, ControllerOK, CommandSet
    <3>2. dma' \in SectorSet
      BY <2>1, <3>1 DEF EndRead, Typed, ControllerOK, SectorSet, Sector
    <3> QED BY <2>1, <3>2 DEF Answer, EndRead, Typed, ControllerOK
  <2>2. CASE Answer /\ EndMove
    BY <2>2, Records DEF Answer, EndMove, Typed, ControllerOK
  <2>3. CASE ResetDone
    BY <2>3 DEF ResetDone, Typed, ControllerOK
  <2> QED BY <2>1, <2>2, <2>3 DEF Interrupt, Answer
<1>3. irq_waiting' \in uint8_t
  BY DEF Interrupt, fd_irq_handler, Typed, FlowOK, uint8_t
<1> QED BY <1>1, <1>2, <1>3
        DEF Typed, MotorsOK, RequestOK, FlowOK, motors, request, calls, Reading

LEMMA TypedTimer == Typed /\ fd_timer => Typed'
<1> SUFFICES ASSUME Typed, fd_timer PROVE Typed'
  OBVIOUS
<1>1. UNCHANGED <<controller, irq_waiting, block, installed, pc, request, dor_reg, calls>>
  BY DEF fd_timer
<1>2. motor_ticks' \in TickSet
  <2>1. \A d \in {0, 1} : motor_ticks[d] \in uint16_t
    BY DEF Typed, MotorsOK, TickSet
  <2>2. \A d \in {0, 1} : Elapsed(d) \in uint16_t
    BY <2>1 DEF Elapsed, uint16_t
  <2> HIDE DEF Elapsed
  <2> QED BY <2>1, <2>2 DEF fd_timer, TickSet
<1>3. Killed \in SUBSET {0, 1}
  BY DEF Killed, Waiting
<1>4. dor' \in DorSet
  BY <1>3, Records DEF fd_timer, fd_motor_kill, Typed, MotorsOK
<1>5. motor_state' \in StateSet
  BY DEF fd_timer, fd_motor_kill, Typed, MotorsOK, StateSet
<1> QED BY <1>1, <1>2, <1>4, <1>5
        DEF Typed, ControllerOK, MotorsOK, RequestOK, FlowOK, controller, request, calls, Reading

LEMMA TypedRequest == Typed /\ Request => Typed'
<1> SUFFICES ASSUME Typed, Request PROVE Typed'
  OBVIOUS
<1> USE DEF Typed, Reading, Waits, controller, motors, request, calls
<1>1. ASSUME NEW d \in DRIVES, NEW n \in 0..MAX_READ, fd_read(d, n) PROVE Typed'
  <2>1. d \in {0, 1} /\ <<>> \in Seq(SectorSet)
    BY DriveAssumption
  <2>2. RequestOK'
    BY <1>1, <2>1 DEF fd_read, RequestOK
  <2> QED BY <1>1, <2>2 DEF fd_read, ControllerOK, MotorsOK, FlowOK, PCs
<1>2. ASSUME NEW d \in DRIVES, NEW off \in -N_BLOCKS..N_BLOCKS, NEW w \in {"SET", "CUR", "END"},
             fd_seek(d, off, w)
      PROVE  Typed'
  <2>1. d \in {0, 1} /\ block[d] \in Nat /\ N_BLOCKS \in Nat
    BY DriveAssumption, BoundAssumption DEF RequestOK
  <2>2. NewBlock(d, off, w) \in Int
    BY <2>1 DEF NewBlock
  <2>3. NewBlock(d, off, w) \in Nat
    BY <1>2, <2>2 DEF fd_seek, Beyond
  <2>4. block' \in [{0, 1} -> Nat]
    BY <1>2, <2>1, <2>3 DEF fd_seek, RequestOK
  <2> QED BY <1>2, <2>4 DEF fd_seek, ControllerOK, MotorsOK, RequestOK, FlowOK
<1>3. CASE fd_deinit
  BY <1>3 DEF fd_deinit, ControllerOK, MotorsOK, RequestOK, FlowOK, PCs
<1> QED BY <1>1, <1>2, <1>3 DEF Request

LEMMA TypedWait == Typed /\ WaitIrq => Typed'
<1> SUFFICES ASSUME Typed, WaitIrq PROVE Typed'
  OBVIOUS
<1> USE DEF Typed, Reading, Waits, controller, motors, request, calls
<1>1. CASE WaitLoop
  BY <1>1 DEF WaitLoop, ControllerOK, MotorsOK, RequestOK, FlowOK, PCs
<1>2. CASE WaitSucceeds
  BY <1>2 DEF WaitSucceeds, ControllerOK, MotorsOK, RequestOK, FlowOK, PCs, uint8_t
<1>3. CASE WaitDecrement
  <2>1. irq_waiting' \in uint8_t
    BY <1>3 DEF WaitDecrement, Decremented, FlowOK, uint8_t
  <2>2. 0 \in uint8_t
    BY DEF uint8_t
  <2>3. /\ pc' \in {"seek_sense", "recal_sense", "read_result", "configure", "off_ticks", "done"}
        /\ pc' = "read_result" => wait_for = "read"
    BY <1>3 DEF WaitDecrement, AfterInterrupt, FlowOK, Commands
  <2> QED BY <1>3, <2>1, <2>2, <2>3
          DEF WaitDecrement, ControllerOK, MotorsOK, RequestOK, FlowOK, PCs
<1>4. CASE WaitTimesOut
  <2>1. pc' \in {"configure", "off_ticks", "done", "reset_off"}
    BY <1>4 DEF WaitTimesOut, AfterTimeout, FlowOK, Commands
  <2> QED BY <1>4, <2>1 DEF WaitTimesOut, ControllerOK, MotorsOK, RequestOK, FlowOK, PCs
<1> QED BY <1>1, <1>2, <1>3, <1>4 DEF WaitIrq

LEMMA TypedSetup == Typed /\ (Setup \/ Reset) => Typed'
<1> SUFFICES ASSUME Typed, Setup \/ Reset PROVE Typed'
  OBVIOUS
<1> USE DEF Typed, Reading, Waits, controller, motors, request, calls
<1>1. CASE Setup
  BY <1>1 DEF Setup, CheckVersion, ConfigureAndRegister, DeinitReset, ControllerOK, MotorsOK,
              RequestOK, FlowOK, PCs
<1>2. CASE Reset
  BY ZenonT(40), <1>2, Records
     DEF Reset, ResetOff, ResetOn, ResetWait, Wait, ControllerOK, MotorsOK,
              RequestOK, FlowOK, PCs, Outcomes
<1> QED BY <1>1, <1>2

LEMMA TypedActivate == Typed /\ Activate => Typed'
<1> SUFFICES ASSUME Typed, Activate PROVE Typed'
  OBVIOUS
<1> USE DEF Typed, Reading, Waits
<1>1. CASE SelectRead \/ SelectWrite \/ MotorRead \/ MotorWrite
  <2>1. /\ UNCHANGED <<controller, motor_state, motor_ticks, local>>
        /\ pc' \in {"select_write", "motor_test", "motor_write", "spin_up"}
    BY <1>1 DEF SelectRead, SelectWrite, MotorRead, MotorWrite, motors
  <2>2. fd \in {0, 1}
    BY DEF RequestOK
  <2>3. dor' \in DorSet /\ dor_reg' \in DorSet
    BY <1>1, <2>2, Records DEF SelectRead, SelectWrite, MotorRead, MotorWrite, MotorsOK, motors
  <2> QED BY <2>1, <2>3 DEF ControllerOK, MotorsOK, RequestOK, FlowOK, PCs, controller, local,
             request, calls
<1>2. CASE MotorTest \/ SpinUp \/ MotorSet \/ TestChange
  <2>1. /\ UNCHANGED <<controller, dor, motor_ticks, dor_reg, local>>
        /\ pc' \in {"motor_read", "motor_set", "test_change", "seek_send", "block_next"}
    BY <1>2 DEF MotorTest, SpinUp, MotorSet, TestChange, motors
  <2>2. motor_state' \in StateSet
    BY <1>2 DEF MotorTest, SpinUp, MotorSet, TestChange, motors, MotorsOK, StateSet
  <2> QED BY <2>1, <2>2 DEF ControllerOK, MotorsOK, RequestOK, FlowOK, PCs, controller, local,
             request, calls
<1> QED BY <1>1, <1>2 DEF Activate

LEMMA SendType ==
    ASSUME ControllerOK, NEW c \in CommandSet, Send(c)
    PROVE  ControllerOK'
BY DEF Send, ControllerOK, controller

LEMMA TypedRecalibrate == Typed /\ Recalibrate => Typed'
<1> SUFFICES ASSUME Typed, Recalibrate PROVE Typed'
  OBVIOUS
<1> USE DEF Typed, Reading, Waits
<1>1. \A o \in Commands : [op |-> o, drive |-> fd, block |-> 0] \in CommandSet
  BY Records DEF RequestOK
<1>2. ControllerOK'
  BY <1>1, SendType DEF Recalibrate, SeekSend, SeekSense, RecalSend, RecalSense, ControllerOK,
                        controller, Commands
<1>3. /\ UNCHANGED <<irq_waiting, motors, block, installed, fd, left, buf, dor_reg, irq_reg,
                     reset_from>>
      /\ pc' \in {"wait", "off_ticks", "recal_send", "block_next"}
      /\ tries' \in Nat /\ result' \in {"ok", "fail"}
      /\ wait_for' \in Commands \cup {"reset"}
      /\ pc' = "wait" => wait_for' # "read"
  BY DEF Recalibrate, SeekSend, SeekSense, RecalSend, RecalSense, Wait, Fail, NextTry,
         request, calls, RequestOK, FlowOK, Commands
<1> QED BY <1>2, <1>3 DEF MotorsOK, RequestOK, FlowOK, PCs, motors

LEMMA TypedTransfer == Typed /\ Transfer => Typed'
<1> SUFFICES ASSUME Typed, Transfer PROVE Typed'
  OBVIOUS
<1> USE DEF Typed, Reading, Waits
<1>1. MAX_READ \in Nat /\ left \in Nat
  BY BoundAssumption DEF RequestOK
<1>2. CASE BlockNext
  BY <1>1, <1>2 DEF BlockNext, ControllerOK, MotorsOK, RequestOK, FlowOK, PCs, controller,
                    motors, calls
<1>3. CASE ReadSend
  <2>1. [op |-> "read", drive |-> fd, block |-> SectorAt(fd_block2hcs(block[fd]))] \in CommandSet
    BY Records, BlockAddressed DEF RequestOK, Commands
  <2>2. ControllerOK'
    BY <1>3, <2>1, SendType DEF ReadSend, ControllerOK, controller
  <2> QED BY <1>3, <2>2 DEF ReadSend, Wait, Fail, NextTry, MotorsOK, RequestOK, FlowOK, PCs,
                            motors, Commands
<1>4. CASE ReadResult
  <2>1. pc' \in {"copy", "read_send", "panic"}
    BY <1>4 DEF ReadResult, Received, AfterStatus, Outcomes, ControllerOK
  <2>2. ControllerOK'
    BY <1>4, Records DEF ReadResult, ControllerOK, Outcomes
  <2> QED BY <1>4, <2>1, <2>2 DEF ReadResult, MotorsOK, RequestOK, FlowOK, PCs, motors, local,
                                  request, calls
<1>5. CASE Copy
  <2>1. buf' \in Seq(SectorSet)
    BY <1>5, AppendProperties DEF Copy, RequestOK, ControllerOK
  <2>2. block' \in [{0, 1} -> Nat]
    BY <1>5 DEF Copy, RequestOK
  <2>3. left' \in 0..MAX_READ
    BY <1>1, <1>5 DEF Copy, RequestOK, FlowOK
  <2> QED BY <1>5, <2>1, <2>2, <2>3 DEF Copy, ControllerOK, MotorsOK, RequestOK, FlowOK, PCs,
                                        controller, motors, calls
<1> QED BY <1>2, <1>3, <1>4, <1>5 DEF Transfer

LEMMA TypedDeactivate == Typed /\ Deactivate => Typed'
<1> SUFFICES ASSUME Typed, Deactivate PROVE Typed'
  OBVIOUS
<1> USE DEF Typed, Reading, Waits
<1>1. SPIN_DOWN \in uint16_t
  BY SpinDownAssumption DEF uint16_t
<1>2. CASE OffTicks
  <2>1. motor_ticks' \in TickSet
    BY <1>1, <1>2 DEF OffTicks, MotorsOK, TickSet
  <2> QED BY <1>2, <2>1 DEF OffTicks, ControllerOK, MotorsOK, RequestOK, FlowOK, PCs,
                            controller, local, request, calls
<1>3. CASE OffState
  <2>1. motor_state' \in StateSet
    BY <1>3 DEF OffState, MotorsOK, StateSet
  <2>2. 0 \in 0..MAX_READ /\ <<>> \in Seq(SectorSet)
    BY BoundAssumption
  <2> QED BY <1>3, <2>1, <2>2 DEF OffState, ControllerOK, MotorsOK, RequestOK, FlowOK, PCs,
                                  controller, calls
<1> QED BY <1>2, <1>3 DEF Deactivate

LEMMA TypedNext == Typed /\ [Next]_vars => Typed'
<1>1. Typed /\ UNCHANGED vars => Typed'
  BY DEF vars, Typed, ControllerOK, MotorsOK, RequestOK, FlowOK, Reading
<1> QED BY <1>1, TypedInterrupt, TypedTimer, TypedRequest, TypedWait, TypedSetup, TypedActivate,
           TypedRecalibrate, TypedTransfer, TypedDeactivate DEF Next, Main

(* Every value of every variable has its type: the counter of interrupts    *)
(* and the ticks of the motors keep within their 8 and 16 bits, and the     *)
(* blocks left to read do not run below zero.                               *)
THEOREM Types == Spec => []TypeOK
BY TypedInit, TypedNext, TypedSuffices, PTL DEF Spec

-----------------------------------------------------------------------------
(* The motors.  The state of a motor is ON exactly while a request owns it: *)
(* from the end of fd_activate to the last store of fd_deactivate, through  *)
(* every wait and through the reset that follows a read that timed out.     *)

Transferring ==
    {"test_change", "seek_send", "seek_sense", "recal_send", "recal_sense", "block_next",
     "read_send", "read_result", "copy", "off_ticks", "off_state", "panic"}

Owned ==
    \/ pc \in Transferring
    \/ pc \in Waits /\ wait_for # "reset"
    \/ pc \in Waits \cup Resets /\ reset_from = "off_ticks"

Counts == {50 * k : k \in 1..(SPIN_DOWN \div 50)}

MotorsInv ==
    /\ Owned => motor_state[fd] = FD_MOTOR_ON
    /\ \A d \in {0, 1} : motor_state[d] = FD_MOTOR_ON => Owned /\ d = fd
    /\ CountdownExact
    /\ pc = "off_state" => motor_ticks[fd] = SPIN_DOWN

LEMMA CountDown ==
    /\ SPIN_DOWN \in Counts
    /\ \A n \in Counts : /\ n \in Nat /\ (n - 50) % 65536 = n - 50
                         /\ n - 50 > 0 => n - 50 \in Counts
<1>1. PICK m \in 1..1310 : SPIN_DOWN = 50 * m
  BY SpinDownAssumption
<1>2. SPIN_DOWN \div 50 = m
  BY <1>1
<1>3. SPIN_DOWN \in Counts
  BY <1>1, <1>2 DEF Counts
<1>4. ASSUME NEW n \in Counts
      PROVE  /\ n \in Nat /\ (n - 50) % 65536 = n - 50
             /\ n - 50 > 0 => n - 50 \in Counts
  <2>1. PICK k \in 1..m : n = 50 * k
    BY <1>2, <1>4 DEF Counts
  <2>2. k \in Nat /\ k >= 1 /\ k <= 1310
    BY <1>1, <2>1
  <2>3. (n - 50) % 65536 = n - 50
    BY <2>1, <2>2
  <2>4. n - 50 = 50 * (k - 1)
    BY <2>1, <2>2
  <2>5. n - 50 > 0 => k - 1 \in 1..m
    BY <1>1, <2>1, <2>2
  <2>6. n - 50 > 0 => n - 50 \in Counts
    BY <1>2, <2>4, <2>5 DEF Counts
  <2> QED BY <2>1, <2>2, <2>3, <2>6
<1> QED BY <1>3, <1>4

LEMMA MotorsInit == Init => MotorsInv
BY DEF Init, MotorsInv, Owned, Transferring, Waits, Resets, CountdownExact, FD_MOTOR_OFF,
       FD_MOTOR_ON, FD_MOTOR_WAIT

(* Steps that leave the motors of the driver alone. *)
LEMMA MotorsKept ==
    ASSUME MotorsInv, UNCHANGED <<motor_state, motor_ticks>>,
           Owned' <=> Owned, Owned => fd' = fd, pc' # "off_state"
    PROVE  MotorsInv'
BY DEF MotorsInv, CountdownExact

LEMMA MotorsTimer == Typed /\ MotorsInv /\ fd_timer => MotorsInv'
<1> SUFFICES ASSUME Typed, MotorsInv, fd_timer PROVE MotorsInv'
  OBVIOUS
<1>1. UNCHANGED <<pc, wait_for, reset_from, fd>>
  BY DEF fd_timer, request, calls
<1>2. ASSUME NEW d \in {0, 1}
      PROVE  /\ motor_state[d] # FD_MOTOR_WAIT =>
                     /\ motor_state'[d] = motor_state[d]
                     /\ motor_ticks'[d] = motor_ticks[d]
             /\ motor_state[d] = FD_MOTOR_WAIT =>
                     \/ motor_state'[d] = FD_MOTOR_OFF
                     \/ motor_state'[d] = FD_MOTOR_WAIT /\ motor_ticks'[d] \in Counts
  <2>1. /\ motor_state'[d] = IF d \in Killed THEN FD_MOTOR_OFF ELSE motor_state[d]
        /\ motor_ticks'[d] = IF d \in Waiting THEN Elapsed(d) ELSE motor_ticks[d]
    BY DEF fd_timer, fd_motor_kill
  <2>2. CASE motor_state[d] # FD_MOTOR_WAIT
    BY <2>1, <2>2 DEF Killed, Waiting
  <2>3. CASE motor_state[d] = FD_MOTOR_WAIT
    <3>1. motor_ticks[d] \in Counts
      BY <2>3 DEF MotorsInv, CountdownExact, Counts
    <3>2. /\ motor_ticks[d] \in Nat /\ Elapsed(d) = motor_ticks[d] - 50
          /\ motor_ticks[d] - 50 > 0 => motor_ticks[d] - 50 \in Counts
      BY <3>1, CountDown DEF Elapsed
    <3>3. d \in Waiting /\ (d \in Killed <=> Elapsed(d) <= 0)
      BY <2>3 DEF Waiting, Killed, Expired
    <3>4. CASE Elapsed(d) <= 0
      BY <2>1, <2>3, <3>3, <3>4
    <3>5. CASE Elapsed(d) > 0
      BY <2>1, <2>3, <3>2, <3>3, <3>5
    <3> QED BY <3>2, <3>4, <3>5
  <2> QED BY <2>2, <2>3
<1>3. fd \in {0, 1}
  BY DEF Typed, RequestOK
<1>4. Owned' <=> Owned
  BY <1>1 DEF Owned
<1>5. CountdownExact'
  BY <1>2 DEF CountdownExact, MotorsInv, Counts, FD_MOTOR_OFF, FD_MOTOR_WAIT, Typed, MotorsOK,
              StateSet
<1>6. pc = "off_state" => motor_state[fd] = FD_MOTOR_ON
  BY DEF MotorsInv, Owned, Transferring
<1> QED BY <1>1, <1>2, <1>3, <1>4, <1>5, <1>6
        DEF MotorsInv, FD_MOTOR_OFF, FD_MOTOR_ON, FD_MOTOR_WAIT

LEMMA MotorsNext == Typed /\ MotorsInv /\ [Next]_vars => MotorsInv'
<1> SUFFICES ASSUME Typed, MotorsInv, [Next]_vars PROVE MotorsInv'
  OBVIOUS
<1> USE DEF Owned, Transferring, Waits, Resets, motors, request, calls
<1>t. /\ motor_state \in StateSet /\ motor_ticks \in TickSet /\ fd \in {0, 1}
      /\ wait_for \in Commands \cup {"reset"}
      /\ reset_from \in {"configure", "off_ticks", "done"}
  BY DEF Typed, MotorsOK, RequestOK, FlowOK
<1>1. CASE Interrupt \/ UNCHANGED vars
  <2>1. UNCHANGED <<motor_state, motor_ticks, pc, wait_for, reset_from, fd>>
    BY <1>1 DEF Interrupt, vars
  <2> QED BY <2>1 DEF MotorsInv, CountdownExact
<1>2. CASE fd_timer
  BY <1>2, MotorsTimer
<1>3. CASE Request
  BY <1>3, MotorsKept DEF Request, fd_read, fd_seek, fd_deinit
<1>4. CASE Setup
  BY <1>4, MotorsKept DEF Setup, CheckVersion, ConfigureAndRegister, DeinitReset
<1>5. CASE WaitLoop \/ WaitSucceeds
  BY <1>5, MotorsKept DEF WaitLoop, WaitSucceeds
<1>6. CASE WaitDecrement
  <2>1. pc = "wait_dec" /\ pc' = AfterInterrupt
    BY <1>6 DEF WaitDecrement
  <2>2. UNCHANGED <<motor_state, motor_ticks, fd, wait_for, reset_from>>
    BY <1>6 DEF WaitDecrement
  <2>3. (Owned' <=> Owned) /\ pc' # "off_state"
    BY <1>t, <2>1, <2>2 DEF AfterInterrupt, Commands
  <2> QED BY <2>2, <2>3, MotorsKept
<1>7. CASE WaitTimesOut
  <2>1. /\ pc = "wait_exit" /\ pc' = AfterTimeout
        /\ reset_from' = IF wait_for = "read" THEN "off_ticks" ELSE reset_from
    BY <1>7 DEF WaitTimesOut
  <2>2. UNCHANGED <<motor_state, motor_ticks, fd, wait_for>>
    BY <1>7 DEF WaitTimesOut
  <2>3. (Owned' <=> Owned) /\ pc' # "off_state"
    BY <1>t, <2>1, <2>2 DEF AfterTimeout, Commands
  <2> QED BY <2>2, <2>3, MotorsKept
<1>8. CASE Reset
  BY <1>8, MotorsKept DEF Reset, ResetOff, ResetOn, ResetWait, Wait
<1>9. CASE Activate
  <2>1. CASE ~MotorSet
    BY <1>9, <2>1, MotorsKept DEF Activate, SelectRead, SelectWrite, MotorTest, MotorRead,
                   MotorWrite, SpinUp, TestChange, local
  <2>2. CASE MotorSet
    <3>1. /\ pc = "motor_set" /\ pc' = "test_change"
          /\ motor_state' = [motor_state EXCEPT ![fd] = FD_MOTOR_ON]
          /\ UNCHANGED <<motor_ticks, fd>>
      BY <2>2 DEF MotorSet, local
    <3> QED BY <1>t, <3>1 DEF MotorsInv, CountdownExact, StateSet, FD_MOTOR_ON, FD_MOTOR_WAIT
  <2> QED BY <2>1, <2>2
<1>10. CASE Recalibrate
  BY <1>10, MotorsKept DEF Recalibrate, SeekSend, SeekSense, RecalSend, RecalSense, Wait, Fail
<1>11. CASE BlockNext \/ ReadSend \/ Copy
  BY <1>11, MotorsKept DEF BlockNext, ReadSend, Copy, Wait, Fail
<1>12. CASE ReadResult
  <2>1. pc' \in {"copy", "read_send", "panic"}
    BY <1>12 DEF ReadResult, Received, AfterStatus, Outcomes, Typed, ControllerOK
  <2> QED BY <1>12, <2>1, MotorsKept DEF ReadResult, local
<1>13. CASE OffTicks
  <2>1. /\ pc = "off_ticks" /\ pc' = "off_state"
        /\ motor_ticks' = [motor_ticks EXCEPT ![fd] = SPIN_DOWN]
        /\ UNCHANGED <<motor_state, fd>>
    BY <1>13 DEF OffTicks, local
  <2>2. motor_ticks'[fd] = SPIN_DOWN
    BY <1>t, <2>1 DEF TickSet
  <2>3. CountdownExact'
    BY <1>t, <2>1 DEF MotorsInv, CountdownExact, TickSet, FD_MOTOR_ON, FD_MOTOR_WAIT
  <2> QED BY <2>1, <2>2, <2>3 DEF MotorsInv
<1>14. CASE OffState
  <2>1. /\ pc = "off_state" /\ pc' = "idle"
        /\ motor_state' = [motor_state EXCEPT ![fd] = FD_MOTOR_WAIT]
        /\ UNCHANGED motor_ticks
    BY <1>14 DEF OffState
  <2>2. CountdownExact'
    BY <1>t, <2>1, CountDown DEF MotorsInv, CountdownExact, Counts, StateSet
  <2> QED BY <1>t, <2>1, <2>2 DEF MotorsInv, StateSet, FD_MOTOR_ON, FD_MOTOR_WAIT
<1> QED BY <1>1, <1>2, <1>3, <1>4, <1>5, <1>6, <1>7, <1>8, <1>9, <1>10, <1>11, <1>12, <1>13, <1>14
        DEF Next, Main, WaitIrq, Transfer, Deactivate

(* Whatever way a request ends, no motor is left in the state that fd_timer *)
(* never looks at.                                                          *)
THEOREM MotorsGivenBack == Spec => []NoMotorLeftOn
<1>1. Typed /\ MotorsInv => NoMotorLeftOn
  BY DEF MotorsInv, NoMotorLeftOn, AtRest, Owned, Transferring, Waits, Resets
<1> QED BY <1>1, TypedInit, TypedNext, MotorsInit, MotorsNext, PTL DEF Spec

(* The countdown of a waiting motor hits zero exactly: the unsigned ticks   *)
(* never wrap, which would keep the motor on for another minute.            *)
THEOREM CountdownNeverWraps == Spec => []CountdownExact
<1>1. MotorsInv => CountdownExact
  BY DEF MotorsInv
<1> QED BY <1>1, TypedInit, TypedNext, MotorsInit, MotorsNext, PTL DEF Spec

-----------------------------------------------------------------------------
(* The controller and the driver.  A controller that is not LATE answers a  *)
(* wait at most once and never after it was given up, so that every         *)
(* interrupt counted belongs to the command last sent.                      *)

Issued(who) == [op |-> who, drive |-> fd, block |-> IF who = "read" THEN block[fd] ELSE 0]

Silent == dead /\ ctl \in {"busy", "resetting"}

Still == irq_waiting = 0 /\ (ctl = "idle" \/ Silent)

Asked == IF wait_for = "reset" THEN ctl = "resetting"
                               ELSE ctl = "busy" /\ cmd = Issued(wait_for)

Replied == IF wait_for = "read" THEN ctl = "result" /\ cmd = Issued("read")
                                ELSE ctl = "idle"

(* Before fd_init has installed the handler, only fd_deinit waits.          *)
Deaf ==
    /\ irq_waiting = 0
    /\ pc \in {"init", "absent", "deinit", "done", "wait", "wait_exit"} \cup Resets
    /\ pc \in Waits => wait_for = "reset"
    /\ pc \in Resets \cup Waits => reset_from = "done"
    /\ pc = "init" => ctl = "idle"

Heard ==
    CASE pc = "wait" -> \/ irq_waiting = 0 /\ (Asked \/ Silent)
                        \/ irq_waiting = 1 /\ Replied
      [] pc = "wait_exit" -> \/ irq_waiting = 0 /\ Silent
                             \/ irq_waiting = 1 /\ Replied
      [] pc = "wait_dec" -> irq_waiting = 1 /\ irq_reg = 1 /\ Replied
      [] pc = "reset_on" -> irq_waiting = 0 /\ ctl = "off"
      [] pc = "reset_wait" -> \/ irq_waiting = 0 /\ ctl = "resetting"
                              \/ irq_waiting = 1 /\ ctl = "idle"
      [] pc \in {"seek_sense", "recal_sense"} -> irq_waiting = 0 /\ ctl = "idle"
      [] pc = "read_result" -> irq_waiting = 0 /\ ctl = "result" /\ cmd = Issued("read")
      [] OTHER -> Still

Answered == IF installed = "nothing" THEN Deaf ELSE Heard

LEMMA AnsweredInit == Init => Answered
BY DEF Init, Answered, Deaf, Waits, Resets

LEMMA AnsweredNext == ~LATE /\ Typed /\ Answered /\ [Next]_vars => Answered'
<1> SUFFICES ASSUME ~LATE, Typed, Answered, [Next]_vars PROVE Answered'
  OBVIOUS
<1> USE DEF Waits, Resets, controller, motors, request, calls
<1>t. /\ wait_for \in Commands \cup {"reset"}
      /\ reset_from \in {"configure", "off_ticks", "done"}
      /\ ctl \in {"idle", "busy", "result", "off", "resetting"}
      /\ cmd \in CommandSet
      /\ installed \in {"nothing", "handler", "timer"}
      /\ pc \in PCs
  BY DEF Typed, FlowOK, ControllerOK
<1>1. CASE Interrupt
  <2>1. UNCHANGED <<pc, installed, fd, block, wait_for, reset_from, irq_reg>>
    BY <1>1 DEF Interrupt
  <2>2. CASE installed = "nothing"
    BY <1>1, <2>1, <2>2 DEF Interrupt, fd_irq_handler, Answered, Deaf, Answer, ResetDone
  <2>3. CASE installed # "nothing"
    <3>1. irq_waiting' = (irq_waiting + 1) % 256 /\ ~dead /\ ctl \in {"busy", "resetting"}
      BY <1>1, <2>3 DEF Interrupt, fd_irq_handler, Answer, ResetDone
    <3>2. Heard
      BY <2>3 DEF Answered
    <3>3. \/ pc = "wait" /\ irq_waiting = 0 /\ Asked
          \/ pc = "reset_wait" /\ irq_waiting = 0 /\ ctl = "resetting"
      BY <3>1, <3>2 DEF Heard, Still, Silent, Replied
    <3>4. irq_waiting' = 1
      BY <3>1, <3>3
    <3>5. CASE pc = "wait" /\ wait_for # "reset"
      <4>1. ctl = "busy" /\ cmd = Issued(wait_for) /\ cmd.op = wait_for
        BY <3>3, <3>5 DEF Asked, Issued
      <4>2. Answer
        BY <1>1, <4>1 DEF Interrupt, ResetDone
      <4>3. CASE wait_for = "read"
        <5>1. EndRead
          BY <4>1, <4>2, <4>3 DEF Answer, EndMove
        <5>2. ctl' = "result" /\ cmd' = cmd
          BY <5>1 DEF EndRead
        <5>3. Replied'
          BY <2>1, <4>1, <4>3, <5>2 DEF Replied, Issued
        <5> QED BY <2>1, <2>3, <3>4, <3>5, <5>3 DEF Answered, Heard
      <4>4. CASE wait_for # "read"
        <5>1. ctl' = "idle"
          BY <4>1, <4>2, <4>4 DEF Answer, EndMove, EndRead
        <5>2. Replied'
          BY <2>1, <4>4, <5>1 DEF Replied
        <5> QED BY <2>1, <2>3, <3>4, <3>5, <5>2 DEF Answered, Heard
      <4> QED BY <4>3, <4>4
    <3>6. CASE pc = "wait" /\ wait_for = "reset"
      <4>1. ctl' = "idle"
        BY <1>1, <3>3, <3>6 DEF Asked, Interrupt, Answer, ResetDone
      <4>2. Replied'
        BY <2>1, <3>6, <4>1 DEF Replied
      <4> QED BY <2>1, <2>3, <3>4, <3>6, <4>2 DEF Answered, Heard
    <3>7. CASE pc = "reset_wait"
      <4>1. ctl' = "idle"
        BY <1>1, <3>3, <3>7 DEF Interrupt, Answer, ResetDone
      <4> QED BY <2>1, <2>3, <3>4, <3>7, <4>1 DEF Answered, Heard
    <3> QED BY <3>3, <3>5, <3>6, <3>7
  <2> QED BY <2>2, <2>3
<1>2. CASE fd_timer \/ UNCHANGED vars
  <2>1. UNCHANGED <<ctl, cmd, dead, irq_waiting, pc, installed, fd, block, wait_for, reset_from,
                   irq_reg>>
    BY <1>2 DEF fd_timer, vars
  <2> QED BY <2>1 DEF Answered, Deaf, Heard, Still, Silent, Asked, Replied, Issued
<1>3. CASE Request
  <2>1. /\ UNCHANGED <<ctl, cmd, dead, irq_waiting, installed, wait_for, reset_from, irq_reg>>
        /\ pc \in {"idle", "absent"} /\ pc' \in {"select_read", "idle", "deinit"}
        /\ pc = "absent" => pc' = "deinit"
    BY <1>3 DEF Request, fd_read, fd_seek, fd_deinit
  <2> QED BY <2>1 DEF Answered, Deaf, Heard, Still, Silent
<1>4. CASE Setup
  BY <1>4 DEF Setup, CheckVersion, ConfigureAndRegister, DeinitReset, Answered, Deaf, Heard,
              Still, Silent
<1>5. CASE WaitLoop
  <2>1. /\ pc = "wait" /\ pc' = "wait_exit"
        /\ dead' = (dead \/ (irq_waiting = 0 /\ ctl \in {"busy", "resetting"}))
        /\ UNCHANGED <<ctl, cmd, irq_waiting, installed, fd, block, wait_for, reset_from>>
    BY <1>5 DEF WaitLoop
  <2>2. CASE installed = "nothing"
    BY <2>1, <2>2 DEF Answered, Deaf
  <2>3. CASE installed # "nothing" /\ irq_waiting = 0
    <3>1. Asked \/ Silent
      BY <2>1, <2>3 DEF Answered, Heard
    <3>2. ctl \in {"busy", "resetting"}
      BY <3>1 DEF Asked, Silent
    <3>3. irq_waiting' = 0 /\ Silent'
      BY <2>1, <2>3, <3>2 DEF Silent
    <3> QED BY <2>1, <2>3, <3>3 DEF Answered, Heard
  <2>4. CASE installed # "nothing" /\ irq_waiting # 0
    <3>1. irq_waiting = 1 /\ Replied
      BY <2>1, <2>4 DEF Answered, Heard
    <3>2. irq_waiting' = 1 /\ Replied'
      BY <2>1, <3>1 DEF Replied, Issued
    <3> QED BY <2>1, <2>4, <3>2 DEF Answered, Heard
  <2> QED BY <2>2, <2>3, <2>4
<1>6. CASE WaitSucceeds
  <2>1. /\ pc = "wait_exit" /\ pc' = "wait_dec" /\ irq_waiting > 0 /\ irq_reg' = irq_waiting
        /\ UNCHANGED <<ctl, cmd, irq_waiting, installed, fd, block, wait_for, reset_from>>
    BY <1>6 DEF WaitSucceeds
  <2>2. installed # "nothing" /\ irq_waiting = 1 /\ Replied
    BY <2>1 DEF Answered, Deaf, Heard
  <2>3. Replied'
    BY <2>1, <2>2 DEF Replied, Issued
  <2> QED BY <2>1, <2>2, <2>3 DEF Answered, Heard
<1>7. CASE WaitDecrement
  <2>1. /\ pc = "wait_dec" /\ pc' = AfterInterrupt /\ irq_waiting' = irq_reg - 1
        /\ UNCHANGED <<ctl, cmd, dead, installed, fd, block, wait_for, reset_from>>
    BY <1>7 DEF WaitDecrement, Decremented
  <2>2. CASE installed = "nothing"
    BY <2>1, <2>2 DEF Answered, Deaf
  <2>3. CASE installed # "nothing"
    <3>1. irq_waiting' = 0 /\ Replied
      BY <2>1, <2>3 DEF Answered, Heard
    <3>2. CASE wait_for = "read"
      BY <2>1, <2>3, <3>1, <3>2 DEF AfterInterrupt, Answered, Heard, Replied, Issued
    <3>3. CASE wait_for # "read"
      BY <1>t, <2>1, <2>3, <3>1, <3>3
      DEF AfterInterrupt, Answered, Heard, Replied, Still, Commands
    <3> QED BY <3>2, <3>3
  <2> QED BY <2>2, <2>3
<1>8. CASE WaitTimesOut
  <2>1. /\ pc = "wait_exit" /\ pc' = AfterTimeout /\ irq_waiting = 0
        /\ reset_from' = IF wait_for = "read" THEN "off_ticks" ELSE reset_from
        /\ UNCHANGED <<ctl, cmd, dead, irq_waiting, installed, wait_for>>
    BY <1>8 DEF WaitTimesOut
  <2>2. CASE installed = "nothing"
    BY <2>1, <2>2 DEF Answered, Deaf, AfterTimeout
  <2>3. CASE installed # "nothing"
    <3>1. Silent
      BY <2>1, <2>3 DEF Answered, Heard
    <3>2. Still'
      BY <2>1, <3>1 DEF Still, Silent
    <3>3. pc' \in {"configure", "off_ticks", "done", "reset_off"}
      BY <1>t, <2>1 DEF AfterTimeout
    <3> QED BY <2>1, <2>3, <3>2, <3>3 DEF Answered, Heard
  <2> QED BY <2>2, <2>3
<1>9. CASE Reset
  <2>1. CASE ResetOff
    BY <2>1 DEF ResetOff, Answered, Deaf, Heard, Still
  <2>2. CASE ResetOn
    BY <2>2 DEF ResetOn, Answered, Deaf, Heard
  <2>3. CASE ResetWait
    BY <2>3 DEF ResetWait, Wait, Answered, Deaf, Heard, Asked, Replied
  <2> QED BY <1>9, <2>1, <2>2, <2>3 DEF Reset
<1>10. CASE Activate \/ Deactivate \/ BlockNext \/ Copy
  <2>1. /\ UNCHANGED <<ctl, cmd, dead, irq_waiting, installed>>
        /\ pc \in {"select_read", "select_write", "motor_test", "motor_read", "motor_write",
                   "spin_up", "motor_set", "test_change", "block_next", "copy", "off_ticks",
                   "off_state"}
        /\ pc' \in {"select_write", "motor_test", "motor_read", "motor_write", "spin_up",
                    "motor_set", "test_change", "seek_send", "block_next", "read_send",
                    "off_ticks", "off_state", "idle"}
    BY <1>10 DEF Activate, SelectRead, SelectWrite, MotorTest, MotorRead, MotorWrite, SpinUp,
                 MotorSet, TestChange, Deactivate, OffTicks, OffState, BlockNext, Copy, local
  <2> QED BY <2>1 DEF Answered, Deaf, Heard, Still, Silent
<1>11. CASE SeekSend \/ RecalSend \/ ReadSend
  <2>1. pc \in {"seek_send", "recal_send", "read_send"}
    BY <1>11 DEF SeekSend, RecalSend, ReadSend
  <2>2. installed # "nothing" /\ Still
    BY <2>1 DEF Answered, Deaf, Heard
  <2>3. UNCHANGED <<irq_waiting, installed, fd, block>>
    BY <1>11 DEF SeekSend, RecalSend, ReadSend
  <2>4. CASE pc' = "off_ticks"
    <3>1. UNCHANGED <<ctl, dead>>
      BY <1>11, <2>4 DEF SeekSend, RecalSend, ReadSend, Wait
    <3> QED BY <2>2, <2>3, <2>4, <3>1 DEF Answered, Heard, Still, Silent
  <2>5. CASE pc' # "off_ticks"
    <3>1. /\ pc' = "wait" /\ wait_for' \in {"seek", "recalibrate", "read"}
          /\ Send([op |-> wait_for', drive |-> fd,
                   block |-> IF wait_for' = "read" THEN block[fd] ELSE 0])
      <4>1. SectorAt(fd_block2hcs(block[fd])) = block[fd]
        BY BlockAddressed DEF Typed, RequestOK
      <4> QED BY <1>11, <2>5, <4>1 DEF SeekSend, RecalSend, ReadSend, Wait, Fail
    <3>2. CASE ctl = "idle"
      BY <2>2, <2>3, <3>1, <3>2 DEF Send, Answered, Heard, Still, Asked, Issued
    <3>3. CASE ctl # "idle"
      BY <2>2, <2>3, <3>1, <3>3 DEF Send, Answered, Heard, Still, Silent
    <3> QED BY <3>2, <3>3
  <2> QED BY <2>4, <2>5
<1>12. CASE SeekSense \/ RecalSense
  BY <1>12 DEF SeekSense, RecalSense, Fail, Answered, Deaf, Heard, Still
<1>13. CASE ReadResult
  <2>1. pc' \in {"copy", "read_send", "panic"}
    BY <1>13 DEF ReadResult, Received, AfterStatus, Outcomes, Typed, ControllerOK
  <2> QED BY <1>13, <2>1 DEF ReadResult, Answered, Deaf, Heard, Still, local
<1> QED BY <1>1, <1>2, <1>3, <1>4, <1>5, <1>6, <1>7, <1>8, <1>9, <1>10, <1>11, <1>12, <1>13
        DEF Next, Main, WaitIrq, Recalibrate, Transfer

(* While the controller answers in time or not at all, a result is read,    *)
(* and an interrupt sensed, only when the command it belongs to is done.    *)
THEOREM ResultsAreReady == ~LATE => (Spec => []ResultIsReady)
<1> SUFFICES ASSUME ~LATE PROVE Spec => []ResultIsReady
  OBVIOUS
<1>1. Answered => ResultIsReady
  BY DEF Answered, Deaf, Heard, ResultIsReady, Issued, Resets
<1>2. Typed /\ Answered /\ [Next]_vars => (Typed /\ Answered)'
  BY TypedNext, AnsweredNext
<1> QED BY <1>1, <1>2, TypedInit, AnsweredInit, PTL DEF Spec

-----------------------------------------------------------------------------
(* The data.  The sector in the DMA buffer is the one the controller says   *)
(* it has read, and what was copied leads up to the position of the drive.  *)

Copied(d, b) ==
    \A i \in 1..Len(buf) : buf[i] = [drive |-> d, block |-> (b - Len(buf)) + (i - 1)]

DataInv ==
    /\ ctl = "result" /\ status = "ok" => dma = [drive |-> cmd.drive, block |-> cmd.block]
    /\ pc = "copy" => dma = [drive |-> fd, block |-> block[fd]]
    /\ ~Owned => buf = <<>>
    /\ Copied(fd, block[fd])

LEMMA DataInit == Init => DataInv
BY DEF Init, DataInv, Copied, Owned

LEMMA DataNext ==
    ~LATE /\ Typed /\ Answered /\ DataInv /\ [Next]_vars => DataInv'
<1> SUFFICES ASSUME ~LATE, Typed, Answered, DataInv, [Next]_vars PROVE DataInv'
  OBVIOUS
<1> USE DEF Waits, Resets, controller, motors, request, calls
<1>t. /\ wait_for \in Commands \cup {"reset"}
      /\ reset_from \in {"configure", "off_ticks", "done"}
      /\ fd \in {0, 1} /\ block \in [{0, 1} -> Nat] /\ buf \in Seq(SectorSet)
      /\ dma \in SectorSet /\ cmd \in CommandSet
  BY DEF Typed, FlowOK, RequestOK, ControllerOK
<1>1. CASE Interrupt
  <2>1. UNCHANGED <<pc, fd, block, buf, wait_for, reset_from>>
    BY <1>1 DEF Interrupt
  <2>2. pc = "copy" => FALSE
    BY <1>1 DEF Interrupt, Answer, ResetDone, Answered, Deaf, Heard, Still, Silent
  <2>3. ctl' = "result" /\ status' = "ok" => dma' = [drive |-> cmd'.drive, block |-> cmd'.block]
    BY <1>1 DEF Interrupt, Answer, EndRead, EndMove, ResetDone
  <2> QED BY <2>1, <2>2, <2>3 DEF DataInv, Copied, Owned
<1>2. CASE fd_timer \/ UNCHANGED vars
  <2>1. UNCHANGED <<ctl, cmd, status, dma, pc, fd, block, buf, wait_for, reset_from>>
    BY <1>2 DEF fd_timer, vars
  <2> QED BY <2>1 DEF DataInv, Copied, Owned
<1>3. CASE Copy
  <2>1. /\ buf' = Append(buf, dma) /\ dma = [drive |-> fd, block |-> block[fd]]
        /\ block' = [block EXCEPT ![fd] = @ + 1] /\ fd' = fd
        /\ UNCHANGED controller /\ pc' = "block_next"
    BY <1>3 DEF Copy, DataInv
  <2>2. /\ Len(buf) \in Nat /\ Len(buf') = Len(buf) + 1
        /\ \A i \in 1..Len(buf) : buf'[i] = buf[i]
        /\ buf'[Len(buf) + 1] = dma
    BY <1>t, <2>1, AppendProperties
  <2>3. block[fd] \in Nat /\ block'[fd] = block[fd] + 1
    BY <1>t, <2>1
  <2>4. ASSUME NEW i \in 1..Len(buf')
        PROVE  buf'[i] = [drive |-> fd, block |-> (block'[fd] - Len(buf')) + (i - 1)]
    <3>1. CASE i = Len(buf) + 1
      <4>1. (block'[fd] - Len(buf')) + (i - 1)
                = ((block[fd] + 1) - (Len(buf) + 1)) + ((Len(buf) + 1) - 1)
        BY <2>2, <2>3, <3>1
      <4>2. (block'[fd] - Len(buf')) + (i - 1) = block[fd]
        BY <2>2, <2>3, <4>1
      <4> QED BY <2>1, <2>2, <3>1, <4>2
    <3>2. CASE i \in 1..Len(buf)
      <4>1. (block'[fd] - Len(buf')) + (i - 1) = (block[fd] - Len(buf)) + (i - 1)
        BY <2>2, <2>3, <3>2
      <4> QED BY <2>2, <3>2, <4>1 DEF DataInv, Copied
    <3> QED BY <2>2, <2>4, <3>1, <3>2
  <2>5. Copied(fd, block[fd])'
    BY <2>1, <2>4 DEF Copied
  <2> QED BY <2>1, <2>5 DEF DataInv, Owned, Transferring
<1>4. CASE Request
  <2>1. pc \in {"idle", "absent"} /\ UNCHANGED controller
    BY <1>4 DEF Request, fd_read, fd_seek, fd_deinit
  <2>2. ~Owned /\ buf = <<>>
    BY <2>1 DEF Owned, Transferring, DataInv
  <2>3. buf' = <<>> /\ pc' \in {"select_read", "idle", "deinit"}
    BY <1>4, <2>2 DEF Request, fd_read, fd_seek, fd_deinit
  <2> QED BY <2>1, <2>3 DEF DataInv, Copied
<1>5. CASE OffState
  BY <1>5 DEF OffState, DataInv, Copied
<1>6. CASE ReadResult
  <2>1. ctl = "result" /\ cmd = [op |-> "read", drive |-> fd, block |-> block[fd]]
    BY <1>6 DEF ReadResult, Answered, Deaf, Heard, Issued
  <2>2. pc' \in {"copy", "read_send", "panic"} /\ (pc' = "copy" => status = "ok")
    BY <1>6, <2>1 DEF ReadResult, Received, AfterStatus, Outcomes, Typed, ControllerOK
  <2>3. /\ UNCHANGED <<dma, fd, block, buf, wait_for, reset_from>>
        /\ pc = "read_result" /\ ctl' = "idle"
    BY <1>6, <2>1 DEF ReadResult, local
  <2>4. pc' = "copy" => dma' = [drive |-> fd', block |-> block'[fd']]
    BY <2>1, <2>2, <2>3 DEF DataInv
  <2> QED BY <2>2, <2>3, <2>4 DEF DataInv, Copied, Owned, Transferring
<1>7. CASE Setup \/ Activate \/ BlockNext \/ OffTicks \/ SeekSense \/ RecalSense
  <2>1. UNCHANGED <<ctl, cmd, status, dma, fd, block, buf>>
    BY <1>7 DEF Setup, CheckVersion, ConfigureAndRegister, DeinitReset, Activate, SelectRead,
                SelectWrite, MotorTest, MotorRead, MotorWrite, SpinUp, MotorSet, TestChange,
                BlockNext, OffTicks, SeekSense, RecalSense, local
  <2>2. (Owned => Owned') /\ pc' # "copy"
    BY <1>7 DEF Setup, CheckVersion, ConfigureAndRegister, DeinitReset, Activate, SelectRead,
                SelectWrite, MotorTest, MotorRead, MotorWrite, SpinUp, MotorSet, TestChange,
                BlockNext, OffTicks, SeekSense, RecalSense, Fail, Owned, Transferring, local
  <2> QED BY <2>1, <2>2 DEF DataInv, Copied
<1>8. CASE WaitIrq
  <2>1. UNCHANGED <<ctl, cmd, status, dma, fd, block, buf, wait_for>>
    BY <1>8 DEF WaitIrq, WaitLoop, WaitSucceeds, WaitDecrement, WaitTimesOut
  <2>2. CASE WaitLoop \/ WaitSucceeds
    <3>1. (Owned => Owned') /\ pc' # "copy"
      BY <2>1, <2>2 DEF WaitLoop, WaitSucceeds, Owned, Transferring
    <3> QED BY <2>1, <3>1 DEF DataInv, Copied
  <2>3. CASE WaitDecrement
    <3>1. pc = "wait_dec" /\ pc' = AfterInterrupt /\ UNCHANGED reset_from
      BY <2>3 DEF WaitDecrement
    <3>2. (Owned => Owned') /\ pc' # "copy"
      BY <1>t, <2>1, <3>1 DEF AfterInterrupt, Owned, Transferring, Commands
    <3> QED BY <2>1, <3>2 DEF DataInv, Copied
  <2>4. CASE WaitTimesOut
    <3>1. /\ pc = "wait_exit" /\ pc' = AfterTimeout
          /\ reset_from' = IF wait_for = "read" THEN "off_ticks" ELSE reset_from
      BY <2>4 DEF WaitTimesOut
    <3>2. (Owned => Owned') /\ pc' # "copy"
      BY <1>t, <2>1, <3>1 DEF AfterTimeout, Owned, Transferring, Commands
    <3> QED BY <2>1, <3>2 DEF DataInv, Copied
  <2> QED BY <1>8, <2>2, <2>3, <2>4 DEF WaitIrq
<1>9. CASE Reset
  <2>1. /\ UNCHANGED <<dma, fd, block, buf>> /\ pc' # "copy"
        /\ ctl' \in {"off", "resetting"} \/ UNCHANGED <<ctl, cmd, status>>
    BY <1>9 DEF Reset, ResetOff, ResetOn, ResetWait, Wait
  <2>2. Owned => Owned'
    BY <1>9 DEF Reset, ResetOff, ResetOn, ResetWait, Wait, Owned, Transferring
  <2> QED BY <2>1, <2>2 DEF DataInv, Copied
<1>10. CASE SeekSend \/ RecalSend \/ ReadSend
  <2>1. /\ UNCHANGED <<fd, block, buf, dma, status>>
        /\ pc \in Transferring /\ pc' # "copy"
    BY <1>10 DEF SeekSend, RecalSend, ReadSend, Send, Wait, Fail, Transferring
  <2>2. ctl' = "busy" \/ UNCHANGED <<ctl, cmd>>
    BY <1>10 DEF SeekSend, RecalSend, ReadSend, Send
  <2>3. Owned'
    BY <1>10 DEF SeekSend, RecalSend, ReadSend, Wait, Fail, Owned, Transferring
  <2> QED BY <2>1, <2>2, <2>3 DEF DataInv, Copied
<1> QED BY <1>1, <1>2, <1>3, <1>4, <1>5, <1>6, <1>7, <1>8, <1>9, <1>10
        DEF Next, Main, Recalibrate, Transfer, Deactivate

(* While the controller answers in time or not at all, what fd_read copies  *)
(* are the blocks it was asked for, in order, through errors, retries,      *)
(* recalibrations and resets.                                               *)
THEOREM BlocksInOrder == ~LATE => (Spec => []ReadsBlocks)
<1> SUFFICES ASSUME ~LATE PROVE Spec => []ReadsBlocks
  OBVIOUS
<1>1. DataInv => ReadsBlocks
  BY DEF DataInv, Copied, ReadsBlocks
<1>2. /\ Typed /\ Answered /\ DataInv /\ [Next]_vars => (Typed /\ Answered /\ DataInv)'
  BY TypedNext, AnsweredNext, DataNext
<1> QED BY <1>1, <1>2, TypedInit, AnsweredInit, DataInit, PTL DEF Spec

-----------------------------------------------------------------------------
(* One drive.  With two, fd_timer may stop one motor between the read and   *)
(* the write by which a request for the other starts it again.              *)

OneDrive == \A d, e \in DRIVES : d = e

Starting == {"motor_test", "motor_read", "motor_write", "spin_up", "motor_set"}

BitsInv ==
    /\ dor.motors \subseteq DRIVES
    /\ dor_reg.motors \subseteq DRIVES
    /\ Owned \/ pc \in Starting \cup {"select_read", "select_write"} => fd \in DRIVES
    /\ \A d \in {0, 1} : motor_state[d] = FD_MOTOR_OFF /\ d \in dor.motors => pc \in Starting

LEMMA BitsInit == Init => BitsInv
BY DEF Init, BitsInv, NoDor, Owned, Transferring, Starting, Waits, Resets

LEMMA BitsNext == OneDrive /\ Typed /\ BitsInv /\ [Next]_vars => BitsInv'
<1> SUFFICES ASSUME OneDrive, Typed, BitsInv, [Next]_vars PROVE BitsInv'
  OBVIOUS
<1> USE DEF Owned, Transferring, Starting, Waits, Resets, motors, request, calls
<1>t. /\ motor_state \in StateSet /\ fd \in {0, 1}
      /\ dor \in DorSet /\ dor_reg \in DorSet
      /\ wait_for \in Commands \cup {"reset"}
      /\ reset_from \in {"configure", "off_ticks", "done"}
  BY DEF Typed, MotorsOK, RequestOK, FlowOK
<1>1. CASE Interrupt \/ UNCHANGED vars
  <2>1. UNCHANGED <<dor, dor_reg, motor_state, pc, wait_for, reset_from, fd>>
    BY <1>1 DEF Interrupt, vars
  <2> QED BY <2>1 DEF BitsInv
<1>2. CASE fd_timer
  <2>1. /\ UNCHANGED <<dor_reg, pc, wait_for, reset_from, fd>>
        /\ dor' = [dor EXCEPT !.motors = @ \ Killed]
        /\ \A d \in {0, 1} :
               motor_state'[d] = IF d \in Killed THEN FD_MOTOR_OFF ELSE motor_state[d]
    BY <1>2 DEF fd_timer, fd_motor_kill
  <2>2. dor'.motors = dor.motors \ Killed
    BY <1>t, <2>1 DEF DorSet
  <2> QED BY <2>1, <2>2 DEF BitsInv
<1>3. CASE Request \/ Setup
  BY <1>3 DEF Request, fd_read, fd_seek, fd_deinit, Setup, CheckVersion, ConfigureAndRegister,
              DeinitReset, BitsInv
<1>4. CASE WaitIrq
  <2>1. UNCHANGED <<dor, dor_reg, motor_state, fd, wait_for>>
    BY <1>4 DEF WaitIrq, WaitLoop, WaitSucceeds, WaitDecrement, WaitTimesOut
  <2>2. (Owned' => Owned) /\ pc \notin Starting
    <3>1. CASE WaitLoop \/ WaitSucceeds
      BY <2>1, <3>1 DEF WaitLoop, WaitSucceeds
    <3>2. CASE WaitDecrement
      BY <1>t, <2>1, <3>2 DEF WaitDecrement, AfterInterrupt, Commands
    <3>3. CASE WaitTimesOut
      BY <1>t, <2>1, <3>3 DEF WaitTimesOut, AfterTimeout, Commands
    <3> QED BY <1>4, <3>1, <3>2, <3>3 DEF WaitIrq
  <2>3. pc' \notin Starting \cup {"select_read", "select_write"}
    BY <1>4, <1>t DEF WaitIrq, WaitLoop, WaitSucceeds, WaitDecrement, WaitTimesOut,
                      AfterInterrupt, AfterTimeout, Commands
  <2> QED BY <2>1, <2>2, <2>3 DEF BitsInv
<1>5. CASE Reset
  <2>1. /\ UNCHANGED <<dor_reg, motor_state, fd, reset_from>>
        /\ (dor' = NoDor \/ UNCHANGED dor) /\ pc \in Resets /\ (Owned' => Owned)
        /\ pc' \in Resets \cup Waits
    BY <1>5 DEF Reset, ResetOff, ResetOn, ResetWait, Wait
  <2> QED BY <2>1 DEF BitsInv, NoDor
<1>6. CASE SelectRead \/ MotorTest \/ MotorRead \/ SpinUp \/ TestChange
  BY <1>6 DEF SelectRead, MotorTest, MotorRead, SpinUp, TestChange, local, BitsInv
<1>7. CASE SelectWrite \/ MotorWrite
  <2>1. /\ pc \in {"select_write", "motor_write"} /\ pc' \in Starting
        /\ UNCHANGED <<motor_state, fd>> /\ dor_reg' = NoDor
    BY <1>7 DEF SelectWrite, MotorWrite, local
  <2>2. dor'.motors \subseteq DRIVES
    BY <1>7, <1>t DEF SelectWrite, MotorWrite, BitsInv, DorSet
  <2> QED BY <2>1, <2>2 DEF BitsInv, NoDor
<1>8. CASE MotorSet
  <2>1. /\ pc = "motor_set" /\ pc' = "test_change" /\ UNCHANGED <<dor, dor_reg, fd>>
        /\ motor_state' = [motor_state EXCEPT ![fd] = FD_MOTOR_ON]
    BY <1>8 DEF MotorSet, local
  <2>2. fd \in DRIVES
    BY <2>1 DEF BitsInv
  <2>3. ASSUME NEW d \in {0, 1}, d \in dor.motors PROVE motor_state'[d] # FD_MOTOR_OFF
    <3>1. d = fd
      BY <2>2, <2>3 DEF BitsInv, OneDrive
    <3> QED BY <1>t, <2>1, <3>1 DEF StateSet, FD_MOTOR_ON, FD_MOTOR_OFF
  <2> QED BY <2>1, <2>2, <2>3 DEF BitsInv
<1>9. CASE Recalibrate
  BY <1>9 DEF Recalibrate, SeekSend, SeekSense, RecalSend, RecalSense, Wait, Fail, BitsInv
<1>10. CASE BlockNext \/ ReadSend \/ Copy
  BY <1>10 DEF BlockNext, ReadSend, Copy, Wait, Fail, BitsInv
<1>11. CASE ReadResult
  <2>1. pc' \in {"copy", "read_send", "panic"}
    BY <1>11 DEF ReadResult, Received, AfterStatus, Outcomes, Typed, ControllerOK
  <2> QED BY <1>11, <2>1 DEF ReadResult, local, BitsInv
<1>12. CASE OffTicks
  BY <1>12 DEF OffTicks, local, BitsInv
<1>13. CASE OffState
  <2>1. /\ pc = "off_state" /\ pc' = "idle" /\ UNCHANGED <<dor, dor_reg>>
        /\ motor_state' = [motor_state EXCEPT ![fd] = FD_MOTOR_WAIT]
    BY <1>13 DEF OffState
  <2> QED BY <1>t, <2>1 DEF BitsInv, StateSet, FD_MOTOR_WAIT, FD_MOTOR_OFF
<1> QED BY <1>1, <1>2, <1>3, <1>4, <1>5, <1>6, <1>7, <1>8, <1>9, <1>10, <1>11, <1>12, <1>13
        DEF Next, Main, Activate, Transfer, Deactivate

(* A driver with one drive knows of every motor that runs: one in state OFF *)
(* is off in the register too, although fd_timer clears its bit between the *)
(* reads and the writes of fd_activate.                                     *)
THEOREM OneDriveOffIsOff == OneDrive => (Spec => []OffIsOff)
<1> SUFFICES ASSUME OneDrive PROVE Spec => []OffIsOff
  OBVIOUS
<1>1. BitsInv => OffIsOff
  BY DEF BitsInv, OffIsOff, AtRest, Starting
<1>2. Typed /\ BitsInv /\ [Next]_vars => (Typed /\ BitsInv)'
  BY TypedNext, BitsNext
<1> QED BY <1>1, <1>2, TypedInit, BitsInit, PTL DEF Spec
=============================================================================
