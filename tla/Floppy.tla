------------------------------- MODULE Floppy -------------------------------
(***************************************************************************)
(* The floppy driver, devices/floppy/floppy.c: fd_init, fd_read, fd_seek    *)
(* and fd_deinit on the main thread, the handler of IRQ 6, and the timer    *)
(* task fd_timer that stops idle motors.  The handler and the task run in   *)
(* interrupts, with interrupts off: each is one step.  The main thread      *)
(* takes a step for every access to what they share: the digital output     *)
(* register (DOR), the motor state and ticks, and irq_waiting.  The build   *)
(* asks for no optimisation: accesses happen in program order, and          *)
(* irq_waiting-- is a load and a store.  A local that is no longer used is  *)
(* given its initial value again.                                           *)
(*                                                                         *)
(* Abstracted: blocks are numbers, a sector read is the pair of its drive   *)
(* and block, and a sleep or a timeout may take any time.                   *)
(*                                                                         *)
(* External: the controller, which executes one command at a time, raises   *)
(* IRQ 6 when it is done or reset, and may never answer.                    *)
(***************************************************************************)
EXTENDS Integers, Sequences, FiniteSets

CONSTANTS
    DRIVES,        \* drives found by fd_init, within {0, 1}
    N_BLOCKS,      \* fd->n_blocks, 2880 for a 1.44MB drive
    SPT, HEADS,    \* fd->geometry: sectors per track and heads, 18 and 2
    MAX_READ,      \* bound on the blocks of one fd_read
    RW_TRIES,      \* attempts of fd_rw_block, 10 in the code
    RECAL_TRIES,   \* attempts of fd_recalibrate, 10 in the code
    SPIN_DOWN,     \* the ticks an idle motor is given, 300 in the code
    LATE           \* the controller may answer after the driver gave up

ASSUME DriveAssumption == DRIVES \subseteq {0, 1}
ASSUME BoundAssumption ==
    /\ N_BLOCKS \in Nat \ {0} /\ SPT \in Nat \ {0} /\ HEADS \in Nat \ {0}
    /\ MAX_READ \in Nat \ {0}
    /\ RW_TRIES \in Nat \ {0} /\ RECAL_TRIES \in Nat \ {0}
ASSUME SpinDownAssumption == \E k \in 1..1310 : SPIN_DOWN = 50 * k
ASSUME LateAssumption == LATE \in BOOLEAN

FD_MOTOR_OFF  == 0
FD_MOTOR_ON   == 1
FD_MOTOR_WAIT == 2

VARIABLES
    ctl,           \* external: what the controller is doing
    cmd,           \* external: the command it executes
    status,        \* external: how that command ended
    dead,          \* external: it will not answer this command
    dma,           \* fd_dma_buffer, the sector last transferred
    irq_waiting,   \* interrupts counted and not yet waited for
    dor,           \* the DOR: the selected drive and the running motors
    motor_state,   \* fd_units[d].motor_state
    motor_ticks,   \* fd_units[d].motor_ticks
    block,         \* fd_units[d].block
    installed,     \* what fd_init has installed: nothing, the handler, the timer task
    pc,            \* where the main thread is
    fd,            \* the drive of the request
    left,          \* blocks of the request still to read
    buf,           \* the sectors copied to the caller
    result,        \* "ok", or "fail" once the request returns -1
    tries,         \* attempts made by the retry loop
    dor_reg,       \* the local dor: the DOR as it was read
    irq_reg,       \* irq_waiting as it was loaded by irq_waiting--
    wait_for,      \* who called fd_wait_irq
    reset_from     \* who called fd_reset

controller == <<ctl, cmd, status, dead, dma>>
motors     == <<dor, motor_state, motor_ticks>>
request    == <<fd, left, buf, result, tries>>
calls      == <<irq_reg, wait_for, reset_from>>
vars == <<ctl, cmd, status, dead, dma, irq_waiting, dor, motor_state, motor_ticks,
          block, installed, pc, fd, left, buf, result, tries, dor_reg, irq_reg,
          wait_for, reset_from>>

Commands == {"seek", "recalibrate", "read"}
Outcomes == {"ok", "error", "abnormal"}
Sector   == [drive : {0, 1}, block : Nat]
NoSector == [drive |-> 0, block |-> -1]
NoDor     == [select |-> 0, motors |-> {}]
NoCommand == [op |-> "none", drive |-> 0, block |-> 0]

uint8_t  == {n \in Nat : n < 256}
uint16_t == {n \in Nat : n < 65536}

PCs == {"init", "absent", "configure", "idle", "done", "panic",
        "select_read", "select_write",
        "motor_test", "motor_read", "motor_write", "spin_up", "motor_set",
        "test_change", "seek_send", "seek_sense", "recal_send", "recal_sense",
        "block_next", "read_send", "read_result", "copy",
        "off_ticks", "off_state", "deinit",
        "reset_off", "reset_on", "reset_wait", "wait", "wait_exit", "wait_dec"}

-----------------------------------------------------------------------------
(* The controller. *)

(* The bytes of a command sent while it is not idle are lost. *)
Send(c) ==
    IF ctl = "idle"
    THEN ctl' = "busy" /\ cmd' = c /\ UNCHANGED <<status, dead, dma>>
    ELSE UNCHANGED controller

(* A drive whose motor is off gives no index pulse, so that a read of it    *)
(* never ends; and only a sector of the disk can be read well.              *)
Readable(o) ==
    /\ cmd.drive \in dor.motors
    /\ o = "ok" => cmd.block < N_BLOCKS

EndRead ==
    /\ cmd.op = "read"
    /\ \E o \in Outcomes :
          /\ Readable(o)
          /\ status' = o
          /\ dma' = IF o = "ok" THEN [drive |-> cmd.drive, block |-> cmd.block] ELSE dma
    /\ ctl' = "result"
    /\ UNCHANGED cmd

EndMove ==
    /\ cmd.op \in {"seek", "recalibrate"}
    /\ ctl' = "idle"
    /\ cmd' = NoCommand
    /\ UNCHANGED <<status, dma>>

Answer ==
    /\ ctl = "busy" /\ ~dead
    /\ EndRead \/ EndMove
    /\ UNCHANGED dead

ResetDone ==
    /\ ctl = "resetting" /\ ~dead
    /\ ctl' = "idle"
    /\ UNCHANGED <<cmd, status, dead, dma>>

fd_irq_handler ==
    irq_waiting' = IF installed = "nothing" THEN irq_waiting ELSE (irq_waiting + 1) % 256

(* panic() turns the interrupts off for good. *)
Interrupt ==
    /\ pc # "panic"
    /\ Answer \/ ResetDone
    /\ fd_irq_handler
    /\ UNCHANGED <<motors, block, installed, pc, request, dor_reg, calls>>

-----------------------------------------------------------------------------
(* The timer task. *)

Expired(ticks) == ticks <= 0

Waiting == {d \in {0, 1} : motor_state[d] = FD_MOTOR_WAIT}

(* motor_ticks is a uint16_t. *)
Elapsed(d) == (motor_ticks[d] - 50) % 65536

Killed == {d \in Waiting : Expired(Elapsed(d))}

(* Mutant: the state is cleared, and the bit of the motor is not. *)
fd_motor_kill_StateOnly(drives) ==
    /\ dor' = dor
    /\ motor_state' = [d \in {0, 1} |->
                          IF d \in drives THEN FD_MOTOR_OFF ELSE motor_state[d]]

fd_motor_kill(drives) ==
    /\ dor' = [dor EXCEPT !.motors = @ \ drives]
    /\ motor_state' = [d \in {0, 1} |->
                          IF d \in drives THEN FD_MOTOR_OFF ELSE motor_state[d]]

fd_timer ==
    /\ installed = "timer" /\ pc # "panic"
    /\ Waiting # {}
    /\ motor_ticks' = [d \in {0, 1} |->
                          IF d \in Waiting THEN Elapsed(d) ELSE motor_ticks[d]]
    /\ fd_motor_kill(Killed)
    /\ UNCHANGED <<controller, irq_waiting, block, installed, pc, request, dor_reg, calls>>

-----------------------------------------------------------------------------
(* fd_wait_irq(timeout): called with wait_for set.  A controller that is    *)
(* not LATE answers within the timeout or never.                            *)

Wait(who) == pc' = "wait" /\ wait_for' = who

WaitLoop ==
    /\ pc = "wait"
    /\ dead' = (dead \/ (irq_waiting = 0 /\ ~LATE /\ ctl \in {"busy", "resetting"}))
    /\ pc' = "wait_exit"
    /\ UNCHANGED <<ctl, cmd, status, dma, irq_waiting, motors, block, installed, request,
                   dor_reg, calls>>

AfterInterrupt ==
    CASE wait_for = "seek"        -> "seek_sense"
      [] wait_for = "recalibrate" -> "recal_sense"
      [] wait_for = "read"        -> "read_result"
      [] wait_for = "reset"       -> reset_from

WaitSucceeds ==
    /\ pc = "wait_exit"
    /\ irq_waiting > 0
    /\ irq_reg' = irq_waiting
    /\ pc' = "wait_dec"
    /\ UNCHANGED <<controller, irq_waiting, motors, block, installed, request, dor_reg,
                   wait_for, reset_from>>

(* Mutant: the interrupt is not counted off. *)
Decremented_Not == irq_reg

Decremented == irq_reg - 1

WaitDecrement ==
    /\ pc = "wait_dec"
    /\ irq_waiting' = Decremented
    /\ irq_reg' = 0
    /\ pc' = AfterInterrupt
    /\ UNCHANGED <<controller, motors, block, installed, request, dor_reg, wait_for,
                   reset_from>>

(* Mutant: a request that gives up does not go through fd_motor(OFF).       *)
AfterTimeout_NoMotorOff ==
    CASE wait_for = "reset" -> reset_from
      [] wait_for = "read"  -> "reset_off"
      [] OTHER              -> "idle"

(* A failed reset is ignored by every caller; a read that times out resets  *)
(* the controller; a recalibration that times out does not.                 *)
AfterTimeout ==
    CASE wait_for = "reset" -> reset_from
      [] wait_for = "read"  -> "reset_off"
      [] OTHER              -> "off_ticks"

WaitTimesOut ==
    /\ pc = "wait_exit"
    /\ irq_waiting = 0
    /\ pc' = AfterTimeout
    /\ reset_from' = IF wait_for = "read" THEN "off_ticks" ELSE reset_from
    /\ result' = IF wait_for = "reset" THEN result ELSE "fail"
    /\ UNCHANGED <<controller, irq_waiting, motors, block, installed, fd, left, buf, tries,
                   dor_reg, irq_reg, wait_for>>

-----------------------------------------------------------------------------
(* fd_reset: called with reset_from set. *)

ResetOff ==
    /\ pc = "reset_off"
    /\ dor' = NoDor
    /\ ctl' = "off"
    /\ cmd' = NoCommand /\ status' = "ok" /\ dead' = FALSE
    /\ pc' = "reset_on"
    /\ UNCHANGED <<dma, irq_waiting, motor_state, motor_ticks, block, installed,
                   request, dor_reg, calls>>

ResetOn ==
    /\ pc = "reset_on"
    /\ dor' = NoDor
    /\ ctl' = "resetting"
    /\ pc' = "reset_wait"
    /\ UNCHANGED <<cmd, status, dead, dma, irq_waiting, motor_state, motor_ticks, block,
                   installed, request, dor_reg, calls>>

ResetWait ==
    /\ pc = "reset_wait"
    /\ Wait("reset")
    /\ UNCHANGED <<controller, irq_waiting, motors, block, installed, request, dor_reg,
                   irq_reg, reset_from>>

-----------------------------------------------------------------------------
(* fd_init and fd_deinit. *)

CheckVersion ==
    /\ pc = "init"
    /\ \/ pc' = "absent" /\ UNCHANGED <<installed, reset_from>>
       \/ pc' = "reset_off" /\ installed' = "handler" /\ reset_from' = "configure"
    /\ UNCHANGED <<controller, irq_waiting, motors, block, request, dor_reg, irq_reg,
                   wait_for>>

(* Mutant: fd_timer is never registered. *)
ConfigureAndRegister_NoTimer ==
    /\ pc = "configure"
    /\ pc' \in {"absent", "idle"}
    /\ UNCHANGED <<controller, irq_waiting, motors, block, installed, request, dor_reg, calls>>

(* Only a controller that came out of its reset confirms the lock.          *)
ConfigureAndRegister ==
    /\ pc = "configure"
    /\ \/ pc' = "absent" /\ UNCHANGED installed
       \/ ctl = "idle" /\ pc' = "idle" /\ installed' = "timer"
    /\ UNCHANGED <<controller, irq_waiting, motors, block, request, dor_reg, calls>>

(* The module is destroyed whether or not its initialiser succeeded.  The   *)
(* first write goes to port 0x3F0, which is not the DOR and is read-only.   *)
fd_deinit ==
    /\ pc \in {"idle", "absent"}
    /\ pc' = "deinit"
    /\ UNCHANGED <<controller, irq_waiting, motors, block, installed, request, dor_reg, calls>>

DeinitReset ==
    /\ pc = "deinit"
    /\ pc' = "reset_off"
    /\ reset_from' = "done"
    /\ UNCHANGED <<controller, irq_waiting, motors, block, installed, request, dor_reg,
                   irq_reg, wait_for>>

-----------------------------------------------------------------------------
(* fd_seek: a new position within the device. *)

NewBlock(d, offset, whence) ==
    CASE whence = "SET" -> offset
      [] whence = "CUR" -> block[d] + offset
      [] whence = "END" -> N_BLOCKS + offset

Beyond(b) == b < 0 \/ b >= N_BLOCKS       \* the sum is unsigned

fd_seek(d, offset, whence) ==
    /\ pc = "idle"
    /\ ~Beyond(NewBlock(d, offset, whence))
    /\ block' = [block EXCEPT ![d] = NewBlock(d, offset, whence)]
    /\ UNCHANGED <<controller, irq_waiting, motors, installed, pc, request, dor_reg, calls>>

-----------------------------------------------------------------------------
(* fd_read: fd_activate, the blocks, fd_deactivate. *)

fd_read(d, nblocks) ==
    /\ pc = "idle"
    /\ fd' = d
    /\ left' = nblocks
    /\ buf' = <<>>
    /\ result' = "ok"
    /\ tries' = 0
    /\ pc' = "select_read"
    /\ UNCHANGED <<controller, irq_waiting, motors, block, installed, dor_reg, calls>>

local == <<irq_waiting, block, installed, request, calls>>

SelectRead ==
    /\ pc = "select_read"
    /\ dor_reg' = dor
    /\ pc' = "select_write"
    /\ UNCHANGED <<controller, motors, local>>

SelectWrite ==
    /\ pc = "select_write"
    /\ dor' = [dor_reg EXCEPT !.select = fd]
    /\ dor_reg' = NoDor
    /\ pc' = "motor_test"
    /\ UNCHANGED <<controller, motor_state, motor_ticks, local>>

(* fd_motor(fd, FD_MOTOR_ON) *)
MotorTest ==
    /\ pc = "motor_test"
    /\ pc' = IF motor_state[fd] = FD_MOTOR_OFF THEN "motor_read" ELSE "motor_set"
    /\ UNCHANGED <<controller, motors, dor_reg, local>>

MotorRead ==
    /\ pc = "motor_read"
    /\ dor_reg' = dor
    /\ pc' = "motor_write"
    /\ UNCHANGED <<controller, motors, local>>

MotorWrite ==
    /\ pc = "motor_write"
    /\ dor' = [dor_reg EXCEPT !.motors = @ \cup {fd}]
    /\ dor_reg' = NoDor
    /\ pc' = "spin_up"
    /\ UNCHANGED <<controller, motor_state, motor_ticks, local>>

SpinUp ==
    /\ pc = "spin_up"
    /\ pc' = "motor_set"
    /\ UNCHANGED <<controller, motors, dor_reg, local>>

MotorSet ==
    /\ pc = "motor_set"
    /\ motor_state' = [motor_state EXCEPT ![fd] = FD_MOTOR_ON]
    /\ pc' = "test_change"
    /\ UNCHANGED <<controller, dor, motor_ticks, dor_reg, local>>

TestChange ==
    /\ pc = "test_change"
    /\ pc' \in {"seek_send", "block_next"}
    /\ UNCHANGED <<controller, motors, dor_reg, local>>

(* fd_recalibrate.  fd_wait_ready before the first command is not tested.   *)
SeekSend ==
    /\ pc = "seek_send"
    /\ Send([op |-> "seek", drive |-> fd, block |-> 0])
    /\ Wait("seek")
    /\ UNCHANGED <<irq_waiting, motors, block, installed, request, dor_reg, irq_reg, reset_from>>

(* fd_check_interrupt: an error if the controller does not become ready.    *)
(* The status after it: the cylinder reached, and the flags of st0.         *)
MainStatusReady == ctl \in {"idle", "result"}

(* Mutant: the attempts are not counted. *)
NextTry_Same == tries

NextTry == tries + 1

Fail == pc' = "off_ticks" /\ result' = "fail" /\ UNCHANGED tries

SeekSense ==
    /\ pc = "seek_sense"
    /\ \/ ~MainStatusReady /\ Fail
       \/ \E cyl \in {0, 1} :
             /\ MainStatusReady
             /\ IF cyl # 1 THEN Fail
                ELSE pc' = "recal_send" /\ tries' = 0 /\ UNCHANGED result
    /\ UNCHANGED <<controller, irq_waiting, motors, block, installed, fd, left, buf, dor_reg,
                   calls>>

RecalSend ==
    /\ pc = "recal_send"
    /\ IF tries = RECAL_TRIES
       THEN Fail /\ UNCHANGED <<controller, wait_for>>
       ELSE /\ Send([op |-> "recalibrate", drive |-> fd, block |-> 0])
            /\ Wait("recalibrate")
            /\ tries' = NextTry
            /\ UNCHANGED result
    /\ UNCHANGED <<irq_waiting, motors, block, installed, fd, left, buf, dor_reg,
                   irq_reg, reset_from>>

RecalSense ==
    /\ pc = "recal_sense"
    /\ \/ ~MainStatusReady /\ Fail
       \/ \E flagged \in BOOLEAN, cyl \in {0, 1} :
             /\ MainStatusReady
             /\ pc' = IF ~flagged /\ cyl = 0 THEN "block_next" ELSE "recal_send"
             /\ UNCHANGED <<result, tries>>
    /\ UNCHANGED <<controller, irq_waiting, motors, block, installed, fd, left, buf, dor_reg,
                   calls>>

BlockNext ==
    /\ pc = "block_next"
    /\ pc' = IF left = 0 THEN "off_ticks" ELSE "read_send"
    /\ tries' = 0
    /\ UNCHANGED <<controller, irq_waiting, motors, block, installed, fd, left, buf, result,
                   dor_reg, calls>>

(* fd_block2hcs: the geometrical address of a block. *)
fd_block2hcs(b) ==
    [cyl    |-> b \div (SPT * HEADS),
     head   |-> (b % (SPT * HEADS)) \div SPT,
     sector |-> (b % SPT) + 1]

(* External: the sector the drive finds there. *)
SectorAt(a) == (a.cyl * HEADS + a.head) * SPT + a.sector - 1

(* fd_rw_block. *)
ReadSend ==
    /\ pc = "read_send"
    /\ IF tries = RW_TRIES
       THEN Fail /\ UNCHANGED <<controller, wait_for>>
       ELSE /\ Send([op |-> "read", drive |-> fd, block |-> SectorAt(fd_block2hcs(block[fd]))])
            /\ Wait("read")
            /\ tries' = NextTry
            /\ UNCHANGED result
    /\ UNCHANGED <<irq_waiting, motors, block, installed, fd, left, buf, dor_reg,
                   irq_reg, reset_from>>

(* The status bytes of a controller that has none to give are arbitrary.    *)
Received == IF ctl = "result" THEN {status} ELSE Outcomes

(* Mutant: an error of the drive is taken for success. *)
AfterStatus_IgnoresError(o) == IF o = "abnormal" THEN "panic" ELSE "copy"

AfterStatus(o) ==
    CASE o = "ok"       -> "copy"
      [] o = "error"    -> "read_send"
      [] o = "abnormal" -> "panic"

ReadResult ==
    /\ pc = "read_result"
    /\ \E o \in Received : pc' = AfterStatus(o)
    /\ IF ctl = "result"
       THEN ctl' = "idle" /\ cmd' = NoCommand /\ status' = "ok"
       ELSE UNCHANGED <<ctl, cmd, status>>
    /\ UNCHANGED <<dead, dma, motors, dor_reg, local>>

Copy ==
    /\ pc = "copy"
    /\ buf' = Append(buf, dma)
    /\ block' = [block EXCEPT ![fd] = @ + 1]
    /\ left' = left - 1
    /\ pc' = "block_next"
    /\ UNCHANGED <<controller, irq_waiting, motors, installed, fd, result, tries, dor_reg, calls>>

(* fd_motor(fd, FD_MOTOR_OFF) *)
(* Mutant: the state is stored before the ticks. *)
OffTicks_StateFirst ==
    /\ pc = "off_ticks"
    /\ motor_state' = [motor_state EXCEPT ![fd] = FD_MOTOR_WAIT]
    /\ pc' = "off_state"
    /\ UNCHANGED <<controller, dor, motor_ticks, dor_reg, local>>

OffTicks ==
    /\ pc = "off_ticks"
    /\ motor_ticks' = [motor_ticks EXCEPT ![fd] = SPIN_DOWN]
    /\ pc' = "off_state"
    /\ UNCHANGED <<controller, dor, motor_state, dor_reg, local>>

OffState ==
    /\ pc = "off_state"
    /\ motor_state' = [motor_state EXCEPT ![fd] = FD_MOTOR_WAIT]
    /\ pc' = "idle"
    /\ fd' = 0 /\ left' = 0 /\ buf' = <<>> /\ result' = "ok" /\ tries' = 0
    /\ UNCHANGED <<controller, irq_waiting, dor, motor_ticks, block, installed, dor_reg, calls>>

-----------------------------------------------------------------------------
Init ==
    /\ ctl = "idle" /\ cmd = NoCommand /\ status = "ok" /\ dead = FALSE
    /\ dma = NoSector
    /\ irq_waiting = 0
    /\ dor = NoDor
    /\ motor_state = [d \in {0, 1} |-> FD_MOTOR_OFF]
    /\ motor_ticks = [d \in {0, 1} |-> 0]
    /\ block = [d \in {0, 1} |-> 0]
    /\ installed = "nothing"
    /\ pc = "init"
    /\ fd = 0 /\ left = 0 /\ buf = <<>> /\ result = "ok" /\ tries = 0
    /\ dor_reg = NoDor
    /\ irq_reg = 0
    /\ wait_for = "reset" /\ reset_from = "configure"

Request ==
    \/ \E d \in DRIVES, n \in 0..MAX_READ : fd_read(d, n)
    \/ \E d \in DRIVES, off \in -N_BLOCKS..N_BLOCKS, w \in {"SET", "CUR", "END"} :
          fd_seek(d, off, w)
    \/ fd_deinit

Setup == CheckVersion \/ ConfigureAndRegister \/ DeinitReset

WaitIrq == WaitLoop \/ WaitSucceeds \/ WaitDecrement \/ WaitTimesOut

Reset == ResetOff \/ ResetOn \/ ResetWait

Activate ==
    \/ SelectRead \/ SelectWrite \/ MotorTest \/ MotorRead \/ MotorWrite \/ SpinUp
    \/ MotorSet \/ TestChange

Recalibrate == SeekSend \/ SeekSense \/ RecalSend \/ RecalSense

Transfer == BlockNext \/ ReadSend \/ ReadResult \/ Copy

Deactivate == OffTicks \/ OffState

Main == Setup \/ WaitIrq \/ Reset \/ Activate \/ Recalibrate \/ Transfer \/ Deactivate

Next == Interrupt \/ fd_timer \/ Request \/ Main

Spec == Init /\ [][Next]_vars

(* The main thread runs whenever it has something to do, and the timer      *)
(* keeps calling its tasks; the controller need not answer.                 *)
FairSpec == Spec /\ WF_vars(Main) /\ WF_vars(fd_timer)

-----------------------------------------------------------------------------
TypeOK ==
    /\ ctl \in {"idle", "busy", "result", "off", "resetting"}
    /\ cmd \in [op : Commands \cup {"none"}, drive : {0, 1}, block : Nat]
    /\ status \in Outcomes
    /\ dead \in BOOLEAN
    /\ dma \in Sector \cup {NoSector}
    /\ irq_waiting \in uint8_t
    /\ dor \in [select : {0, 1}, motors : SUBSET {0, 1}]
    /\ motor_state \in [{0, 1} -> {FD_MOTOR_OFF, FD_MOTOR_ON, FD_MOTOR_WAIT}]
    /\ motor_ticks \in [{0, 1} -> uint16_t]
    /\ block \in [{0, 1} -> Nat]
    /\ installed \in {"nothing", "handler", "timer"}
    /\ pc \in PCs
    /\ fd \in {0, 1}
    /\ left \in 0..MAX_READ
    /\ buf \in Seq(Sector \cup {NoSector})
    /\ result \in {"ok", "fail"}
    /\ tries \in Nat
    /\ dor_reg \in [select : {0, 1}, motors : SUBSET {0, 1}]
    /\ irq_reg \in uint8_t
    /\ wait_for \in Commands \cup {"reset"}
    /\ reset_from \in {"configure", "off_ticks", "done"}

AtRest == pc \in {"idle", "deinit", "done"}

(* Whatever way a request ends, by success, by an error of the drive, by a  *)
(* failed recalibration or by a timeout and a reset, no motor is left in    *)
(* the state in which fd_timer would never look at it.                      *)
NoMotorLeftOn == AtRest => \A d \in {0, 1} : motor_state[d] # FD_MOTOR_ON

(* A motor that waits to be stopped has a whole number of periods to go, so *)
(* that the unsigned countdown hits zero and never wraps below it, although *)
(* ticks and state are stored by two statements fd_timer can come between.  *)
CountdownExact ==
    \A d \in {0, 1} : motor_state[d] = FD_MOTOR_WAIT =>
        motor_ticks[d] \in {50 * k : k \in 1..(SPIN_DOWN \div 50)}

(* The driver at rest knows about every running motor: a motor in state OFF *)
(* is off in the DOR too, although fd_timer may clear its bit between the   *)
(* statements of fd_activate that read and write the register.              *)
OffIsOff ==
    AtRest => \A d \in {0, 1} : motor_state[d] = FD_MOTOR_OFF => d \notin dor.motors

(* A result is read, or an interrupt sensed, only after the controller is   *)
(* done with the command: the interrupt that fd_wait_irq saw belongs to it. *)
ResultIsReady ==
    /\ pc \in {"seek_sense", "recal_sense"} => ctl = "idle"
    /\ pc = "read_result" =>
          ctl = "result" /\ cmd = [op |-> "read", drive |-> fd, block |-> block[fd]]

(* What fd_read has copied when it returns are the blocks it was asked for, *)
(* in order, up to the position it leaves: through errors, retries and      *)
(* recalibrations.                                                          *)
ReadsBlocks ==
    pc = "off_ticks" =>
        \A i \in 1..Len(buf) :
            buf[i] = [drive |-> fd, block |-> (block[fd] - Len(buf)) + (i - 1)]

(* Every request comes back to its caller or panics: the waits time out and *)
(* the retries are counted.                                                 *)
RequestEnds == pc = "select_read" ~> pc \in {"idle", "panic"}

(* A motor that turns while the driver is idle is stopped, unless another   *)
(* request comes first.                                                     *)
MotorStops ==
    \A d \in {0, 1} : (pc = "idle" /\ d \in dor.motors) ~> (pc # "idle" \/ d \notin dor.motors)

-----------------------------------------------------------------------------
(* floppy.h:111 of fd_motor_kill: "Kills the floppy motor".  With two       *)
(* drives, a motor killed stays off until it is asked for.                  *)
KilledStaysOff ==
    AtRest => \A d \in DRIVES : motor_state[d] = FD_MOTOR_OFF => d \notin dor.motors
=============================================================================
