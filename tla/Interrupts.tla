----------------------------- MODULE Interrupts -----------------------------
(***************************************************************************)
(* Interrupt delivery: idt.c, idt.S, irq.c and irq.S, with the main thread   *)
(* that sets them up (main.c, timer_init, the module initialisers) and, for *)
(* chainload, takes them down again (chainload.S).                          *)
(*                                                                         *)
(* External: the two 8259A interrupt controllers, the CPU's acceptance of   *)
(* an interrupt, the devices, and the output buffer of the keyboard         *)
(* controller, which asks for IRQ 1 once per byte and holds the next byte   *)
(* back until port 0x60 is read.                                            *)
(*                                                                         *)
(* Abstracted: the stack frame is the pair the stub pushes; the sequence    *)
(* ICW1..ICW4 and masks, written with interrupts off, is one step; a        *)
(* handler takes less time than the period of any device, so that a line    *)
(* comes again only after the CPU went back to the main thread with nothing *)
(* to serve.                                                                *)
(***************************************************************************)
EXTENDS Integers, FiniteSets

CONSTANTS
    LINES,         \* the IRQ lines devices use; line 2 is the slave's
    EXCEPTIONS,    \* the CPU exceptions that may happen
    BIOS_MASK,     \* the masks the BIOS leaves in the two controllers
    EARLY_KEYS     \* a key may be pressed before kb_init

ASSUME LineAssumption == LINES \subseteq (0..15) \ {2} /\ 0 \in LINES
ASSUME ExceptionAssumption == EXCEPTIONS \subseteq 0..31
ASSUME MaskAssumption ==
    /\ BIOS_MASK \in [{"master", "slave"} -> SUBSET (0..7)]
    /\ 0 \notin BIOS_MASK["master"]
ASSUME KeyAssumption == EARLY_KEYS \in BOOLEAN

KB_IRQ == 1

VARIABLES
    pic,           \* external: the controllers
    saved,         \* master_mask and slave_mask
    idt,           \* the gates present, and the stub of each
    irq_routines,  \* the installed handlers
    enabled,       \* external: the interrupt flag of the CPU
    cpu,           \* who runs: the main thread, or a phase of irq_handler
    frame,         \* the line accepted, and what its stub pushed
    pc,            \* how far the main thread is
    kbd_full,      \* external: the keyboard's output buffer holds a byte
    ticked,        \* timer_handler ran since sleep was called
    served         \* external: lines served since the CPU was last quiet

tables == <<saved, idt, irq_routines>>
vars == <<pic, saved, idt, irq_routines, enabled, cpu, frame, pc, kbd_full, ticked, served>>

Controllers == {"master", "slave"}
Handlers    == {"none", "timer_handler", "kb_handler", "fd_irq_handler"}
NoFrame     == [line |-> -1, stub |-> "none", int_no |-> 0]

-----------------------------------------------------------------------------
(* The controllers. *)

Lowest(S) == CHOOSE n \in S : \A m \in S : n <= m

(* The requests of a controller that are not masked nor of a lower or equal *)
(* priority than one in service.                                            *)
Unblocked(c, requests) ==
    {n \in requests \ pic[c].imr : \A k \in pic[c].isr : n < k}

SlaveRequests == Unblocked("slave", pic["slave"].irr)

MasterRequests ==
    Unblocked("master", pic["master"].irr \cup (IF SlaveRequests # {} THEN {2} ELSE {}))

Cascaded == Lowest(MasterRequests) = 2

AcceptedLine ==
    IF Cascaded THEN 8 + Lowest(SlaveRequests) ELSE Lowest(MasterRequests)

AcceptedVector ==
    IF Cascaded THEN pic["slave"].base + Lowest(SlaveRequests)
    ELSE pic["master"].base + Lowest(MasterRequests)

Taken(p, n) == [p EXCEPT !.irr = @ \ {n}, !.isr = @ \cup {n}]

Acknowledged ==
    IF Cascaded
    THEN [pic EXCEPT !["master"] = Taken(@, 2),
                     !["slave"]  = Taken(@, Lowest(SlaveRequests))]
    ELSE [pic EXCEPT !["master"] = Taken(@, Lowest(MasterRequests))]

Controller(line) == IF line < 8 THEN "master" ELSE "slave"

Request(line) ==
    pic' = [pic EXCEPT ![Controller(line)].irr = @ \cup {line % 8}]

Raise(line) ==
    /\ pc # "real" /\ cpu # "panic"
    /\ line # KB_IRQ
    /\ line \notin served /\ line % 8 \notin pic[Controller(line)].irr
    /\ Request(line)
    /\ UNCHANGED <<tables, enabled, cpu, frame, pc, kbd_full, ticked, served>>

Press ==
    /\ pc # "real" /\ cpu # "panic"
    /\ EARLY_KEYS \/ irq_routines[KB_IRQ] # "none"
    /\ ~kbd_full /\ KB_IRQ \notin served
    /\ kbd_full' = TRUE
    /\ Request(KB_IRQ)
    /\ UNCHANGED <<tables, enabled, cpu, frame, pc, ticked, served>>

Quiet ==
    /\ cpu = "main" /\ enabled /\ MasterRequests = {}
    /\ served # {}
    /\ served' = {}
    /\ UNCHANGED <<pic, tables, enabled, cpu, frame, pc, kbd_full, ticked>>

-----------------------------------------------------------------------------
(* The stubs, which turn interrupts off (the gates do too). *)

Isr(v)    == [stub |-> "isr", int_no |-> v]
Irq(line) == [stub |-> "irq", int_no |-> 32 + line]

Enter(line, stub) ==
    /\ enabled' = FALSE
    /\ frame' = [line |-> line, stub |-> stub.stub, int_no |-> stub.int_no]
    /\ cpu' = IF stub.stub = "irq" THEN "irq_handler" ELSE "panic"

(* A vector without a gate resets the machine: there is no such step, and   *)
(* the main thread would stop.                                              *)
Accept ==
    /\ cpu = "main" /\ enabled
    /\ MasterRequests # {}
    /\ AcceptedVector \in DOMAIN idt
    /\ Enter(AcceptedLine, idt[AcceptedVector])
    /\ pic' = Acknowledged
    /\ served' = served \cup {AcceptedLine}
    /\ UNCHANGED <<tables, pc, kbd_full, ticked>>

(* isr_base_handler panics on every exception. *)
Exception(v) ==
    /\ cpu = "main" /\ pc # "real"
    /\ v \in DOMAIN idt
    /\ Enter(-1, idt[v])
    /\ UNCHANGED <<pic, tables, pc, kbd_full, ticked, served>>

(* irq_handler: the routine of the line, if there is one.                   *)
CallRoutine ==
    /\ cpu = "irq_handler"
    /\ LET routine == irq_routines[frame.int_no - 32] IN
          /\ kbd_full' = (kbd_full /\ routine # "kb_handler")
          /\ ticked'   = (ticked \/ routine = "timer_handler")
    /\ cpu' = "eoi"
    /\ UNCHANGED <<pic, tables, enabled, frame, pc, served>>

Completed(p) == [p EXCEPT !.isr = IF @ = {} THEN {} ELSE @ \ {Lowest(@)}]

(* Mutant: no command is written. *)
EndOfInterrupt_None ==
    /\ cpu = "eoi"
    /\ cpu' = "mask"
    /\ UNCHANGED <<pic, tables, enabled, frame, pc, kbd_full, ticked, served>>

EndOfInterrupt ==
    /\ cpu = "eoi"
    /\ pic' = [pic EXCEPT !["master"] = Completed(@)]
    /\ cpu' = "mask"
    /\ UNCHANGED <<tables, enabled, frame, pc, kbd_full, ticked, served>>

(* Mutant: the second write does not reach the mask. *)
MaskAndReturn_NoMask ==
    /\ cpu = "mask"
    /\ enabled' = TRUE
    /\ frame' = NoFrame
    /\ cpu' = "main"
    /\ UNCHANGED <<pic, tables, pc, kbd_full, ticked, served>>

(* The second write goes to the data port: it is a mask.  Then sti, iret.   *)
MaskAndReturn ==
    /\ cpu = "mask"
    /\ pic' = [pic EXCEPT !["master"].imr = {5}]
    /\ enabled' = TRUE
    /\ frame' = NoFrame
    /\ cpu' = "main"
    /\ UNCHANGED <<tables, pc, kbd_full, ticked, served>>

-----------------------------------------------------------------------------
(* The main thread. *)

Main(from, to) == cpu = "main" /\ pc = from /\ pc' = to

idt_install ==
    /\ Main("idt", "irq")
    /\ idt' = [v \in 0..31 |-> Isr(v)]
    /\ UNCHANGED <<pic, saved, irq_routines, enabled, cpu, frame, kbd_full, ticked, served>>

(* ICW1 clears requests, services and masks. *)
Initialised(base, mask) == [irr |-> {}, isr |-> {}, imr |-> mask, base |-> base]

(* Mutant: the slave is given the master's vectors. *)
irq_remap_SameBase ==
    /\ saved' = [c \in Controllers |-> pic[c].imr]
    /\ pic' = [c \in Controllers |-> Initialised(32, pic[c].imr)]

irq_remap ==
    /\ saved' = [c \in Controllers |-> pic[c].imr]
    /\ pic' = [c \in Controllers |->
                  Initialised(IF c = "master" THEN 32 ELSE 40, pic[c].imr)]

irq_install ==
    /\ Main("irq", "timer")
    /\ irq_remap
    /\ idt' = [v \in DOMAIN idt \cup 32..47 |->
                  IF v \in 32..47 THEN Irq(v - 32) ELSE idt[v]]
    /\ UNCHANGED <<irq_routines, enabled, cpu, frame, kbd_full, ticked, served>>

irq_install_handler(line, routine) ==
    irq_routines' = [irq_routines EXCEPT ![line] = routine]

timer_init ==
    /\ Main("timer", "sti")
    /\ irq_install_handler(0, "timer_handler")
    /\ UNCHANGED <<pic, saved, idt, enabled, cpu, frame, kbd_full, ticked, served>>

EnableInterrupts ==
    /\ Main("sti", "fd_init")
    /\ enabled' = TRUE
    /\ UNCHANGED <<pic, tables, cpu, frame, kbd_full, ticked, served>>

(* mod_init_all: fd_init before kb_init, in link order.  fd_init installs   *)
(* nothing when there is no controller.                                     *)
fd_init ==
    /\ Main("fd_init", "kb_init")
    /\ irq_install_handler(6, "fd_irq_handler") \/ UNCHANGED irq_routines
    /\ UNCHANGED <<pic, saved, idt, enabled, cpu, frame, kbd_full, ticked, served>>

kb_init ==
    /\ Main("kb_init", "cli")
    /\ irq_install_handler(KB_IRQ, "kb_handler")
    /\ UNCHANGED <<pic, saved, idt, enabled, cpu, frame, kbd_full, ticked, served>>

(* Mutant: interrupts are turned off before the modules are destroyed. *)
Chainload_CliFirst ==
    /\ Main("cli", "sleep")
    /\ ticked' = FALSE
    /\ enabled' = FALSE
    /\ UNCHANGED <<pic, tables, cpu, frame, kbd_full, served>>

(* The command chainload, chainload_asm: mod_destroy_all sleeps, and needs  *)
(* the timer for it.                                                        *)
Chainload ==
    /\ Main("cli", "sleep")
    /\ ticked' = FALSE
    /\ UNCHANGED <<pic, tables, enabled, cpu, frame, kbd_full, served>>

SleepEnds ==
    /\ Main("sleep", "disable")
    /\ ticked
    /\ UNCHANGED <<pic, tables, enabled, cpu, frame, kbd_full, ticked, served>>

DisableInterrupts ==
    /\ Main("disable", "irq_uninstall")
    /\ enabled' = FALSE
    /\ UNCHANGED <<pic, tables, cpu, frame, kbd_full, ticked, served>>

(* Mutant: the masks are read back from the controllers. *)
irq_uninstall_CurrentMask ==
    /\ Main("irq_uninstall", "real")
    /\ pic' = [c \in Controllers |->
                  Initialised(IF c = "master" THEN 8 ELSE 112, pic[c].imr)]
    /\ UNCHANGED <<tables, enabled, cpu, frame, kbd_full, ticked, served>>

irq_uninstall ==
    /\ Main("irq_uninstall", "real")
    /\ pic' = [c \in Controllers |->
                  Initialised(IF c = "master" THEN 8 ELSE 112, saved[c])]
    /\ UNCHANGED <<tables, enabled, cpu, frame, kbd_full, ticked, served>>

-----------------------------------------------------------------------------
(* What the boot sector and stage2.S leave: a cli, and the BIOS set-up.     *)
Init ==
    /\ pic = [c \in Controllers |->
                 Initialised(IF c = "master" THEN 8 ELSE 112, BIOS_MASK[c])]
    /\ saved = [c \in Controllers |-> {}]
    /\ idt = [v \in {} |-> Isr(0)]
    /\ irq_routines = [line \in 0..15 |-> "none"]
    /\ enabled = FALSE
    /\ cpu = "main"
    /\ frame = NoFrame
    /\ pc = "idt"
    /\ kbd_full = FALSE
    /\ ticked = FALSE
    /\ served = {}

Device == Press \/ \E line \in LINES : Raise(line)

IrqHandler == CallRoutine \/ EndOfInterrupt \/ MaskAndReturn

Boot == idt_install \/ irq_install \/ timer_init \/ EnableInterrupts \/ fd_init \/ kb_init

Leave == SleepEnds \/ DisableInterrupts \/ irq_uninstall

Next ==
    \/ Device \/ Quiet
    \/ Accept \/ IrqHandler
    \/ \E v \in EXCEPTIONS : Exception(v)
    \/ Boot \/ Chainload \/ Leave

Spec == Init /\ [][Next]_vars

(* The CPU accepts interrupts and runs their handlers; it runs the main     *)
(* thread between them; the timer keeps ticking.                            *)
FairSpec ==
    /\ Spec
    /\ WF_vars(Accept) /\ WF_vars(IrqHandler) /\ WF_vars(Quiet)
    /\ SF_vars(Boot \/ Leave)
    /\ WF_vars(Raise(0))

-----------------------------------------------------------------------------
Inputs == 0..7

Pics == [irr : SUBSET Inputs, isr : SUBSET Inputs, imr : SUBSET Inputs, base : Nat]

Phases == {"idt", "irq", "timer", "sti", "fd_init", "kb_init", "cli", "sleep", "disable",
           "irq_uninstall", "real"}

TypeOK ==
    /\ pic \in [Controllers -> Pics] /\ saved \in [Controllers -> SUBSET Inputs]
    /\ irq_routines \in [0..15 -> Handlers]
    /\ enabled \in BOOLEAN /\ kbd_full \in BOOLEAN /\ ticked \in BOOLEAN
    /\ cpu \in {"main", "irq_handler", "eoi", "mask", "panic"}
    /\ pc \in Phases
    /\ served \subseteq 0..15

(* An interrupt runs the stub and so the routine of the line that asked for *)
(* it, of whichever controller, and is never taken for a CPU exception:     *)
(* from the remapping before sti to the cli before the mapping is undone.   *)
OwnRoutine ==
    /\ frame.line >= 0 => frame.stub = "irq" /\ frame.int_no - 32 = frame.line
    /\ cpu = "main" /\ enabled /\ MasterRequests # {} => AcceptedVector \in DOMAIN idt

(* Between two interrupts the master has none in service, so that it blocks *)
(* no line, and never more than one, so that the command without a line     *)
(* number completes the one that was served.                                *)
MasterReleased ==
    /\ Cardinality(pic["master"].isr) <= 1
    /\ cpu = "main" => pic["master"].isr = {}

(* The boot sector chainloaded finds the controllers as the BIOS set them   *)
(* up: irq_handler has overwritten the mask in the meantime, but not the    *)
(* saved one.                                                               *)
RestoredForBios ==
    pc = "real" =>
        /\ ~enabled
        /\ pic = [c \in Controllers |->
                     Initialised(IF c = "master" THEN 8 ELSE 112, BIOS_MASK[c])]

(* A request of a device that has a driver is served, unless the remapping  *)
(* wipes it out, whatever the other devices do and even if the BIOS left    *)
(* its line masked.                                                         *)
DriverLinesServed ==
    \A line \in {0, KB_IRQ, 6} :
        line \in pic["master"].irr ~> (line \notin pic["master"].irr \/ cpu = "panic")

(* Once asked to, the system leaves for the boot sector it has loaded: the  *)
(* modules are torn down while the timer they wait for still runs.          *)
Chainloads == pc = "sleep" ~> (pc = "real" \/ cpu = "panic")

-----------------------------------------------------------------------------
(* irq.c:144 of the last writes of irq_handler: "End Of Interrupt".  An     *)
(* interrupt is not in service any more once its handler has returned.      *)
InterruptEnds == cpu = "main" => \A c \in Controllers : pic[c].isr = {}
=============================================================================
