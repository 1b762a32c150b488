-------------------------- MODULE InterruptsProofs --------------------------
(***************************************************************************)
(* Theorems about interrupt delivery, for every set of lines and exceptions  *)
(* and every mask the BIOS may leave.                                       *)
(***************************************************************************)
EXTENDS Interrupts, Arithmetic, FiniteSetTheorems

(* No device is on the input the slave is on.                               *)
PicOK == pic \in [Controllers -> Pics] /\ 2 \notin pic["master"].irr

(* The tables as they are between irq_install and irq_uninstall.            *)
Remapped ==
    /\ pic["master"].base = 32 /\ pic["slave"].base = 40
    /\ DOMAIN idt = {v \in Nat : v < 48}
    /\ \A v \in DOMAIN idt : v >= 32 => idt[v] = Irq(v - 32)

Restored ==
    [c \in Controllers |-> Initialised(IF c = "master" THEN 8 ELSE 112, BIOS_MASK[c])]

(* How far the main thread is tells what the tables are, and whether an     *)
(* interrupt can happen.                                                    *)
PhaseOK ==
    /\ pc \in Phases
    /\ \A v \in DOMAIN idt : v < 32 => idt[v] = Isr(v)
    /\ pc \in {"idt", "irq"} => \A c \in Controllers : pic[c].imr = BIOS_MASK[c]
    /\ pc \notin {"idt", "irq"} => saved = [c \in Controllers |-> BIOS_MASK[c]]
    /\ pc = "irq" => DOMAIN idt = {v \in Nat : v < 32}
    /\ pc \notin {"idt", "irq", "real"} => Remapped
    /\ pc \in {"idt", "irq", "timer", "sti", "irq_uninstall", "real"} =>
          ~enabled /\ cpu \in {"main", "panic"}
    /\ pc = "real" => cpu = "main" /\ pic = Restored

(* The master has in service what the CPU is at.                            *)
ServiceOK ==
    /\ cpu \in {"main", "irq_handler", "eoi", "mask", "panic"} /\ enabled \in BOOLEAN
    /\ cpu \notin {"irq_handler", "eoi"} => pic["master"].isr = {}
    /\ cpu \in {"irq_handler", "eoi"} => \E n \in Inputs : pic["master"].isr = {n}

FrameOK == frame.line >= 0 => frame.stub = "irq" /\ frame.int_no - 32 = frame.line

IntInv == PicOK /\ PhaseOK /\ ServiceOK /\ FrameOK

-----------------------------------------------------------------------------
LEMMA LowestOf == ASSUME NEW S \in SUBSET Nat, S # {} PROVE Lowest(S) \in S
BY Least DEF Lowest

LEMMA LowestOnly == ASSUME NEW n \in Nat PROVE Lowest({n}) = n
BY DEF Lowest

LEMMA PicFields ==
    ASSUME PicOK, NEW c \in Controllers
    PROVE  /\ pic[c] \in Pics
           /\ pic[c].irr \subseteq Inputs /\ pic[c].isr \subseteq Inputs
           /\ pic[c].imr \subseteq Inputs /\ pic[c].base \in Nat
<1>1. pic[c] \in Pics
  BY DEF PicOK
<1> QED BY <1>1 DEF Pics

(* The line and the vector accepted belong together. *)
LEMMA AcceptedPair ==
    ASSUME PicOK, Remapped, MasterRequests # {}
    PROVE  /\ AcceptedLine \in Nat /\ AcceptedLine < 16 /\ AcceptedVector = 32 + AcceptedLine
           /\ Cascaded => SlaveRequests # {} /\ Lowest(SlaveRequests) \in Inputs
           /\ Lowest(MasterRequests) \in Inputs
<1> USE DEF Controllers
<1>1. SlaveRequests \subseteq Inputs
  BY PicFields DEF SlaveRequests, Unblocked
<1>2. MasterRequests \subseteq Inputs
  <2>1. 2 \in Inputs
    BY DEF Inputs
  <2> QED BY <2>1, PicFields DEF MasterRequests, Unblocked
<1>3. Inputs \subseteq Nat
  BY DEF Inputs
<1>4. Lowest(MasterRequests) \in MasterRequests
  BY <1>2, <1>3, LowestOf
<1>5. SlaveRequests # {} => Lowest(SlaveRequests) \in SlaveRequests
  BY <1>1, <1>3, LowestOf
<1>6. Cascaded => SlaveRequests # {}
  <2> SUFFICES ASSUME Cascaded, SlaveRequests = {} PROVE FALSE
    OBVIOUS
  <2>1. 2 \in Unblocked("master", pic["master"].irr)
    BY <1>4 DEF Cascaded, MasterRequests
  <2> QED BY <2>1 DEF Unblocked, PicOK
<1>7. Lowest(MasterRequests) \in Inputs /\ (Cascaded => Lowest(SlaveRequests) \in Inputs)
  BY <1>1, <1>2, <1>4, <1>5, <1>6
<1>8. /\ Lowest(MasterRequests) \in Nat /\ Lowest(MasterRequests) < 8
      /\ Cascaded => Lowest(SlaveRequests) \in Nat /\ Lowest(SlaveRequests) < 8
  BY <1>7 DEF Inputs
<1>9. CASE Cascaded
  <2>1. AcceptedLine = 8 + Lowest(SlaveRequests) /\ AcceptedVector = 40 + Lowest(SlaveRequests)
    BY <1>9 DEF AcceptedLine, AcceptedVector, Remapped
  <2> QED BY <1>6, <1>7, <1>8, <1>9, <2>1
<1>10. CASE ~Cascaded
  <2>1. AcceptedLine = Lowest(MasterRequests) /\ AcceptedVector = 32 + Lowest(MasterRequests)
    BY <1>10 DEF AcceptedLine, AcceptedVector, Remapped
  <2> QED BY <1>7, <1>8, <1>10, <2>1
<1> QED BY <1>9, <1>10

LEMMA Requested ==
    ASSUME PicOK, NEW line \in (0..15) \ {2}, Request(line)
    PROVE  /\ PicOK'
           /\ \A c \in Controllers :
                 pic'[c].isr = pic[c].isr /\ pic'[c].imr = pic[c].imr /\ pic'[c].base = pic[c].base
<1> DEFINE k == Controller(line)
           n == line % 8
           r == [pic[k] EXCEPT !.irr = @ \cup {n}]
<1>1. k \in Controllers /\ n \in Inputs /\ (k = "master" => n # 2)
  BY DEF Controller, Controllers, Inputs
<1>2. pic' = [pic EXCEPT ![k] = r]
  BY DEF Request
<1> HIDE DEF k, n
<1>3. pic[k] \in Pics /\ pic[k].irr \subseteq Inputs
  BY <1>1, PicFields
<1>4. r.isr = pic[k].isr /\ r.imr = pic[k].imr /\ r.base = pic[k].base /\ r.irr = pic[k].irr \cup {n}
  BY <1>3 DEF Pics
<1>5. r \in Pics
  BY <1>1, <1>3 DEF Pics
<1> HIDE DEF r
<1>6. /\ pic'[k] = r /\ pic' \in [Controllers -> Pics]
      /\ \A c \in Controllers : c # k => pic'[c] = pic[c]
  BY <1>1, <1>2, <1>5 DEF PicOK
<1>7. 2 \notin pic'["master"].irr
  BY <1>1, <1>4, <1>6 DEF PicOK, Controllers
<1> QED BY <1>4, <1>6, <1>7 DEF PicOK

LEMMA DeviceStep ==
    ASSUME IntInv, NEW line \in (0..15) \ {2}, Request(line), pc # "real",
           UNCHANGED <<saved, idt, enabled, cpu, frame, pc>>
    PROVE  IntInv'
<1>1. /\ PicOK'
      /\ \A c \in Controllers :
            pic'[c].isr = pic[c].isr /\ pic'[c].imr = pic[c].imr /\ pic'[c].base = pic[c].base
  BY Requested DEF IntInv
<1>2. pic'["master"].isr = pic["master"].isr /\ (Remapped => Remapped')
  BY <1>1 DEF Controllers, Remapped
<1>3. PhaseOK'
  BY <1>1, <1>2 DEF IntInv, PhaseOK
<1>4. ServiceOK' /\ FrameOK'
  BY <1>2 DEF IntInv, ServiceOK, FrameOK
<1> QED BY <1>1, <1>3, <1>4 DEF IntInv

(* A step that leaves the controllers and the tables as they are. *)
LEMMA PicKept == ASSUME PicOK, pic' = pic PROVE PicOK'
BY DEF PicOK

LEMMA InterruptsInit == ASSUME Init PROVE IntInv
<1>1. \A c \in Controllers : BIOS_MASK[c] \subseteq Inputs
  BY MaskAssumption DEF Controllers, Inputs
<1>2. \A c \in Controllers : Initialised(IF c = "master" THEN 8 ELSE 112, BIOS_MASK[c]) \in Pics
  BY <1>1 DEF Initialised, Pics
<1>3. pic["master"] = Initialised(8, BIOS_MASK["master"])
  BY DEF Init, Controllers
<1>4. PicOK
  <2>1. pic \in [Controllers -> Pics]
    BY <1>2 DEF Init
  <2>2. pic["master"].irr = {}
    BY <1>3 DEF Initialised
  <2> QED BY <2>1, <2>2 DEF PicOK
<1>5. \A c \in Controllers : pic[c].imr = BIOS_MASK[c]
  BY DEF Init, Initialised
<1>6. PhaseOK
  BY <1>5 DEF Init, PhaseOK, Phases
<1>7. ServiceOK
  <2>1. pic["master"].isr = {}
    BY <1>3 DEF Initialised
  <2>2. cpu = "main" /\ enabled = FALSE
    BY DEF Init
  <2> QED BY <2>1, <2>2 DEF ServiceOK
<1>8. FrameOK
  BY DEF Init, FrameOK, NoFrame
<1> QED BY <1>4, <1>6, <1>7, <1>8 DEF IntInv

LEMMA AcceptStep == ASSUME IntInv, Accept PROVE IntInv'
<1> USE DEF Controllers
<1>1. /\ cpu = "main" /\ enabled /\ MasterRequests # {} /\ AcceptedVector \in DOMAIN idt
      /\ Enter(AcceptedLine, idt[AcceptedVector]) /\ pic' = Acknowledged
      /\ UNCHANGED <<saved, idt, irq_routines, pc>>
  BY DEF Accept, tables
<1>2. pc \in {"fd_init", "kb_init", "cli", "sleep", "disable"} /\ Remapped
  BY <1>1 DEF IntInv, PhaseOK, Phases
<1>3. /\ AcceptedLine \in Nat /\ AcceptedLine < 16 /\ AcceptedVector = 32 + AcceptedLine
      /\ Cascaded => SlaveRequests # {} /\ Lowest(SlaveRequests) \in Inputs
      /\ Lowest(MasterRequests) \in Inputs
  BY <1>1, <1>2, AcceptedPair DEF IntInv
<1>4. idt[AcceptedVector] = Irq(AcceptedLine)
  <2>1. AcceptedVector >= 32 /\ AcceptedVector - 32 = AcceptedLine
    BY <1>3
  <2> QED BY <1>1, <1>2, <2>1 DEF Remapped
<1>5. /\ enabled' = FALSE /\ cpu' = "irq_handler"
      /\ frame' = [line |-> AcceptedLine, stub |-> "irq", int_no |-> 32 + AcceptedLine]
  BY <1>1, <1>4 DEF Enter, Irq
<1>6. FrameOK'
  BY <1>3, <1>5 DEF FrameOK
<1>7. pic["master"].isr = {} /\ pic["master"] \in Pics /\ pic["slave"] \in Pics
  BY <1>1, PicFields DEF IntInv, ServiceOK
<1>8. \A p \in Pics, n \in Inputs :
          /\ Taken(p, n) \in Pics /\ Taken(p, n).base = p.base /\ Taken(p, n).imr = p.imr
          /\ Taken(p, n).isr = p.isr \cup {n} /\ Taken(p, n).irr = p.irr \ {n}
  <2> SUFFICES ASSUME NEW p \in Pics, NEW n \in Inputs
               PROVE  /\ Taken(p, n) \in Pics /\ Taken(p, n).base = p.base /\ Taken(p, n).imr = p.imr
                      /\ Taken(p, n).isr = p.isr \cup {n} /\ Taken(p, n).irr = p.irr \ {n}
    OBVIOUS
  <2>1. /\ Taken(p, n).base = p.base /\ Taken(p, n).imr = p.imr
        /\ Taken(p, n).isr = p.isr \cup {n} /\ Taken(p, n).irr = p.irr \ {n}
    BY DEF Taken, Pics
  <2>2. p.irr \ {n} \in SUBSET Inputs /\ p.isr \cup {n} \in SUBSET Inputs
    BY DEF Pics
  <2>3. Taken(p, n) \in Pics
    BY <2>2 DEF Taken, Pics
  <2> QED BY <2>1, <2>3
<1>9. \E n \in Inputs : /\ pic'["master"] = Taken(pic["master"], n)
                        /\ \/ pic'["slave"] = pic["slave"]
                           \/ \E m \in Inputs : pic'["slave"] = Taken(pic["slave"], m)
                        /\ DOMAIN pic' = Controllers /\ pic' = [c \in Controllers |-> pic'[c]]
  <2>1. CASE Cascaded
    <3>1. 2 \in Inputs
      BY DEF Inputs
    <3>2. pic' = [pic EXCEPT !["master"] = Taken(@, 2),
                             !["slave"]  = Taken(@, Lowest(SlaveRequests))]
      BY <1>1, <2>1 DEF Acknowledged
    <3> QED BY <1>3, <2>1, <3>1, <3>2 DEF IntInv, PicOK
  <2>2. CASE ~Cascaded
    <3>1. pic' = [pic EXCEPT !["master"] = Taken(@, Lowest(MasterRequests))]
      BY <1>1, <2>2 DEF Acknowledged
    <3> QED BY <1>3, <2>2, <3>1 DEF IntInv, PicOK
  <2> QED BY <2>1, <2>2
<1>10. /\ pic' \in [Controllers -> Pics] /\ pic'["master"].irr \subseteq pic["master"].irr
       /\ pic'["master"].base = pic["master"].base /\ pic'["slave"].base = pic["slave"].base
       /\ \E n \in Inputs : pic'["master"].isr = {n}
  BY <1>7, <1>8, <1>9
<1>11. PicOK'
  BY <1>10 DEF IntInv, PicOK
<1>12. ServiceOK'
  BY <1>5, <1>10 DEF ServiceOK
<1>13. PhaseOK'
  BY <1>1, <1>2, <1>5, <1>10 DEF IntInv, PhaseOK, Remapped
<1> QED BY <1>6, <1>11, <1>12, <1>13 DEF IntInv

LEMMA CallRoutineStep == ASSUME IntInv, CallRoutine PROVE IntInv'
<1>1. cpu = "irq_handler" /\ cpu' = "eoi" /\ UNCHANGED <<pic, saved, idt, irq_routines, enabled, frame, pc>>
  BY DEF CallRoutine, tables
<1>2. PicOK' /\ FrameOK'
  BY <1>1, PicKept DEF IntInv, FrameOK
<1>3. ServiceOK'
  BY <1>1 DEF IntInv, ServiceOK
<1>4. PhaseOK'
  BY <1>1 DEF IntInv, PhaseOK, Remapped
<1> QED BY <1>2, <1>3, <1>4 DEF IntInv

(* What a change of one field of the master leaves alone. *)
LEMMA MasterChanged ==
    ASSUME IntInv, NEW p \in Pics, pic' = [pic EXCEPT !["master"] = p],
           p.irr = pic["master"].irr, p.base = pic["master"].base,
           UNCHANGED <<saved, idt, pc>>, pc \notin {"idt", "irq", "real"}
    PROVE  PicOK' /\ pic'["master"] = p /\ Remapped'
<1>1. pic' \in [Controllers -> Pics] /\ pic'["master"] = p /\ pic'["slave"] = pic["slave"]
  BY DEF IntInv, PicOK, Controllers
<1>2. PicOK'
  BY <1>1 DEF IntInv, PicOK
<1>3. Remapped'
  BY <1>1 DEF IntInv, PhaseOK, Remapped
<1> QED BY <1>1, <1>2, <1>3

LEMMA EndOfInterruptStep == ASSUME IntInv, EndOfInterrupt PROVE IntInv'
<1> DEFINE m == pic["master"]
           p == Completed(m)
<1>1. /\ cpu = "eoi" /\ cpu' = "mask" /\ pic' = [pic EXCEPT !["master"] = p]
      /\ UNCHANGED <<saved, idt, irq_routines, enabled, frame, pc>>
  BY DEF EndOfInterrupt, tables
<1>2. pc \in {"fd_init", "kb_init", "cli", "sleep", "disable"}
  BY <1>1 DEF IntInv, PhaseOK, Phases
<1>3. PICK n \in Inputs : m.isr = {n}
  BY <1>1 DEF IntInv, ServiceOK
<1>4. m \in Pics
  BY PicFields DEF IntInv, Controllers
<1>5. Lowest({n}) = n
  BY LowestOnly DEF Inputs
<1> HIDE DEF m
<1>6. p.isr = {} /\ p.irr = m.irr /\ p.base = m.base /\ p \in Pics
  BY <1>3, <1>4, <1>5 DEF Completed, Pics
<1> HIDE DEF p
<1>7. PicOK' /\ pic'["master"] = p /\ Remapped'
  BY <1>1, <1>2, <1>6, MasterChanged DEF m
<1>8. ServiceOK'
  BY <1>1, <1>6, <1>7 DEF IntInv, ServiceOK
<1>9. PhaseOK'
  BY <1>1, <1>2, <1>7 DEF IntInv, PhaseOK
<1>10. FrameOK'
  BY <1>1 DEF IntInv, FrameOK
<1> QED BY <1>7, <1>8, <1>9, <1>10 DEF IntInv

LEMMA MaskAndReturnStep == ASSUME IntInv, MaskAndReturn PROVE IntInv'
<1> DEFINE m == pic["master"]
           p == [m EXCEPT !.imr = {5}]
<1>1. /\ cpu = "mask" /\ cpu' = "main" /\ pic' = [pic EXCEPT !["master"] = p]
      /\ enabled' = TRUE /\ frame' = NoFrame /\ UNCHANGED <<saved, idt, irq_routines, pc>>
  BY DEF MaskAndReturn, tables
<1>2. pc \in {"fd_init", "kb_init", "cli", "sleep", "disable"}
  BY <1>1 DEF IntInv, PhaseOK, Phases
<1>3. m.isr = {} /\ m \in Pics
  BY <1>1, PicFields DEF IntInv, ServiceOK, Controllers
<1>4. {5} \in SUBSET Inputs
  BY DEF Inputs
<1> HIDE DEF m
<1>5. p.isr = {} /\ p.irr = m.irr /\ p.base = m.base /\ p \in Pics
  BY <1>3, <1>4 DEF Pics
<1> HIDE DEF p
<1>6. PicOK' /\ pic'["master"] = p /\ Remapped'
  BY <1>1, <1>2, <1>5, MasterChanged DEF m
<1>7. ServiceOK'
  BY <1>1, <1>5, <1>6 DEF IntInv, ServiceOK
<1>8. PhaseOK'
  BY <1>1, <1>2, <1>6 DEF IntInv, PhaseOK
<1>9. FrameOK'
  BY <1>1 DEF FrameOK, NoFrame
<1> QED BY <1>6, <1>7, <1>8, <1>9 DEF IntInv

LEMMA ExceptionStep == ASSUME IntInv, NEW v \in EXCEPTIONS, Exception(v) PROVE IntInv'
<1>1. /\ cpu = "main" /\ pc # "real" /\ enabled' = FALSE
      /\ UNCHANGED <<pic, saved, idt, irq_routines, pc>>
      /\ frame' = [line |-> -1, stub |-> idt[v].stub, int_no |-> idt[v].int_no]
      /\ cpu' = IF idt[v].stub = "irq" THEN "irq_handler" ELSE "panic"
  BY DEF Exception, Enter, tables
<1>2. idt[v] = Isr(v)
  <2>1. v \in DOMAIN idt /\ v < 32
    BY ExceptionAssumption DEF Exception
  <2> QED BY <2>1 DEF IntInv, PhaseOK
<1>3. cpu' = "panic" /\ frame'.line = -1
  BY <1>1, <1>2 DEF Isr
<1>4. PicOK' /\ FrameOK'
  BY <1>1, <1>3, PicKept DEF IntInv, FrameOK
<1>5. ServiceOK'
  BY <1>1, <1>3 DEF IntInv, ServiceOK
<1>6. PhaseOK'
  BY <1>1, <1>3 DEF IntInv, PhaseOK, Remapped
<1> QED BY <1>4, <1>5, <1>6 DEF IntInv

-----------------------------------------------------------------------------
(* The main thread. *)

LEMMA MainKept ==
    ASSUME IntInv, cpu = "main", UNCHANGED <<pic, saved, cpu, frame>>, enabled' \in BOOLEAN
    PROVE  PicOK' /\ ServiceOK' /\ FrameOK'
BY PicKept DEF IntInv, ServiceOK, FrameOK

LEMMA idt_installStep == ASSUME IntInv, idt_install PROVE IntInv'
<1>1. /\ cpu = "main" /\ pc = "idt" /\ pc' = "irq" /\ idt' = [v \in 0..31 |-> Isr(v)]
      /\ UNCHANGED <<pic, saved, enabled, cpu, frame>>
  BY DEF idt_install, Main
<1>2. DOMAIN idt' = {v \in Nat : v < 32} /\ \A v \in DOMAIN idt' : idt'[v] = Isr(v)
  BY <1>1
<1>3. PhaseOK'
  BY <1>1, <1>2 DEF IntInv, PhaseOK, Phases
<1>4. enabled' \in BOOLEAN
  BY <1>1 DEF IntInv, ServiceOK
<1> QED BY <1>1, <1>3, <1>4, MainKept DEF IntInv

LEMMA irq_installStep == ASSUME IntInv, irq_install PROVE IntInv'
<1>1. /\ cpu = "main" /\ pc = "irq" /\ pc' = "timer"
      /\ saved' = [c \in Controllers |-> pic[c].imr]
      /\ pic' = [c \in Controllers |-> Initialised(IF c = "master" THEN 32 ELSE 40, pic[c].imr)]
      /\ idt' = [v \in DOMAIN idt \cup 32..47 |-> IF v \in 32..47 THEN Irq(v - 32) ELSE idt[v]]
      /\ UNCHANGED <<enabled, cpu, frame>>
  BY DEF irq_install, irq_remap, Main
<1>2. /\ ~enabled /\ enabled \in BOOLEAN /\ DOMAIN idt = {v \in Nat : v < 32}
      /\ \A c \in Controllers : pic[c].imr = BIOS_MASK[c]
      /\ \A v \in DOMAIN idt : v < 32 => idt[v] = Isr(v)
  BY <1>1 DEF IntInv, PhaseOK, ServiceOK
<1>3. \A c \in Controllers :
          pic'[c] = Initialised(IF c = "master" THEN 32 ELSE 40, pic[c].imr) /\ pic'[c] \in Pics
  BY <1>1, PicFields DEF IntInv, Initialised, Pics
<1>4. /\ pic'["master"].base = 32 /\ pic'["slave"].base = 40
      /\ pic'["master"].isr = {} /\ pic'["master"].irr = {}
  BY <1>3 DEF Controllers, Initialised
<1>5. PicOK'
  BY <1>1, <1>3, <1>4 DEF PicOK
<1>6. /\ DOMAIN idt' = {v \in Nat : v < 48}
      /\ \A v \in DOMAIN idt' : (v < 32 => idt'[v] = Isr(v)) /\ (v >= 32 => idt'[v] = Irq(v - 32))
  <2>1. DOMAIN idt' = {v \in Nat : v < 32} \cup 32..47
    BY <1>1, <1>2
  <2>2. DOMAIN idt' = {v \in Nat : v < 48}
    BY <2>1
  <2> HIDE DEF IntInv
  <2>3. ASSUME NEW v \in DOMAIN idt'
        PROVE  (v < 32 => idt'[v] = Isr(v)) /\ (v >= 32 => idt'[v] = Irq(v - 32))
    <3>1. v \in Nat /\ v < 48 /\ idt'[v] = IF v \in 32..47 THEN Irq(v - 32) ELSE idt[v]
      BY <1>1, <2>2
    <3>2. v >= 32 <=> v \in 32..47
      BY <3>1
    <3>3. v < 32 => v \in DOMAIN idt /\ v \notin 32..47
      BY <1>2, <3>1
    <3> QED BY <1>2, <3>1, <3>2, <3>3
  <2> QED BY <2>2, <2>3
<1>7. saved' = [c \in Controllers |-> BIOS_MASK[c]]
  BY <1>1, <1>2
<1>8. Remapped'
  BY <1>4, <1>6 DEF Remapped
<1>9. PhaseOK'
  BY <1>1, <1>2, <1>6, <1>7, <1>8 DEF PhaseOK, Phases
<1>10. ServiceOK' /\ FrameOK'
  BY <1>1, <1>2, <1>4 DEF IntInv, ServiceOK, FrameOK
<1> QED BY <1>5, <1>9, <1>10 DEF IntInv

(* The steps that change neither the controllers nor the gates.             *)
LEMMA LaterStep ==
    ASSUME IntInv, cpu = "main", UNCHANGED <<pic, saved, idt, cpu, frame>>,
           pc \notin {"idt", "irq", "real"}, pc' \in Phases \ {"idt", "irq", "real"},
           enabled' \in BOOLEAN, pc' \in {"timer", "sti", "irq_uninstall"} => ~enabled'
    PROVE  IntInv'
<1>1. PicOK' /\ ServiceOK' /\ FrameOK'
  BY MainKept
<1>2. PhaseOK'
  BY DEF IntInv, PhaseOK, Remapped
<1> QED BY <1>1, <1>2 DEF IntInv

LEMMA irq_uninstallStep == ASSUME IntInv, irq_uninstall PROVE IntInv'
<1>1. /\ cpu = "main" /\ pc = "irq_uninstall" /\ pc' = "real"
      /\ pic' = [c \in Controllers |-> Initialised(IF c = "master" THEN 8 ELSE 112, saved[c])]
      /\ UNCHANGED <<saved, idt, irq_routines, enabled, cpu, frame>>
  BY DEF irq_uninstall, Main, tables
<1>2. ~enabled /\ enabled \in BOOLEAN /\ saved = [c \in Controllers |-> BIOS_MASK[c]]
  BY <1>1 DEF IntInv, PhaseOK, ServiceOK
<1>3. pic' = Restored
  BY <1>1, <1>2 DEF Restored
<1>4. \A c \in Controllers : BIOS_MASK[c] \subseteq Inputs
  BY MaskAssumption DEF Controllers, Inputs
<1>5. \A c \in Controllers : pic'[c] \in Pics
  BY <1>3, <1>4 DEF Restored, Initialised, Pics
<1>6. pic'["master"].isr = {} /\ pic'["master"].irr = {}
  BY <1>3 DEF Restored, Initialised, Controllers
<1>7. PicOK'
  BY <1>3, <1>5, <1>6 DEF PicOK, Restored
<1>8. ServiceOK' /\ FrameOK'
  BY <1>1, <1>2, <1>6 DEF IntInv, ServiceOK, FrameOK
<1>9. PhaseOK'
  BY <1>1, <1>2, <1>3 DEF IntInv, PhaseOK, Phases, Restored
<1> QED BY <1>7, <1>8, <1>9 DEF IntInv

LEMMA InterruptsStep == ASSUME IntInv, [Next]_vars PROVE IntInv'
<1>1. CASE UNCHANGED vars
  <2>1. PicOK' /\ ServiceOK' /\ FrameOK'
    BY <1>1, PicKept DEF IntInv, ServiceOK, FrameOK, vars
  <2>2. PhaseOK'
    BY <1>1 DEF IntInv, PhaseOK, Remapped, vars, Restored
  <2> QED BY <2>1, <2>2 DEF IntInv
<1>2. CASE Device
  <2>1. 1 \in (0..15) \ {2}
    OBVIOUS
  <2>2. CASE Press
    BY <2>1, <2>2, DeviceStep DEF Press, KB_IRQ, tables
  <2>3. ASSUME NEW line \in LINES, Raise(line) PROVE IntInv'
    <3>1. line \in (0..15) \ {2}
      BY LineAssumption
    <3> QED BY <2>3, <3>1, DeviceStep DEF Raise, tables
  <2> QED BY <1>2, <2>2, <2>3 DEF Device
<1>3. CASE Quiet
  <2>1. PicOK' /\ ServiceOK' /\ FrameOK'
    BY <1>3, PicKept DEF Quiet, IntInv, ServiceOK, FrameOK, tables
  <2>2. PhaseOK'
    BY <1>3 DEF Quiet, IntInv, PhaseOK, Remapped, tables, Restored
  <2> QED BY <2>1, <2>2 DEF IntInv
<1>4. ASSUME NEW v \in EXCEPTIONS, Exception(v) PROVE IntInv'
  BY <1>4, ExceptionStep
<1>5. CASE timer_init
  <2>1. ~enabled /\ enabled \in BOOLEAN
    BY <1>5 DEF timer_init, Main, IntInv, PhaseOK, ServiceOK
  <2> QED BY <1>5, <2>1, LaterStep DEF timer_init, Main, Phases
<1>6. CASE EnableInterrupts
  BY <1>6, LaterStep DEF EnableInterrupts, Main, tables, Phases
<1>7. CASE fd_init \/ kb_init \/ Chainload \/ SleepEnds
  <2>1. enabled \in BOOLEAN
    BY DEF IntInv, ServiceOK
  <2> QED BY <1>7, <2>1, LaterStep DEF fd_init, kb_init, Chainload, SleepEnds, Main, tables, Phases
<1>8. CASE DisableInterrupts
  BY <1>8, LaterStep DEF DisableInterrupts, Main, tables, Phases
<1> QED BY <1>1, <1>2, <1>3, <1>4, <1>5, <1>6, <1>7, <1>8, AcceptStep, CallRoutineStep,
           EndOfInterruptStep, MaskAndReturnStep, idt_installStep, irq_installStep,
           irq_uninstallStep DEF Next, IrqHandler, Boot, Leave

LEMMA InterruptsInv == Spec => []IntInv
<1>1. Init => IntInv
  BY InterruptsInit
<1>2. IntInv /\ [Next]_vars => IntInv'
  BY InterruptsStep
<1> QED BY <1>1, <1>2, PTL DEF Spec

-----------------------------------------------------------------------------
(* What the invariant does not need of the types. *)
OtherTypes ==
    /\ saved \in [Controllers -> SUBSET Inputs]
    /\ irq_routines \in [0..15 -> Handlers]
    /\ kbd_full \in BOOLEAN /\ ticked \in BOOLEAN
    /\ served \subseteq 0..15

LEMMA OtherTypesStep == ASSUME IntInv, OtherTypes, [Next]_vars PROVE OtherTypes'
<1>1. CASE UNCHANGED vars
  BY <1>1 DEF OtherTypes, vars
<1>2. CASE Device
  <2>1. UNCHANGED <<saved, irq_routines, ticked, served>> /\ kbd_full' \in {kbd_full, TRUE}
    BY <1>2 DEF Device, Press, Raise, tables
  <2> QED BY <2>1 DEF OtherTypes
<1>3. CASE Quiet
  BY <1>3 DEF Quiet, OtherTypes, tables
<1>4. CASE Accept
  <2>1. cpu = "main" /\ enabled /\ MasterRequests # {}
    BY <1>4 DEF Accept
  <2>2. PicOK /\ Remapped
    BY <2>1 DEF IntInv, PhaseOK
  <2>3. AcceptedLine \in 0..15
    BY <2>1, <2>2, AcceptedPair
  <2> QED BY <1>4, <2>3 DEF Accept, OtherTypes, tables
<1>5. CASE IrqHandler
  <2>1. UNCHANGED <<saved, irq_routines, served>>
    BY <1>5 DEF IrqHandler, CallRoutine, EndOfInterrupt, MaskAndReturn, tables
  <2>2. kbd_full' \in BOOLEAN /\ ticked' \in BOOLEAN
    <3>1. CASE CallRoutine
      BY <3>1, Zenon DEF CallRoutine
    <3>2. CASE EndOfInterrupt \/ MaskAndReturn
      BY <3>2 DEF EndOfInterrupt, MaskAndReturn, OtherTypes
    <3> QED BY <1>5, <3>1, <3>2 DEF IrqHandler
  <2> QED BY <2>1, <2>2 DEF OtherTypes
<1>6. ASSUME NEW v \in EXCEPTIONS, Exception(v) PROVE OtherTypes'
  BY <1>6 DEF Exception, OtherTypes, tables
<1>7. CASE idt_install \/ EnableInterrupts \/ SleepEnds \/ DisableInterrupts \/ irq_uninstall
  BY <1>7 DEF idt_install, EnableInterrupts, SleepEnds, DisableInterrupts, irq_uninstall,
             OtherTypes, tables
<1>8. CASE irq_install
  <2>1. saved' = [c \in Controllers |-> pic[c].imr] /\ UNCHANGED <<irq_routines, kbd_full, ticked, served>>
    BY <1>8 DEF irq_install, irq_remap
  <2>2. \A c \in Controllers : pic[c].imr \in SUBSET Inputs
    BY PicFields DEF IntInv
  <2> QED BY <2>1, <2>2 DEF OtherTypes
<1>9. CASE timer_init \/ fd_init \/ kb_init
  <2>1. /\ UNCHANGED <<saved, kbd_full, ticked, served>>
        /\ \/ irq_routines' = irq_routines
           \/ \E line \in {0, 1, 6}, h \in Handlers : irq_routines' = [irq_routines EXCEPT ![line] = h]
    BY <1>9 DEF timer_init, fd_init, kb_init, irq_install_handler, KB_IRQ, Handlers
  <2> QED BY <2>1 DEF OtherTypes
<1>10. CASE Chainload
  BY <1>10 DEF Chainload, OtherTypes, tables
<1> QED BY <1>1, <1>2, <1>3, <1>4, <1>5, <1>6, <1>7, <1>8, <1>9, <1>10 DEF Next, Boot, Leave

(* Type correctness of gates, controllers and phases, for every set of lines *)
(* and every mask.                                                          *)
THEOREM Types == Spec => []TypeOK
<1>1. Init => OtherTypes
  BY DEF Init, OtherTypes, Handlers
<1>2. IntInv /\ OtherTypes => TypeOK
  BY DEF IntInv, PicOK, PhaseOK, ServiceOK, OtherTypes, TypeOK
<1>3. IntInv /\ OtherTypes /\ [Next]_vars => OtherTypes'
  BY OtherTypesStep
<1> QED BY <1>1, <1>2, <1>3, InterruptsInv, PTL DEF Spec

-----------------------------------------------------------------------------
(* An interrupt of any line runs the routine of that line, and finds a gate. *)
THEOREM OwnRoutineRuns == Spec => []OwnRoutine
<1>1. IntInv => OwnRoutine
  <2> SUFFICES ASSUME IntInv PROVE OwnRoutine
    OBVIOUS
  <2>1. ASSUME cpu = "main", enabled, MasterRequests # {} PROVE AcceptedVector \in DOMAIN idt
    <3>1. pc \notin {"idt", "irq", "real"} /\ Remapped
      BY <2>1 DEF IntInv, PhaseOK
    <3>2. AcceptedLine \in Nat /\ AcceptedLine < 16 /\ AcceptedVector = 32 + AcceptedLine
      BY <2>1, <3>1, AcceptedPair DEF IntInv
    <3> QED BY <3>1, <3>2 DEF Remapped
  <2> QED BY <2>1 DEF IntInv, FrameOK, OwnRoutine
<1> QED BY <1>1, InterruptsInv, PTL

(* One line at a time is in service, and none between two interrupts.        *)
THEOREM MasterIsReleased == Spec => []MasterReleased
<1>1. IntInv => MasterReleased
  <2> SUFFICES ASSUME IntInv PROVE MasterReleased
    OBVIOUS
  <2>1. pic["master"].isr = {} \/ \E n \in Inputs : pic["master"].isr = {n}
    BY DEF IntInv, ServiceOK
  <2>2. Cardinality({}) = 0
    BY FS_EmptySet, Zenon
  <2>3. \A n \in Inputs : Cardinality({n}) = 1
    BY FS_Singleton, Zenon
  <2>4. Cardinality(pic["master"].isr) \in {0, 1}
    BY <2>1, <2>2, <2>3
  <2> QED BY <2>4 DEF IntInv, ServiceOK, MasterReleased
<1> QED BY <1>1, InterruptsInv, PTL

(* Whatever masks the BIOS had, and whatever happened in between, the boot   *)
(* sector chainloaded finds them.                                           *)
THEOREM BiosFindsItsMasks == Spec => []RestoredForBios
<1>1. IntInv => RestoredForBios
  BY DEF IntInv, PhaseOK, Restored, RestoredForBios
<1> QED BY <1>1, InterruptsInv, PTL
=============================================================================
