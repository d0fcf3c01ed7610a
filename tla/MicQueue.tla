------------------------------ MODULE MicQueue ------------------------------
(***************************************************************************)
(* The path of a microphone sample: the hardware FIFO of the Microphone    *)
(* component (HDL/Microphone), its interrupt handler mic_isr, the software *)
(* ring queue.c and the polling side MIC_getSample, MIC_start, MIC_stop    *)
(* and MIC_init of microphone.c.                                           *)
(*                                                                         *)
(* One processor: the handler preempts the main program between any two of *)
(* its memory accesses, and the main program does not move while the       *)
(* handler runs.  The hardware moves at any time.  So the handler is one   *)
(* action per loop iteration, and the main side is one action per access   *)
(* to state it shares with the handler (size_fifo-- is a load and a        *)
(* store).                                                                 *)
(***************************************************************************)
EXTENDS Naturals, Sequences

CONSTANTS
  Raw,                    \* 24-bit samples the filter chain can produce
  STANDARD_QUEUE_SIZE,    \* slots of the software ring (16)
  HwCapacity,             \* samples the hardware FIFO holds (DEPTH - 1 = 63)
  MAX_SAMPLES_IN_ONE_ISR, \* iterations of one handler run (4)
  MAX_POT_ERRORS          \* 0xFFFF samples in a row that mean "broken" (16000)

ASSUME RawOK == Raw \subseteq 0 .. (2^24 - 1)

ASSUME ConstantsOK ==
  /\ STANDARD_QUEUE_SIZE \in Nat \ {0}
  /\ HwCapacity \in Nat \ {0}
  /\ MAX_SAMPLES_IN_ONE_ISR \in Nat \ {0}
  /\ MAX_POT_ERRORS \in Nat \ {0}

VARIABLES
  \* the Microphone component
  hw,         \* samples in the hardware FIFO
  enable,     \* register MIC_ENABLE
  irq,        \* the interrupt line of the component
  \* the interrupt handler
  irqOn,      \* handler registered and interrupt enabled at the controller
  isr,        \* 0: not running; n + 1: about to do iteration n; IsrEnd: leaving
  flag,       \* microphone->flag is MICROPHONE_FLAG_UP
  \* Queue_t
  fifo_sound, read_ptr, write_ptr, size_fifo,
  \* the main program
  main,       \* the step of the main program
  reg,        \* a register: size_fifo during size_fifo--, n of queue_init's loop
  hsound,     \* the raw sample picked
  status,     \* the status MIC_getSample returns
  counter,    \* microphone->counter
  \* history
  raced       \* a sample was put in the middle of the last queue_init

mic   == <<hw, enable, irq>>
queue == <<fifo_sound, read_ptr, write_ptr, size_fifo>>
local == <<reg, hsound, status, counter>>
vars  == <<mic, irqOn, isr, flag, queue, main, local, raced>>

Slots  == 0 .. (STANDARD_QUEUE_SIZE - 1)
Sample == Raw \cup {0}       \* what a slot can hold: queue_init stores 0
IsrEnd == MAX_SAMPLES_IN_ONE_ISR + 1

(* ptr++; if(ptr == STANDARD_QUEUE_SIZE) ptr = 0 *)
After(ptr) == IF ptr + 1 = STANDARD_QUEUE_SIZE THEN 0 ELSE ptr + 1

(* The slot i places after ptr, for i up to the size of the ring. *)
Place(ptr, i) == IF ptr + i < STANDARD_QUEUE_SIZE
                 THEN ptr + i ELSE ptr + i - STANDARD_QUEUE_SIZE

(* 24 to 16 bits: clamp when the top nibble says overflow, else shift. *)
value_reducer(h) ==
  LET top == (h \div 2^20) % 16
  IN  CASE top = 7 -> 32767        \* POSITIVE_MAX_VALUE -> MAX_VALUE
        [] top = 8 -> 32768        \* NEGATIVE_MAX_VALUE -> MIN_VALUE
        [] OTHER   -> (h \div 16) % 2^16

POTENTIONAL_ERROR_SOUND == 65535

Init ==
  /\ hw = << >> /\ enable = FALSE /\ irq = FALSE
  /\ irqOn = FALSE /\ isr = 0 /\ flag = FALSE
  /\ fifo_sound \in [Slots -> Sample]     \* a local array of main()
  /\ read_ptr = 0 /\ write_ptr = 0 /\ size_fifo = 0
  /\ main = "init_write_ptr"
  /\ reg = 0 /\ hsound = 0 /\ status = "NONE" /\ counter = 0
  /\ raced = FALSE

(***************************************************************************)
(* Hardware: a filtered sample enters the FIFO unless it is full, and      *)
(* raises the interrupt in either case.                                    *)
(***************************************************************************)
HwSample(v) ==
  /\ enable
  /\ hw' = IF Len(hw) < HwCapacity THEN Append(hw, v) ELSE hw
  /\ irq' = TRUE
  /\ UNCHANGED <<enable, irqOn, isr, flag, queue, main, local, raced>>

(***************************************************************************)
(* mic_isr                                                                 *)
(***************************************************************************)
IsrEnter ==
  /\ irq /\ irqOn /\ isr = 0
  /\ isr' = 1
  /\ UNCHANGED <<mic, irqOn, flag, queue, main, local, raced>>

QueueInitSteps == {"init_read_ptr", "init_size_fifo", "init_slots"}

(* Mutant: the room test lets one sample too many in. *)
M_put_on_queue(v) ==
  IF size_fifo <= STANDARD_QUEUE_SIZE
  THEN /\ fifo_sound' = [fifo_sound EXCEPT ![write_ptr] = v]
       /\ write_ptr' = After(write_ptr)
       /\ size_fifo' = size_fifo + 1
       /\ raced' = (raced \/ main \in QueueInitSteps)
       /\ UNCHANGED read_ptr
  ELSE UNCHANGED <<queue, raced>>

put_on_queue(v) ==
  IF size_fifo < STANDARD_QUEUE_SIZE
  THEN /\ fifo_sound' = [fifo_sound EXCEPT ![write_ptr] = v]
       /\ write_ptr' = After(write_ptr)
       /\ size_fifo' = size_fifo + 1
       /\ raced' = (raced \/ main \in QueueInitSteps)
       /\ UNCHANGED read_ptr
  ELSE UNCHANGED <<queue, raced>>    \* QUEUE_OPERATION_FULL_QUEUE is ignored

IsrTake ==    \* not empty, not full: MIC_VALUE pops the hardware FIFO
  /\ isr \in 1 .. MAX_SAMPLES_IN_ONE_ISR
  /\ hw # << >> /\ Len(hw) < HwCapacity
  /\ flag' = TRUE
  /\ put_on_queue(Head(hw))
  /\ hw' = Tail(hw)
  /\ isr' = isr + 1
  /\ UNCHANGED <<enable, irq, irqOn, main, local>>

(* Mutant: MIC_ENABLE = 1 alone has no rising edge and resets nothing. *)
M_IsrRestart ==
  /\ isr \in 1 .. MAX_SAMPLES_IN_ONE_ISR
  /\ Len(hw) = HwCapacity
  /\ enable' = TRUE
  /\ isr' = isr + 1
  /\ UNCHANGED <<hw, irq, irqOn, flag, queue, main, local, raced>>

IsrRestart == \* full: MIC_ENABLE 0 then 1; its rising edge resets the FIFO
  /\ isr \in 1 .. MAX_SAMPLES_IN_ONE_ISR
  /\ Len(hw) = HwCapacity
  /\ hw' = << >>
  /\ enable' = TRUE
  /\ isr' = isr + 1
  /\ UNCHANGED <<irq, irqOn, flag, queue, main, local, raced>>

IsrBreak ==   \* empty
  /\ isr \in 1 .. MAX_SAMPLES_IN_ONE_ISR
  /\ Len(hw) = 0
  /\ isr' = IsrEnd
  /\ UNCHANGED <<mic, irqOn, flag, queue, main, local, raced>>

IsrReturn ==  \* MIC_IRQ_RET = 0, whatever is left in the hardware FIFO
  /\ isr = IsrEnd
  /\ irq' = FALSE
  /\ isr' = 0
  /\ UNCHANGED <<hw, enable, irqOn, flag, queue, main, local, raced>>

(***************************************************************************)
(* The main program.                                                       *)
(***************************************************************************)
MainStep(from, to) == isr = 0 /\ main = from /\ main' = to

(* MIC_getSample.  The recorder gives up at ERROR and the panic that       *)
(* follows ends in MIC_init.                                               *)
Running == status # "ERROR"

GetSample ==
  /\ MainStep("idle", "mask")
  /\ Running
  /\ flag' = FALSE
  /\ UNCHANGED <<mic, irqOn, isr, queue, local, raced>>

(* Mutant: the handler is not masked during pick_from_queue. *)
M_IrqDisable ==
  /\ MainStep("mask", "pick")
  /\ UNCHANGED <<mic, irqOn, isr, flag, queue, local, raced>>

IrqDisable ==
  /\ MainStep("mask", "pick")
  /\ irqOn' = FALSE
  /\ UNCHANGED <<mic, isr, flag, queue, local, raced>>

(* Mutant: a ring that is exactly full counts as overflowed. *)
M_PickRefused ==
  /\ MainStep("pick", "unmask")
  /\ \/ size_fifo = 0 /\ status' = "EMPTY"
     \/ size_fifo >= STANDARD_QUEUE_SIZE /\ status' = "FULL"
  /\ UNCHANGED <<mic, irqOn, isr, flag, queue, reg, hsound, counter, raced>>

PickRefused ==   \* pick_from_queue returns EMPTY or FULL
  /\ MainStep("pick", "unmask")
  /\ \/ size_fifo = 0 /\ status' = "EMPTY"
     \/ size_fifo > STANDARD_QUEUE_SIZE /\ status' = "FULL"
  /\ UNCHANGED <<mic, irqOn, isr, flag, queue, reg, hsound, counter, raced>>

(* Mutant: the pointer is advanced before the sample is read. *)
M_PickRead ==
  /\ MainStep("pick", "advance")
  /\ size_fifo \in 1 .. STANDARD_QUEUE_SIZE
  /\ hsound' = fifo_sound[After(read_ptr)]
  /\ UNCHANGED <<mic, irqOn, isr, flag, queue, reg, status, counter, raced>>

PickRead ==
  /\ MainStep("pick", "advance")
  /\ size_fifo \in 1 .. STANDARD_QUEUE_SIZE
  /\ hsound' = fifo_sound[read_ptr]
  /\ UNCHANGED <<mic, irqOn, isr, flag, queue, reg, status, counter, raced>>

PickAdvance ==
  /\ MainStep("advance", "load")
  /\ read_ptr' = After(read_ptr)
  /\ UNCHANGED <<mic, irqOn, isr, flag, fifo_sound, write_ptr, size_fifo,
                 local, raced>>

PickLoad ==
  /\ MainStep("load", "store")
  /\ reg' = size_fifo
  /\ UNCHANGED <<mic, irqOn, isr, flag, queue, hsound, status, counter, raced>>

PickStore ==
  /\ MainStep("store", "unmask")
  /\ size_fifo' = reg - 1
  /\ status' = "READY"
  /\ UNCHANGED <<mic, irqOn, isr, flag, fifo_sound, read_ptr, write_ptr,
                 reg, hsound, counter, raced>>

IrqEnable ==
  /\ MainStep("unmask", IF status = "READY" THEN "judge" ELSE "idle")
  /\ irqOn' = TRUE
  /\ UNCHANGED <<mic, isr, flag, queue, local, raced>>

Judge ==     \* is this the value of a disconnected data line?
  /\ MainStep("judge", "idle")
  /\ IF value_reducer(hsound) = POTENTIONAL_ERROR_SOUND
     THEN /\ counter' = counter + 1
          /\ status' = IF counter + 1 >= MAX_POT_ERRORS THEN "ERROR" ELSE "READY"
     ELSE counter' = 0 /\ UNCHANGED status
  /\ UNCHANGED <<mic, irqOn, isr, flag, queue, reg, hsound, raced>>

MIC_start ==
  /\ MainStep("idle", "idle")
  /\ Running
  /\ enable' = TRUE
  /\ hw' = IF enable THEN hw ELSE << >>     \* e_rst on the rising edge only
  /\ UNCHANGED <<irq, irqOn, isr, flag, queue, local, raced>>

MIC_stop ==
  /\ MainStep("idle", "idle")
  /\ Running
  /\ enable' = FALSE
  /\ UNCHANGED <<hw, irq, irqOn, isr, flag, queue, local, raced>>

(* MIC_init: main() runs it again after every panic and every reset, with  *)
(* the handler still registered and the microphone possibly still enabled. *)
MIC_init ==
  /\ MainStep("idle", "init_write_ptr")
  /\ counter' = 0
  /\ status' = "NONE"
  /\ UNCHANGED <<mic, irqOn, isr, flag, queue, reg, hsound, raced>>

InitWritePtr ==
  /\ MainStep("init_write_ptr", "init_read_ptr")
  /\ write_ptr' = 0
  /\ raced' = FALSE
  /\ UNCHANGED <<mic, irqOn, isr, flag, fifo_sound, read_ptr, size_fifo, local>>

InitReadPtr ==
  /\ MainStep("init_read_ptr", "init_size_fifo")
  /\ read_ptr' = 0
  /\ UNCHANGED <<mic, irqOn, isr, flag, fifo_sound, write_ptr, size_fifo,
                 local, raced>>

InitSize ==
  /\ MainStep("init_size_fifo", "init_slots")
  /\ size_fifo' = 0
  /\ reg' = 0
  /\ UNCHANGED <<mic, irqOn, isr, flag, fifo_sound, read_ptr, write_ptr,
                 hsound, status, counter, raced>>

InitSlot ==
  /\ MainStep("init_slots", "init_slots")
  /\ reg \in Slots
  /\ fifo_sound' = [fifo_sound EXCEPT ![reg] = 0]
  /\ reg' = reg + 1
  /\ UNCHANGED <<mic, irqOn, isr, flag, read_ptr, write_ptr, size_fifo,
                 hsound, status, counter, raced>>

Register ==     \* alt_ic_isr_register also enables the interrupt
  /\ MainStep("init_slots", "idle")
  /\ reg = STANDARD_QUEUE_SIZE
  /\ irqOn' = TRUE
  /\ UNCHANGED <<mic, isr, flag, queue, local, raced>>

Hardware == \E v \in Raw : HwSample(v)

mic_isr == IsrEnter \/ IsrTake \/ IsrRestart \/ IsrBreak \/ IsrReturn

MIC_getSample == \/ GetSample \/ IrqDisable \/ PickRefused \/ PickRead
                 \/ PickAdvance \/ PickLoad \/ PickStore \/ IrqEnable \/ Judge

QueueInit == InitWritePtr \/ InitReadPtr \/ InitSize \/ InitSlot \/ Register

Next == \/ Hardware \/ mic_isr \/ MIC_getSample
        \/ MIC_start \/ MIC_stop \/ MIC_init \/ QueueInit

Spec == Init /\ [][Next]_vars

(***************************************************************************)
(* Properties                                                              *)
(***************************************************************************)

(* Every variable has its type.  With size_fifo <= STANDARD_QUEUE_SIZE and *)
(* both pointers inside the array this also says that no access of the     *)
(* handler or of the main program, raced or not, leaves fifo_sound.        *)
HwType    == /\ hw \in Seq(Raw) /\ Len(hw) <= HwCapacity
             /\ enable \in BOOLEAN /\ irq \in BOOLEAN
IsrType   == irqOn \in BOOLEAN /\ isr \in 0 .. IsrEnd /\ flag \in BOOLEAN
QueueType == /\ fifo_sound \in [Slots -> Sample]
             /\ read_ptr \in Slots /\ write_ptr \in Slots
             /\ size_fifo \in 0 .. STANDARD_QUEUE_SIZE
             /\ raced \in BOOLEAN
MainType  == /\ main \in {"idle", "mask", "pick", "advance", "load", "store",
                          "unmask", "judge", "init_write_ptr",
                          "init_read_ptr", "init_size_fifo", "init_slots"}
             /\ reg \in 0 .. STANDARD_QUEUE_SIZE
             /\ hsound \in Sample
             /\ status \in {"NONE", "EMPTY", "FULL", "READY", "ERROR"}
             /\ counter \in 0 .. MAX_POT_ERRORS

TypeOK == HwType /\ IsrType /\ QueueType /\ MainType

(* MIC_getSample never returns MICROPHONE_STATUS_FULL: a full ring refuses *)
(* samples, so size_fifo never exceeds its capacity and the branch of the  *)
(* recorder that handles an overflow is dead code.                         *)
FullNeverReported == status # "FULL"

(* While pick_from_queue is past its size test, the main program counts    *)
(* the sample it has read as taken.                                        *)
Taking  == main \in {"advance", "load", "store"}
Oldest  == IF main = "advance" THEN After(read_ptr) ELSE read_ptr
Pending == IF Taking THEN size_fifo - 1 ELSE size_fifo

(* The three fields of Queue_t agree outside queue_init, in spite of the   *)
(* handler, unless a sample arrived in the middle of the last queue_init:  *)
(* the slot the handler writes next is the one after the youngest sample.  *)
RingConsistent ==
  (main \notin QueueInitSteps /\ ~raced) => write_ptr = Place(Oldest, Pending)

(* What makes RingConsistent inductive.  The main program changes the ring *)
(* only while the handler is masked and not running; ...                   *)
Masked == main \in {"pick", "advance", "load", "store", "unmask"} =>
          ~irqOn /\ isr = 0

(* ... a sample being taken is in the ring, and the register holds its     *)
(* size when it is stored back; ...                                        *)
TakingOne == /\ Taking => size_fifo >= 1
             /\ main = "store" => reg = size_fifo

(* ... queue_init, unless raced, leaves behind the zeros it has stored.    *)
InitProgress ==
  ~raced => /\ main \in QueueInitSteps => write_ptr = 0
            /\ main \in QueueInitSteps \ {"init_read_ptr"} => read_ptr = 0
            /\ main = "init_slots" => size_fifo = 0

(* Only ERROR, which ends the use of the microphone, exhausts the counter. *)
CounterOK == counter < MAX_POT_ERRORS \/ (status = "ERROR" /\ main = "idle")

IInv == /\ TypeOK /\ FullNeverReported /\ RingConsistent
        /\ Masked /\ TakingOne /\ InitProgress /\ CounterOK

(* The samples the ring holds, oldest first. *)
Contents == [i \in 1 .. Pending |-> fifo_sound[Place(Oldest, i - 1)]]

Intact == main \notin QueueInitSteps /\ main # "init_write_ptr" /\ ~raced

Channel == INSTANCE MicChannel WITH
  Capacity <- STANDARD_QUEUE_SIZE,
  q        <- IF Intact THEN Contents ELSE << >>,
  intact   <- Intact,
  taken    <- hsound

(* The ring with its handler and its masked consumer is a bounded          *)
(* FIFO: no sample is delivered twice, out of order, or torn, and none     *)
(* that the ring has taken in is lost, until it is initialised again.      *)
IsChannel == Channel!Spec

(* Fairness: an enabled microphone keeps producing samples, the processor  *)
(* runs, and it takes a pending interrupt as soon as it is enabled, even   *)
(* when the main program masks it again and again.                         *)
Fairness ==
  /\ WF_vars(Hardware)
  /\ SF_vars(IsrEnter)
  /\ WF_vars(IsrTake \/ IsrRestart \/ IsrBreak \/ IsrReturn)
  /\ WF_vars(MIC_getSample)
  /\ WF_vars(QueueInit)

FairSpec == Spec /\ Fairness

(* A full hardware FIFO does not stay full while the microphone is on,     *)
(* although mic_isr clears the interrupt with samples left in the FIFO:    *)
(* the next sample raises it again and the handler restarts the FIFO.      *)
FullFifoRecovers ==
  (enable /\ Len(hw) = HwCapacity) ~> (~enable \/ Len(hw) < HwCapacity)

=============================================================================
