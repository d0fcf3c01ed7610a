--------------------------- MODULE MicQueue_proofs ---------------------------
(***************************************************************************)
(* Theorems about MicQueue, for every size of the ring and of the hardware *)
(* FIFO, every number of samples per interrupt and every set of samples.   *)
(***************************************************************************)
EXTENDS MicQueue, SequenceTheorems, TLAPS

(***************************************************************************)
(* Arithmetic of the ring.                                                 *)
(***************************************************************************)

(* A pointer stays inside the array when it is advanced. *)
LEMMA AfterSlot ==
  ASSUME NEW p \in Slots  PROVE  After(p) \in Slots
BY ConstantsOK DEF After, Slots

(* Putting a sample moves the end of the ring by one place ... *)
LEMMA PlaceNext ==
  ASSUME NEW p \in Slots, NEW n \in 0 .. STANDARD_QUEUE_SIZE - 1
  PROVE  After(Place(p, n)) = Place(p, n + 1)
BY ConstantsOK DEF After, Place, Slots

(* ... and taking one moves its start, not its end. *)
LEMMA PlaceTail ==
  ASSUME NEW p \in Slots, NEW n \in 1 .. STANDARD_QUEUE_SIZE
  PROVE  Place(After(p), n - 1) = Place(p, n)
BY ConstantsOK DEF After, Place, Slots

(* The empty hardware FIFO. *)
LEMMA EmptyFifo == << >> \in Seq(Raw) /\ Len(<< >>) = 0
OBVIOUS

(* Popping the hardware FIFO. *)
LEMMA PopFifo ==
  ASSUME NEW s \in Seq(Raw), s # << >>
  PROVE  Head(s) \in Raw /\ Tail(s) \in Seq(Raw) /\ Len(Tail(s)) = Len(s) - 1
OBVIOUS

(***************************************************************************)
(* The inductive invariant.                                                *)
(***************************************************************************)
LEMMA InitIInv == Init => IInv
<1> SUFFICES ASSUME Init PROVE IInv
  OBVIOUS
<1> USE ConstantsOK
<1>1. /\ hw = << >> /\ isr = 0 /\ read_ptr = 0 /\ write_ptr = 0
      /\ size_fifo = 0 /\ main = "init_write_ptr" /\ reg = 0 /\ hsound = 0
      /\ status = "NONE" /\ counter = 0 /\ fifo_sound \in [Slots -> Sample]
  BY Zenon DEF Init
<1>2. enable \in BOOLEAN /\ irq \in BOOLEAN /\ irqOn \in BOOLEAN
      /\ flag \in BOOLEAN /\ raced \in BOOLEAN
  BY Zenon DEF Init
<1> HIDE DEF Init
<1>3. HwType
  <2>1. hw \in Seq(Raw) /\ Len(hw) = 0
    BY <1>1, EmptyFifo, Zenon
  <2>2. Len(hw) <= HwCapacity
    BY <2>1
  <2> QED
    BY <1>2, <2>1, <2>2, Zenon DEF HwType
<1>4. 0 \in Slots /\ 0 \in Sample /\ 0 \in 0 .. IsrEnd
  BY DEF Slots, Sample, IsrEnd
<1>5. IsrType
  BY <1>1, <1>2, <1>4, Zenon DEF IsrType
<1>6. QueueType
  BY <1>1, <1>2, <1>4 DEF QueueType
<1>7. MainType
  BY <1>1, <1>4 DEF MainType
<1>8. FullNeverReported /\ Masked /\ TakingOne /\ CounterOK
  BY <1>1 DEF FullNeverReported, Masked, TakingOne, Taking, CounterOK
<1>9. RingConsistent /\ InitProgress
  BY <1>1 DEF RingConsistent, InitProgress, QueueInitSteps, Place, Oldest,
              Pending, Taking
<1> QED
  BY <1>3, <1>5, <1>6, <1>7, <1>8, <1>9 DEF IInv, TypeOK

(* The actions by the part of the state they disturb. *)
LEMMA HwStep == IInv /\ [Next]_vars => HwType'
<1> SUFFICES ASSUME HwType, [Next]_vars PROVE HwType'
  BY DEF IInv, TypeOK
<1> USE ConstantsOK
<1>1. ASSUME NEW v \in Raw, HwSample(v) PROVE HwType'
  BY <1>1 DEF HwSample, HwType
<1>2. CASE IsrTake
  BY <1>2, PopFifo DEF IsrTake, HwType
<1>3. CASE IsrRestart
  BY <1>3, EmptyFifo DEF IsrRestart, HwType
<1>4. CASE MIC_start
  BY <1>4, EmptyFifo DEF MIC_start, HwType
<1>5. CASE IsrReturn \/ MIC_stop
  BY <1>5 DEF IsrReturn, MIC_stop, HwType
<1>6. CASE UNCHANGED mic
  BY <1>6 DEF HwType, mic
<1>7. CASE IsrEnter \/ IsrBreak \/ MIC_getSample \/ MIC_init \/ QueueInit
           \/ UNCHANGED vars
  BY <1>6, <1>7 DEF IsrEnter, IsrBreak, MIC_getSample, GetSample, IrqDisable,
     PickRefused, PickRead, PickAdvance, PickLoad, PickStore, IrqEnable, Judge,
     MIC_init, QueueInit, InitWritePtr, InitReadPtr, InitSize, InitSlot,
     Register, vars
<1> QED
  BY <1>1, <1>2, <1>3, <1>4, <1>5, <1>7 DEF Next, Hardware, mic_isr

LEMMA IsrStep == IInv /\ [Next]_vars => IsrType'
<1> SUFFICES ASSUME IsrType, [Next]_vars PROVE IsrType'
  BY DEF IInv, TypeOK
<1> USE ConstantsOK DEF IsrType, IsrEnd
<1>1. CASE Hardware
  BY <1>1 DEF Hardware, HwSample
<1>2. CASE IsrEnter \/ IsrRestart \/ IsrReturn
  BY <1>2 DEF IsrEnter, IsrRestart, IsrReturn
<1>3. CASE IsrTake
  <2>1. isr' \in 0 .. IsrEnd /\ flag' \in BOOLEAN /\ irqOn' \in BOOLEAN
    BY <1>3 DEF IsrTake
  <2> QED
    BY <2>1
<1>4. CASE IsrBreak
  BY <1>4 DEF IsrBreak
<1>5. CASE MIC_getSample
  BY <1>5 DEF MIC_getSample, GetSample, IrqDisable, PickRefused, PickRead,
     PickAdvance, PickLoad, PickStore, IrqEnable, Judge
<1>6. CASE MIC_start \/ MIC_stop \/ MIC_init
  BY <1>6 DEF MIC_start, MIC_stop, MIC_init
<1>7. CASE QueueInit
  BY <1>7 DEF QueueInit, InitWritePtr, InitReadPtr, InitSize, InitSlot, Register
<1>8. CASE UNCHANGED vars
  BY <1>8 DEF vars
<1> QED
  BY <1>1, <1>2, <1>3, <1>4, <1>5, <1>6, <1>7, <1>8 DEF Next, mic_isr

LEMMA QueueStep == IInv /\ [Next]_vars => QueueType'
<1> SUFFICES ASSUME HwType, QueueType, TakingOne, MainType, [Next]_vars
             PROVE  QueueType'
  BY DEF IInv, TypeOK
<1> USE ConstantsOK
<1>1. CASE IsrTake
  <2>1. Head(hw) \in Sample
    BY <1>1, PopFifo DEF IsrTake, HwType, Sample
  <2>2. fifo_sound' \in [Slots -> Sample]
    <3>1. \/ fifo_sound' = fifo_sound
          \/ fifo_sound' = [fifo_sound EXCEPT ![write_ptr] = Head(hw)]
      BY <1>1 DEF IsrTake, put_on_queue, queue
    <3>2. fifo_sound \in [Slots -> Sample] /\ write_ptr \in Slots
      BY DEF QueueType
    <3> QED
      BY <2>1, <3>1, <3>2
  <2>3. \/ UNCHANGED <<read_ptr, write_ptr, size_fifo, raced>>
        \/ /\ size_fifo < STANDARD_QUEUE_SIZE /\ read_ptr' = read_ptr
           /\ write_ptr' = After(write_ptr) /\ size_fifo' = size_fifo + 1
           /\ raced' = (raced \/ main \in QueueInitSteps)
    BY <1>1, Zenon DEF IsrTake, put_on_queue, queue
  <2>4. raced' \in BOOLEAN
    BY <2>3, Zenon DEF QueueType
  <2>5. read_ptr' \in Slots /\ write_ptr' \in Slots
        /\ size_fifo' \in 0 .. STANDARD_QUEUE_SIZE
    BY <2>3, AfterSlot DEF QueueType
  <2> QED
    BY <2>2, <2>4, <2>5 DEF QueueType
<1>2. CASE PickAdvance
  BY <1>2, AfterSlot DEF PickAdvance, QueueType
<1>3. CASE PickStore
  BY <1>3 DEF PickStore, TakingOne, Taking, MainStep, QueueType
<1>4. CASE InitSlot
  <2>1. 0 \in Sample
    BY DEF Sample
  <2>2. fifo_sound' \in [Slots -> Sample]
    BY <1>4, <2>1 DEF InitSlot, QueueType
  <2> QED
    BY <1>4, <2>2 DEF InitSlot, QueueType
<1>5. CASE InitWritePtr \/ InitReadPtr \/ InitSize
  <2>1. /\ fifo_sound' = fifo_sound
        /\ write_ptr' \in {write_ptr, 0}
        /\ read_ptr' \in {read_ptr, 0}
        /\ size_fifo' \in {size_fifo, 0}
    BY <1>5 DEF InitWritePtr, InitReadPtr, InitSize
  <2>2. raced' \in BOOLEAN
    BY <1>5, Zenon DEF InitWritePtr, InitReadPtr, InitSize, QueueType
  <2> QED
    BY <2>1, <2>2 DEF QueueType, Slots
<1>6. CASE UNCHANGED <<queue, raced>>
  BY <1>6 DEF queue, QueueType
<1>7. CASE \/ Hardware \/ IsrEnter \/ IsrRestart \/ IsrBreak \/ IsrReturn
           \/ GetSample \/ IrqDisable \/ PickRefused \/ PickRead \/ PickLoad
           \/ IrqEnable \/ Judge \/ MIC_start \/ MIC_stop \/ MIC_init
           \/ Register \/ UNCHANGED vars
  BY <1>6, <1>7 DEF Hardware, HwSample, IsrEnter, IsrRestart, IsrBreak,
     IsrReturn, GetSample, IrqDisable, PickRefused, PickRead, PickLoad,
     IrqEnable, Judge, MIC_start, MIC_stop, MIC_init, Register, vars
<1> QED
  BY <1>1, <1>2, <1>3, <1>4, <1>5, <1>7
  DEF Next, mic_isr, MIC_getSample, QueueInit

LEMMA MainTypeStep == IInv /\ [Next]_vars => MainType'
<1> SUFFICES ASSUME QueueType, CounterOK, MainType, [Next]_vars
             PROVE  MainType'
  BY DEF IInv, TypeOK
<1> USE ConstantsOK DEF MainType, MainStep
<1>1. CASE Hardware \/ mic_isr
  BY <1>1 DEF Hardware, HwSample, mic_isr, IsrEnter, IsrTake, IsrRestart,
     IsrBreak, IsrReturn, local
<1>2. CASE GetSample \/ IrqDisable \/ PickRefused \/ PickAdvance \/ IrqEnable
  BY <1>2 DEF GetSample, IrqDisable, PickRefused, PickAdvance, IrqEnable, local
<1>3. CASE PickRead \/ PickLoad \/ PickStore
  BY <1>3 DEF PickRead, PickLoad, PickStore, QueueType
<1>4. CASE Judge
  BY <1>4 DEF Judge, CounterOK
<1>5. CASE MIC_start \/ MIC_stop \/ MIC_init
  BY <1>5 DEF MIC_start, MIC_stop, MIC_init, local
<1>6. CASE QueueInit
  BY <1>6 DEF QueueInit, InitWritePtr, InitReadPtr, InitSize, InitSlot,
     Register, local, Slots
<1>7. CASE UNCHANGED vars
  BY <1>7 DEF vars, local
<1> QED
  BY <1>1, <1>2, <1>3, <1>4, <1>5, <1>6, <1>7 DEF Next, MIC_getSample

(* The handler and the masked main program never interleave in the ring. *)
LEMMA MaskedStep == IInv /\ [Next]_vars => (Masked /\ TakingOne)'
<1> SUFFICES ASSUME IsrType, QueueType, Masked, TakingOne, [Next]_vars
             PROVE  (Masked /\ TakingOne)'
  BY DEF IInv, TypeOK
<1> USE ConstantsOK DEF Masked, TakingOne, Taking, MainStep
<1>1. CASE Hardware
  BY <1>1 DEF Hardware, HwSample, local, queue
<1>2. CASE IsrTake
  BY <1>2 DEF IsrTake
<1>3. CASE IsrEnter \/ IsrRestart \/ IsrBreak \/ IsrReturn
  BY <1>3 DEF IsrEnter, IsrRestart, IsrBreak, IsrReturn, local, queue
<1>4. CASE MIC_getSample
  BY <1>4 DEF MIC_getSample, GetSample, IrqDisable, PickRefused, PickRead,
     PickAdvance, PickLoad, PickStore, IrqEnable, Judge, local, queue
<1>5. CASE MIC_start \/ MIC_stop \/ MIC_init \/ QueueInit
  BY <1>5 DEF MIC_start, MIC_stop, MIC_init, QueueInit, InitWritePtr,
     InitReadPtr, InitSize, InitSlot, Register, local, queue
<1>6. CASE UNCHANGED vars
  BY <1>6 DEF vars, local, queue
<1> QED
  BY <1>1, <1>2, <1>3, <1>4, <1>5, <1>6 DEF Next, mic_isr

(* A full ring is never over-full, and the counter stops at ERROR. *)
LEMMA StatusStep == IInv /\ [Next]_vars => (FullNeverReported /\ CounterOK)'
<1> SUFFICES ASSUME QueueType, MainType, FullNeverReported, CounterOK,
                    [Next]_vars
             PROVE  (FullNeverReported /\ CounterOK)'
  BY DEF IInv, TypeOK
<1> USE ConstantsOK DEF FullNeverReported, CounterOK, MainStep
<1>1. CASE Hardware \/ mic_isr
  BY <1>1 DEF Hardware, HwSample, mic_isr, IsrEnter, IsrTake, IsrRestart,
     IsrBreak, IsrReturn, local
<1>2. CASE GetSample \/ IrqDisable \/ IrqEnable
  BY <1>2 DEF GetSample, IrqDisable, IrqEnable, Running, local
<1>3. CASE PickRefused \/ PickRead \/ PickAdvance \/ PickLoad \/ PickStore
  BY <1>3 DEF PickRefused, PickRead, PickAdvance, PickLoad, PickStore, local,
     QueueType
<1>4. CASE Judge
  BY <1>4 DEF Judge, MainType
<1>5. CASE MIC_start \/ MIC_stop \/ MIC_init \/ QueueInit
  BY <1>5 DEF MIC_start, MIC_stop, MIC_init, QueueInit, InitWritePtr,
     InitReadPtr, InitSize, InitSlot, Register, local
<1>6. CASE UNCHANGED vars
  BY <1>6 DEF vars, local
<1> QED
  BY <1>1, <1>2, <1>3, <1>4, <1>5, <1>6 DEF Next, MIC_getSample

(* queue_init, when no sample arrives in the middle, stores three zeros. *)
LEMMA InitProgressStep == IInv /\ [Next]_vars => InitProgress'
<1> SUFFICES ASSUME InitProgress, [Next]_vars PROVE InitProgress'
  BY DEF IInv
<1> USE DEF InitProgress, QueueInitSteps, MainStep
<1>1. CASE IsrTake
  BY <1>1 DEF IsrTake, put_on_queue, queue
<1>2. CASE Hardware \/ IsrEnter \/ IsrRestart \/ IsrBreak \/ IsrReturn
  BY <1>2 DEF Hardware, HwSample, IsrEnter, IsrRestart, IsrBreak, IsrReturn,
     queue
<1>3. CASE MIC_getSample
  BY <1>3 DEF MIC_getSample, GetSample, IrqDisable, PickRefused, PickRead,
     PickAdvance, PickLoad, PickStore, IrqEnable, Judge
<1>4. CASE MIC_start \/ MIC_stop \/ MIC_init
  BY <1>4 DEF MIC_start, MIC_stop, MIC_init
<1>5. CASE QueueInit
  BY <1>5 DEF QueueInit, InitWritePtr, InitReadPtr, InitSize, InitSlot, Register
<1>6. CASE UNCHANGED vars
  BY <1>6 DEF vars, queue
<1> QED
  BY <1>1, <1>2, <1>3, <1>4, <1>5, <1>6 DEF Next, mic_isr

LEMMA RingStep == IInv /\ [Next]_vars => RingConsistent'
<1> SUFFICES ASSUME IInv, [Next]_vars, main' \notin QueueInitSteps, ~raced'
             PROVE  write_ptr' = Place(Oldest', Pending')
  BY DEF RingConsistent, Place
<1> USE DEF IInv, TypeOK, QueueType, MainStep, RingConsistent
<1>1. CASE Hardware
  BY <1>1 DEF Hardware, HwSample, local, queue, Oldest, Pending, Taking, Place, After
<1>2. CASE IsrTake
  <2>1. CASE size_fifo < STANDARD_QUEUE_SIZE
    <3>1. ~Taking /\ main \notin QueueInitSteps /\ ~raced /\ main' = main
      BY <1>2, <2>1 DEF IsrTake, put_on_queue, Masked, Taking
    <3>2. write_ptr = Place(read_ptr, size_fifo)
      BY <3>1 DEF Oldest, Pending, Taking
    <3>3. write_ptr' = After(write_ptr) /\ read_ptr' = read_ptr
          /\ size_fifo' = size_fifo + 1
      BY <1>2, <2>1 DEF IsrTake, put_on_queue
    <3>4. write_ptr' = Place(read_ptr, size_fifo + 1)
      BY <2>1, <3>2, <3>3, PlaceNext, ConstantsOK
    <3> QED
      BY <3>1, <3>3, <3>4 DEF Oldest, Pending, Taking
  <2>2. CASE ~(size_fifo < STANDARD_QUEUE_SIZE)
    BY <1>2, <2>2 DEF IsrTake, put_on_queue, queue, Oldest, Pending, Taking, Place, After
  <2> QED
    BY <2>1, <2>2
<1>3. CASE IsrEnter \/ IsrRestart \/ IsrBreak \/ IsrReturn
  BY <1>3 DEF IsrEnter, IsrRestart, IsrBreak, IsrReturn, mic, local, queue,
              Oldest, Pending, Taking, Place, After
<1>4. CASE GetSample \/ IrqDisable \/ PickRefused \/ IrqEnable \/ Judge
  BY <1>4 DEF GetSample, IrqDisable, PickRefused, IrqEnable, Judge, mic, local,
              queue, Oldest, Pending, Taking, Place, After, QueueInitSteps
<1>5. CASE PickRead
  <2>1. write_ptr = Place(read_ptr, size_fifo) /\ UNCHANGED queue
    BY <1>5 DEF PickRead, Oldest, Pending, Taking, QueueInitSteps
  <2>2. Oldest' = After(read_ptr) /\ Pending' = size_fifo - 1
    BY <1>5 DEF PickRead, queue, Oldest, Pending, Taking, After
  <2>3. Place(After(read_ptr), size_fifo - 1) = Place(read_ptr, size_fifo)
    BY <1>5, PlaceTail DEF PickRead
  <2> QED
    BY <2>1, <2>2, <2>3 DEF queue
<1>6. CASE PickAdvance \/ PickLoad \/ PickStore
  BY <1>6 DEF PickAdvance, PickLoad, PickStore, mic, local, queue, TakingOne,
              Oldest, Pending, Taking, Place, After, QueueInitSteps
<1>7. CASE MIC_start \/ MIC_stop \/ MIC_init
  BY <1>7 DEF MIC_start, MIC_stop, MIC_init, mic, local, queue,
              Oldest, Pending, Taking, Place, After, QueueInitSteps
<1>8. CASE QueueInit
  BY <1>8, ConstantsOK
  DEF QueueInit, InitWritePtr, InitReadPtr, InitSize, InitSlot, Register,
      InitProgress, mic, local, queue, Oldest, Pending, Taking, Place, After,
      QueueInitSteps
<1>9. CASE UNCHANGED vars
  BY <1>9 DEF vars, mic, local, queue, Oldest, Pending, Taking, Place, After
<1> QED
  BY <1>1, <1>2, <1>3, <1>4, <1>5, <1>6, <1>7, <1>8, <1>9
  DEF Next, mic_isr, MIC_getSample

(* In every reachable state of MicQueue the inductive invariant holds. *)
THEOREM Invariance == Spec => []IInv
<1>1. Init => IInv
  BY InitIInv
<1>2. IInv /\ [Next]_vars => IInv'
  BY HwStep, IsrStep, QueueStep, MainTypeStep, MaskedStep, StatusStep,
     InitProgressStep, RingStep DEF IInv, TypeOK
<1> QED
  BY <1>1, <1>2, PTL DEF Spec

(* No access leaves the ring, no counter leaves its range. *)
THEOREM TypeCorrect == Spec => []TypeOK
<1>1. IInv => TypeOK
  BY DEF IInv
<1> QED
  BY <1>1, Invariance, PTL

(* The recorder's branch for MICROPHONE_STATUS_FULL is dead code. *)
THEOREM FullIsDead == Spec => []FullNeverReported
<1>1. IInv => FullNeverReported
  BY DEF IInv
<1> QED
  BY <1>1, Invariance, PTL

(* The ring's fields agree in spite of the handler. *)
THEOREM RingIsConsistent == Spec => []RingConsistent
<1>1. IInv => RingConsistent
  BY DEF IInv
<1> QED
  BY <1>1, Invariance, PTL

(***************************************************************************)
(* The refinement: n samples of the array f from place p on, as a sequence *)
(* of the channel.                                                         *)
(***************************************************************************)
Ring(f, p, n) == [i \in 1 .. n |-> f[Place(p, i - 1)]]

(* Different samples lie in different slots. *)
LEMMA PlaceApart ==
  ASSUME NEW p \in Slots, NEW n \in 0 .. STANDARD_QUEUE_SIZE
  PROVE  \A i \in 1 .. n : /\ Place(p, i - 1) \in Slots
                           /\ n < STANDARD_QUEUE_SIZE
                                => Place(p, i - 1) # Place(p, n)
BY ConstantsOK DEF Place, Slots

LEMMA RingType ==
  ASSUME NEW p \in Slots, NEW n \in 0 .. STANDARD_QUEUE_SIZE,
         NEW f \in [Slots -> Sample]
  PROVE  /\ Ring(f, p, n) \in Seq(Sample) /\ Len(Ring(f, p, n)) = n
         /\ \A i \in 1 .. n : Ring(f, p, n)[i] = f[Place(p, i - 1)]
<1>1. \A i \in 1 .. n : f[Place(p, i - 1)] \in Sample
  BY PlaceApart
<1>2. n \in Nat
  BY ConstantsOK
<1> QED
  BY <1>1, <1>2 DEF Ring

(* A sample written behind the youngest one is appended ... *)
LEMMA PutIsAppend ==
  ASSUME NEW p \in Slots, NEW n \in 0 .. STANDARD_QUEUE_SIZE - 1,
         NEW f \in [Slots -> Sample], NEW v \in Sample
  PROVE  Ring([f EXCEPT ![Place(p, n)] = v], p, n + 1)
           = Append(Ring(f, p, n), v)
<1> DEFINE g == [f EXCEPT ![Place(p, n)] = v]
<1>1. Place(p, n) \in Slots
  BY ConstantsOK DEF Place, Slots
<1>2. g \in [Slots -> Sample] /\ g[Place(p, n)] = v
  BY <1>1
<1>3. n \in 0 .. STANDARD_QUEUE_SIZE /\ n + 1 \in 0 .. STANDARD_QUEUE_SIZE
  BY ConstantsOK
<1>4. /\ Ring(g, p, n + 1) \in Seq(Sample) /\ Len(Ring(g, p, n + 1)) = n + 1
      /\ \A i \in 1 .. n + 1 : Ring(g, p, n + 1)[i] = g[Place(p, i - 1)]
  BY <1>2, <1>3, RingType
<1>5. /\ Ring(f, p, n) \in Seq(Sample) /\ Len(Ring(f, p, n)) = n
      /\ \A i \in 1 .. n : Ring(f, p, n)[i] = f[Place(p, i - 1)]
  BY <1>3, RingType
<1>6. /\ Append(Ring(f, p, n), v) \in Seq(Sample)
      /\ Len(Append(Ring(f, p, n), v)) = n + 1
      /\ \A i \in 1 .. n : Append(Ring(f, p, n), v)[i] = Ring(f, p, n)[i]
      /\ Append(Ring(f, p, n), v)[n + 1] = v
  BY <1>5, AppendProperties
<1>7. ASSUME NEW i \in 1 .. n + 1
      PROVE  Ring(g, p, n + 1)[i] = Append(Ring(f, p, n), v)[i]
  <2>1. CASE i = n + 1
    <3>1. i - 1 = n
      BY <1>3, <2>1
    <3>2. Ring(g, p, n + 1)[i] = g[Place(p, n)]
      BY <1>4, <3>1
    <3> QED
      BY <1>2, <1>6, <2>1, <3>2
  <2>2. CASE i \in 1 .. n
    <3>1. Place(p, i - 1) \in Slots /\ Place(p, i - 1) # Place(p, n)
      <4>1. n < STANDARD_QUEUE_SIZE
        BY ConstantsOK
      <4> QED
        BY <1>3, <2>2, <4>1, PlaceApart
    <3>2. g[Place(p, i - 1)] = f[Place(p, i - 1)]
      BY <1>1, <3>1
    <3> QED
      BY <1>4, <1>5, <1>6, <2>2, <3>2
  <2>3. i = n + 1 \/ i \in 1 .. n
    BY ConstantsOK
  <2> QED
    BY <2>1, <2>2, <2>3
<1> HIDE DEF g
<1>8. Ring(g, p, n + 1) = Append(Ring(f, p, n), v)
  <2>1. Len(Ring(g, p, n + 1)) = Len(Append(Ring(f, p, n), v))
    BY <1>4, <1>6
  <2>2. \A i \in 1 .. Len(Ring(g, p, n + 1)) :
          Ring(g, p, n + 1)[i] = Append(Ring(f, p, n), v)[i]
    BY <1>4, <1>7
  <2> QED
    BY <1>4, <1>6, <2>1, <2>2, SeqEqual
<1> QED
  BY <1>8 DEF g

(* ... and the oldest one, when the start moves on, is taken. *)
LEMMA TakeIsTail ==
  ASSUME NEW p \in Slots, NEW n \in 1 .. STANDARD_QUEUE_SIZE,
         NEW f \in [Slots -> Sample]
  PROVE  /\ Ring(f, p, n) # << >> /\ Head(Ring(f, p, n)) = f[p]
         /\ Ring(f, After(p), n - 1) = Tail(Ring(f, p, n))
<1>1. /\ n \in 0 .. STANDARD_QUEUE_SIZE /\ n - 1 \in 0 .. STANDARD_QUEUE_SIZE
      /\ Place(p, 1 - 1) = p
  BY ConstantsOK DEF Place, Slots
<1>2. /\ Ring(f, p, n) \in Seq(Sample) /\ Len(Ring(f, p, n)) = n
      /\ \A i \in 1 .. n : Ring(f, p, n)[i] = f[Place(p, i - 1)]
  BY <1>1, RingType
<1>3. /\ Ring(f, After(p), n - 1) \in Seq(Sample)
      /\ Len(Ring(f, After(p), n - 1)) = n - 1
      /\ \A i \in 1 .. n - 1 :
           Ring(f, After(p), n - 1)[i] = f[Place(After(p), i - 1)]
  BY <1>1, AfterSlot, RingType
<1>4. /\ Ring(f, p, n) # << >> /\ Head(Ring(f, p, n)) = Ring(f, p, n)[1]
      /\ Tail(Ring(f, p, n)) \in Seq(Sample)
      /\ Len(Tail(Ring(f, p, n))) = n - 1
      /\ \A i \in 1 .. n - 1 : Tail(Ring(f, p, n))[i] = Ring(f, p, n)[i + 1]
  <2>1. Ring(f, p, n) # << >>
    BY <1>2
  <2> QED
    BY <1>2, <2>1, HeadTailProperties
<1>5. Ring(f, p, n)[1] = f[p]
  BY <1>1, <1>2
<1>6. ASSUME NEW i \in 1 .. n - 1
      PROVE  Ring(f, After(p), n - 1)[i] = Tail(Ring(f, p, n))[i]
  <2>1. Place(After(p), i - 1) = Place(p, i)
    <3>1. i \in 1 .. STANDARD_QUEUE_SIZE
      BY ConstantsOK
    <3> QED
      BY <3>1, PlaceTail
  <2>2. i + 1 \in 1 .. n /\ (i + 1) - 1 = i
    OBVIOUS
  <2>3. Ring(f, p, n)[i + 1] = f[Place(p, (i + 1) - 1)]
    BY <1>2, <2>2
  <2> QED
    BY <1>3, <1>4, <2>1, <2>2, <2>3
<1> QED
  BY <1>3, <1>4, <1>5, <1>6, SeqEqual

(* What the ring holds while the handler may put a sample into it, or the  *)
(* main program takes one. *)
LEMMA ContentsAreRing ==
  /\ Contents = Ring(fifo_sound, Oldest, Pending)
  /\ Contents' = Ring(fifo_sound', Oldest', Pending')
BY DEF Contents, Ring

(* Nothing that the channel sees changes. *)
Unseen == UNCHANGED <<fifo_sound, hsound, Oldest, Pending, Intact>>

(* An invisible step of the handler, the hardware or the main program. *)
LEMMA UnseenStutters == Unseen => UNCHANGED Channel!vars
BY ContentsAreRing DEF Unseen, Channel!vars

(* Putting a sample is a Put of an intact channel; of one that is not,     *)
(* nothing is seen. *)
LEMMA TakeIsPut == IInv /\ IsrTake => [Channel!Next]_Channel!vars
<1> SUFFICES ASSUME IInv, IsrTake PROVE [Channel!Next]_Channel!vars
  OBVIOUS
<1> USE ConstantsOK
<1>0. /\ hw \in Seq(Raw) /\ hw # << >> /\ fifo_sound \in [Slots -> Sample]
      /\ read_ptr \in Slots /\ size_fifo \in 0 .. STANDARD_QUEUE_SIZE
      /\ ~Taking /\ main' = main /\ hsound' = hsound /\ ~Taking'
  BY DEF IInv, TypeOK, HwType, QueueType, IsrTake, Masked, Taking, local
<1>1. Head(hw) \in Sample
  BY <1>0, PopFifo DEF Sample
<1>2. CASE ~(size_fifo < STANDARD_QUEUE_SIZE)
  <2>1. UNCHANGED <<queue, raced>>
    BY <1>2 DEF IsrTake, put_on_queue
  <2>2. Unseen
    BY <1>0, <2>1 DEF Unseen, queue, Oldest, Pending, Intact
  <2> QED
    BY <2>2, UnseenStutters
<1>3. CASE size_fifo < STANDARD_QUEUE_SIZE
  <2>1. /\ fifo_sound' = [fifo_sound EXCEPT ![write_ptr] = Head(hw)]
        /\ size_fifo' = size_fifo + 1 /\ read_ptr' = read_ptr
        /\ raced' = (raced \/ main \in QueueInitSteps)
    BY <1>3 DEF IsrTake, put_on_queue
  <2>2. Intact' = Intact
    BY <1>0, <2>1, Zenon DEF Intact
  <2>3. CASE ~Intact
    BY <1>0, <2>2, <2>3 DEF Channel!vars
  <2>4. CASE Intact
    <3>1. /\ Oldest = read_ptr /\ Pending = size_fifo
          /\ Oldest' = read_ptr /\ Pending' = size_fifo + 1
      BY <1>0, <2>1 DEF Oldest, Pending, Taking
    <3>2. write_ptr = Place(read_ptr, size_fifo)
      BY <2>4, <3>1 DEF IInv, RingConsistent, Intact
    <3>3. size_fifo \in 0 .. STANDARD_QUEUE_SIZE - 1
      BY <1>0, <1>3
    <3>4. Contents' = Append(Contents, Head(hw))
      BY <1>0, <1>1, <2>1, <3>1, <3>2, <3>3, PutIsAppend, ContentsAreRing
    <3>5. Len(Contents) < STANDARD_QUEUE_SIZE
      BY <1>0, <1>3, <3>1, RingType, ContentsAreRing
    <3>6. Channel!Put(Head(hw))
      BY <1>0, <2>2, <2>4, <3>4, <3>5 DEF Channel!Put
    <3> QED
      BY <1>1, <3>6 DEF Channel!Next
  <2> QED
    BY <2>3, <2>4
<1> QED
  BY <1>2, <1>3

(* Reading the oldest sample is a Take of an intact channel. *)
LEMMA PickIsTake == IInv /\ PickRead => [Channel!Next]_Channel!vars
<1> SUFFICES ASSUME IInv, PickRead PROVE [Channel!Next]_Channel!vars
  OBVIOUS
<1>0. /\ fifo_sound \in [Slots -> Sample] /\ read_ptr \in Slots
      /\ size_fifo \in 1 .. STANDARD_QUEUE_SIZE
      /\ hsound' = fifo_sound[read_ptr] /\ UNCHANGED <<queue, raced>>
      /\ main = "pick" /\ main' = "advance" /\ ~Taking /\ Taking'
  BY DEF IInv, TypeOK, QueueType, PickRead, MainStep, Taking
<1>1. Intact' = Intact
  BY <1>0 DEF Intact, QueueInitSteps
<1>2. CASE ~Intact
  <2>1. hsound' \in Sample
    BY <1>0
  <2>2. Channel!Anything
    BY <1>1, <1>2, <2>1 DEF Channel!Anything
  <2> QED
    BY <2>2 DEF Channel!Next
<1>3. CASE Intact
  <2>1. /\ Oldest = read_ptr /\ Pending = size_fifo
        /\ Oldest' = After(read_ptr) /\ Pending' = size_fifo - 1
    BY <1>0 DEF Oldest, Pending, queue, After
  <2>2. /\ Contents # << >> /\ Head(Contents) = fifo_sound[read_ptr]
        /\ Contents' = Tail(Contents)
    BY <1>0, <2>1, TakeIsTail, ContentsAreRing DEF queue
  <2>3. Channel!Take
    BY <1>0, <1>1, <1>3, <2>2 DEF Channel!Take
  <2> QED
    BY <2>3 DEF Channel!Next
<1> QED
  BY <1>2, <1>3

(* The main program's other steps through the ring are not seen, ... *)
LEMMA PickIsUnseen ==
  IInv /\ (PickAdvance \/ PickLoad \/ PickStore) => Unseen
<1> SUFFICES ASSUME IInv, PickAdvance \/ PickLoad \/ PickStore PROVE Unseen
  OBVIOUS
<1>0. size_fifo \in 0 .. STANDARD_QUEUE_SIZE /\ TakingOne
  BY DEF IInv, TypeOK, QueueType
<1>1. UNCHANGED <<fifo_sound, hsound, Intact>>
  BY DEF PickAdvance, PickLoad, PickStore, MainStep, queue, local, Intact,
         QueueInitSteps
<1>2. UNCHANGED <<Oldest, Pending>>
  BY <1>0 DEF PickAdvance, PickLoad, PickStore, MainStep, queue, Oldest,
              Pending, Taking, After, TakingOne
<1> QED
  BY <1>1, <1>2 DEF Unseen

(* ... and an initialisation breaks the channel and makes it ready again. *)
LEMMA InitIsBreak == IInv /\ (MIC_init \/ QueueInit) => [Channel!Next]_Channel!vars
<1> SUFFICES ASSUME IInv, MIC_init \/ QueueInit
             PROVE  [Channel!Next]_Channel!vars
  OBVIOUS
<1>0. hsound' = hsound
  BY DEF MIC_init, QueueInit, InitWritePtr, InitReadPtr, InitSize, InitSlot,
         Register, local
<1>00. Intact \in BOOLEAN /\ Intact' \in BOOLEAN
  BY DEF Intact
<1>1. CASE MIC_init
  <2>1. ~Intact'
    BY <1>1 DEF MIC_init, MainStep, Intact
  <2>2. CASE Intact
    BY <1>0, <2>1, <2>2 DEF Channel!Next, Channel!Break
  <2>3. CASE ~Intact
    BY <1>0, <1>00, <2>1, <2>3 DEF Channel!vars
  <2> QED
    BY <2>2, <2>3
<1>2. CASE InitWritePtr \/ InitReadPtr \/ InitSize \/ InitSlot
  <2>1. ~Intact /\ ~Intact'
    BY <1>2 DEF InitWritePtr, InitReadPtr, InitSize, InitSlot, MainStep, Intact,
                QueueInitSteps
  <2> QED
    BY <1>0, <1>00, <2>1 DEF Channel!vars
<1>3. CASE Register
  <2>1. /\ ~Intact /\ UNCHANGED <<queue, raced>> /\ main = "init_slots"
        /\ main' = "idle"
    BY <1>3 DEF Register, MainStep, Intact, QueueInitSteps
  <2>2. CASE Intact'
    <3>1. ~raced
      BY <2>1, <2>2 DEF Intact
    <3>2. size_fifo = 0
      BY <2>1, <3>1 DEF IInv, InitProgress, QueueInitSteps
    <3>3. Pending' = 0
      BY <2>1, <3>2 DEF Pending, Taking, queue
    <3>4. Contents' = << >>
      BY <3>3 DEF Contents
    <3> QED
      BY <1>0, <2>1, <2>2, <3>4 DEF Channel!Next, Channel!Ready
  <2>3. CASE ~Intact'
    BY <1>0, <1>00, <2>1, <2>3 DEF Channel!vars
  <2> QED
    BY <2>2, <2>3
<1> QED
  BY <1>1, <1>2, <1>3 DEF QueueInit

(* The ring with its handler and its masked consumer, for every size, is a *)
(* bounded first-in first-out channel that loses no sample it has taken    *)
(* in: mic_isr, MIC_getSample and MIC_init implement MicChannel.           *)
THEOREM Implements == Spec => IsChannel
<1>1. Init => Channel!Init
  BY DEF Init, Channel!Init, Intact, Sample
<1>2. IInv /\ [Next]_vars => [Channel!Next]_Channel!vars
  <2> SUFFICES ASSUME IInv, [Next]_vars PROVE [Channel!Next]_Channel!vars
    OBVIOUS
  <2>1. CASE \/ Hardware \/ IsrEnter \/ IsrRestart \/ IsrBreak \/ IsrReturn
             \/ MIC_start \/ MIC_stop \/ UNCHANGED vars
    <3>1. UNCHANGED <<queue, main, hsound, raced>>
      BY <2>1 DEF Hardware, HwSample, IsrEnter, IsrRestart, IsrBreak, IsrReturn,
                  MIC_start, MIC_stop, MainStep, vars, local
    <3>2. Unseen
      BY <3>1 DEF Unseen, queue, Oldest, Pending, Taking, Intact, After
    <3> QED
      BY <3>2, UnseenStutters
  <2>2. CASE IsrTake
    BY <2>2, TakeIsPut
  <2>3. CASE GetSample \/ IrqDisable \/ PickRefused \/ IrqEnable \/ Judge
    <3>1. /\ UNCHANGED <<queue, hsound, raced>>
          /\ main \in {"idle", "mask", "pick", "unmask", "judge"}
          /\ main' \in {"idle", "mask", "pick", "unmask", "judge"}
      BY <2>3 DEF GetSample, IrqDisable, PickRefused, IrqEnable, Judge, MainStep,
                  local
    <3>2. Unseen
      BY <3>1 DEF Unseen, queue, Oldest, Pending, Taking, Intact, After,
                  QueueInitSteps
    <3> QED
      BY <3>2, UnseenStutters
  <2>4. CASE PickRead
    BY <2>4, PickIsTake
  <2>5. CASE PickAdvance \/ PickLoad \/ PickStore
    BY <2>5, PickIsUnseen, UnseenStutters
  <2>6. CASE MIC_init \/ QueueInit
    BY <2>6, InitIsBreak
  <2> QED
    BY <2>1, <2>2, <2>3, <2>4, <2>5, <2>6 DEF Next, mic_isr, MIC_getSample
<1> QED
  BY <1>1, <1>2, Invariance, PTL DEF Spec, IsChannel, Channel!Spec

=============================================================================
