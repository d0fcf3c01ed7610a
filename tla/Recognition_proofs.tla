-------------------------- MODULE Recognition_proofs --------------------------
(***************************************************************************)
(* Theorems about Recognition, for every number of cards, of tries and of  *)
(* bases, and whatever the cards hold, the comparer shows and is said.     *)
(***************************************************************************)
EXTENDS Recognition, Profile_proofs, SequenceTheorems

LEMMA InitIInv == Init => IInv
<1> SUFFICES ASSUME Init PROVE IInv
  OBVIOUS
<1>1. /\ pc = "boot" /\ panic = "none" /\ results = Unused
      /\ bits = {} /\ ai_irq = 0 /\ ai_flag = "DOWN"
      /\ core = [c \in Cores |-> "idle"]
  BY DEF Init, ComparerInit
<1>2. Reading = {}
  BY <1>1 DEF Reading
<1>3. BasesKnown
  BY <1>1 DEF BasesKnown, Unused, NotCompared, Missing
<1>4. Returns /\ CardsKnown
  BY <1>1 DEF Returns, CardsKnown, PanicShown, InUse, Starting, Loading,
              Comparing
<1>5. CoresType /\ CoresKnown
  BY <1>1, <1>2 DEF CoresType, CoresKnown, Ended, InUse, Starting, Loading,
                    Comparing
<1> QED
  BY <1>3, <1>4, <1>5 DEF IInv

-----------------------------------------------------------------------------
(* The steps, named once for the lemmas below. *)
Elsewhere == CardHardware \/ ComparerHardware \/ Interrupts \/ UNCHANGED vars
Disk_  == DiskProgram /\ UNCHANGED <<comparer, program, fault>>
Cards_ == Boot \/ NoCards \/ Booted \/ TryCards \/ Tried
Lists  == Directory \/ ReadDatabase \/ Listed
Judge  == SelfChecked \/ Named \/ NotNamed \/ NotDetected \/ ShowDiskError
Loop   == Ready \/ Recorded \/ Processed \/ MicrophoneError \/ StartOver

LEMMA Cases ==
  ASSUME [Next]_vars
  PROVE  \/ Elsewhere \/ Disk_ \/ Cards_ \/ Lists \/ Compare \/ Compared
         \/ Judge \/ Loop
BY DEF Next, Program, Elsewhere, Disk_, Cards_, Lists, Judge, Loop

(* Hardware and interrupts leave the program where it is. *)
LEMMA ElsewhereKeeps ==
  ASSUME Elsewhere
  PROVE  /\ UNCHANGED <<pc, ret, disk_status, results, panic, base>>
         /\ UNCHANGED <<compared, overflowed>>
<1>1. CASE CardHardware
  BY <1>1 DEF CardHardware, driver, comparer, program, place
<1>2. CASE ComparerHardware
  BY <1>2 DEF ComparerHardware, diskVars, driver, program, place
<1>3. CASE Interrupts
  BY <1>3 DEF Interrupts, spi_isr, ai_isr, comparer, diskVars, driver,
              program, place
<1>4. CASE UNCHANGED vars
  BY <1>4 DEF vars, diskVars, driver, comparer, place
<1> QED
  BY <1>1, <1>2, <1>3, <1>4 DEF Elsewhere

LEMMA ReturnsStep == IInv /\ [Next]_vars => Returns'
<1> SUFFICES ASSUME Returns, [Next]_vars PROVE Returns'
  BY DEF IInv
<1> USE DEF Returns, InUse, Starting, Loading, Comparing
<1>1. CASE Elsewhere
  BY <1>1, ElsewhereKeeps
<1>2. CASE Disk_
  BY <1>2 DEF Disk_, DiskProgram, LoadFlag, LoadStart, CardWait, CardStart,
              CardReady, CardError, driver
<1>3. CASE Cards_
  BY <1>3 DEF Cards_, Boot, NoCards, Booted, TryCards, Tried, InitDisk,
              load_disk, Panic
<1>4. CASE Lists
  BY <1>4 DEF Lists, Directory, ReadDatabase, Listed, load_disk, Panic
<1>5. CASE Compare
  BY <1>5 DEF Compare, AI_compare, CompareStart, CompareFlag, CompareLook,
              CompareAgain, CompareError, CompareDone
<1>6. CASE Compared
  BY <1>6 DEF Compared, analyse_load_errors, NextBase
<1>7. CASE Judge
  BY <1>7 DEF Judge, SelfChecked, Named, NotNamed, NotDetected, Analysed,
              ShowDiskError, Panic
<1>8. CASE Loop
  BY <1>8 DEF Loop, Ready, Recorded, Processed, MicrophoneError, StartOver,
              Panic
<1> QED
  BY <1>1, <1>2, <1>3, <1>4, <1>5, <1>6, <1>7, <1>8, Cases

(* What the lamp tells follows from where the status of the cards was set. *)
LEMMA CardsKnownStep == IInv /\ [Next]_vars => CardsKnown'
<1> SUFFICES ASSUME Returns, CardsKnown, BasesKnown, [Next]_vars
             PROVE  CardsKnown'
  BY DEF IInv
<1> USE DEF CardsKnown, PanicShown, InUse, Starting, Loading, Comparing
<1>1. CASE Elsewhere
  BY <1>1, ElsewhereKeeps
<1>2. CASE Disk_
  BY <1>2 DEF Disk_, DiskProgram, LoadFlag, LoadStart, CardWait, CardStart,
              CardReady, CardError, driver, program, Returns
<1>3. CASE Cards_
  BY <1>3 DEF Cards_, Boot, NoCards, Booted, TryCards, Tried, InitDisk,
              load_disk, Panic, driver
<1>4. CASE Lists
  BY <1>4 DEF Lists, Directory, ReadDatabase, Listed, Looked, load_disk,
              Panic, program
<1>5. CASE Compare
  BY <1>5 DEF Compare, AI_compare, CompareStart, CompareFlag, CompareLook,
              CompareAgain, CompareError, CompareDone, driver, program
<1>6. CASE Compared
  BY <1>6 DEF Compared, analyse_load_errors, NextBase
<1>7. CASE Judge
  <2>1. CASE ShowDiskError
    BY <1>7, <2>1 DEF ShowDiskError, Panic, DiskFault, BasesKnown, driver
  <2>2. CASE SelfChecked \/ Named \/ NotNamed \/ NotDetected
    BY <2>2 DEF SelfChecked, Named, NotNamed, NotDetected, Analysed, driver
  <2> QED
    BY <1>7, <2>1, <2>2 DEF Judge
<1>8. CASE Loop
  BY <1>8 DEF Loop, Ready, Recorded, Processed, MicrophoneError, StartOver,
              Panic, driver
<1> QED
  BY <1>1, <1>2, <1>3, <1>4, <1>5, <1>6, <1>7, <1>8, Cases

(* A base that failed is remembered only on the way to a panic. *)
LEMMA BasesKnownStep == IInv /\ [Next]_vars => BasesKnown'
<1> SUFFICES ASSUME Returns, CardsKnown, BasesKnown, [Next]_vars
             PROVE  BasesKnown'
  BY DEF IInv
<1> USE DEF BasesKnown, Starting
<1>u. /\ Unused = [b \in 1 .. BASES |-> Unused[b]]
      /\ \A b \in 1 .. BASES : Unused[b].state \notin Missing
  BY DEF Unused, NotCompared, Missing
<1>1. CASE Elsewhere
  BY <1>1, ElsewhereKeeps
<1>2. CASE Disk_
  BY <1>2 DEF Disk_, DiskProgram, LoadFlag, LoadStart, CardWait, CardStart,
              CardReady, CardError, driver, program
<1>3. CASE Cards_
  BY <1>3 DEF Cards_, Boot, NoCards, Booted, TryCards, Tried, InitDisk,
              load_disk, Panic, driver, program
<1>4. CASE Lists
  BY <1>4, <1>u DEF Lists, Directory, ReadDatabase, Listed, Looked, load_disk,
                    Panic, program
<1>5. CASE Compare
  BY <1>5 DEF Compare, AI_compare, CompareStart, CompareFlag, CompareLook,
              CompareAgain, CompareError, CompareDone, program
<1>6. CASE Compared
  <2>1. /\ pc = "compared"
        /\ results' = [results EXCEPT ![base] = compared]
        /\ analyse_load_errors
    BY <1>6 DEF Compared
  <2>2. \A b \in 1 .. BASES : results[b].state \notin Missing
    BY <2>1
  <2>3. results' = [b \in 1 .. BASES |-> IF b = base THEN compared
                                                    ELSE results[b]]
    BY <2>1
  <2>4. results' = [b \in 1 .. BASES |-> results'[b]]
    BY <2>3
  <2>5. CASE compared.state \notin Missing
    BY <2>2, <2>3, <2>4, <2>5
  <2>6. CASE compared.state \in Missing
    BY <2>1, <2>4, <2>6 DEF analyse_load_errors, Missing
  <2> QED
    BY <2>5, <2>6
<1>7. CASE Judge
  BY <1>7 DEF Judge, SelfChecked, Named, NotNamed, NotDetected, Analysed,
              ShowDiskError, Panic, program
<1>8. CASE Loop
  BY <1>8, <1>u DEF Loop, Ready, Recorded, Processed, MicrophoneError,
                    StartOver, Panic, program
<1> QED
  BY <1>1, <1>2, <1>3, <1>4, <1>5, <1>6, <1>7, <1>8, Cases

(* Outside AI_compare the program leaves the comparer alone, but that main *)
(* lowers its flag. *)
LEMMA ChipKeeps ==
  ASSUME Disk_ \/ Cards_ \/ Lists \/ Compared \/ Judge \/ Loop
  PROVE  /\ UNCHANGED <<core, bits, errs, ai_irq, overflowed>>
         /\ ai_flag' = ai_flag \/ ai_flag' = "DOWN"
<1> USE DEF comparer, chip
<1>1. CASE Disk_
  BY <1>1 DEF Disk_
<1>2. CASE Cards_
  BY <1>2 DEF Cards_, Boot, NoCards, Booted, TryCards, Tried
<1>3. CASE Lists
  BY <1>3 DEF Lists, Directory, ReadDatabase, Listed, Looked
<1>4. CASE Compared
  BY <1>4 DEF Compared
<1>5. CASE Judge
  BY <1>5 DEF Judge, SelfChecked, Named, NotNamed, NotDetected, Analysed,
              ShowDiskError
<1>6. CASE Loop
  BY <1>6 DEF Loop, Ready, Recorded, Processed, MicrophoneError, StartOver
<1> QED
  BY <1>1, <1>2, <1>3, <1>4, <1>5, <1>6

LEMMA CoresTypeStep == IInv /\ [Next]_vars => CoresType'
<1> SUFFICES ASSUME CoresType, [Next]_vars PROVE CoresType'
  BY DEF IInv
<1> USE DEF CoresType
<1>1. CASE Disk_ \/ Cards_ \/ Lists \/ Compared \/ Judge \/ Loop
  BY <1>1, ChipKeeps
<1>2. CASE Compare
  BY <1>2 DEF Compare, AI_compare, CompareStart, CompareFlag, CompareLook,
              CompareAgain, CompareError, CompareDone, comparer, chip
<1>3. CASE CardHardware \/ Interrupts \/ UNCHANGED vars
  BY <1>3 DEF CardHardware, Interrupts, spi_isr, ai_isr, vars, comparer, chip
<1>4. CASE ComparerHardware
  <2>1. UNCHANGED ai_flag
    BY <1>4 DEF ComparerHardware
  <2>2. PICK c \in Cores : \/ \E whole \in BOOLEAN : CoreEnds(c, whole)
                           \/ \E e \in {"crc", "tmr", "fifo"} : CoreFails(c, e)
    BY <1>4 DEF ComparerHardware
  <2>3. ASSUME NEW whole \in BOOLEAN, CoreEnds(c, whole) PROVE CoresType'
    BY <2>1, <2>3 DEF CoreEnds
  <2>4. ASSUME NEW e \in {"crc", "tmr", "fifo"}, CoreFails(c, e)
        PROVE  CoresType'
    BY <2>1, <2>4 DEF CoreFails
  <2> QED
    BY <2>2, <2>3, <2>4
<1> QED
  BY <1>1, <1>2, <1>3, <1>4, Cases DEF Elsewhere

(* A core that ends: the interrupt comes with the last of them. *)
LEMMA EndedStep ==
  ASSUME CoresType, Ended, NEW c \in Cores, NEW whole \in BOOLEAN,
         CoreEnds(c, whole)
  PROVE  /\ Ended'
         /\ IF Reading' = {} THEN ai_irq' = 1 ELSE UNCHANGED ai_irq
<1>1. Reading' = Reading \ {c} /\ c \in Reading
  BY DEF CoreEnds, Reading, CoresType
<1>2. Reading = Cores \ bits
  BY <1>1 DEF Ended
<1>3. CASE bits \cup {c} = Cores
  <2>1. bits' = {} /\ ai_irq' = 1
    BY <1>3 DEF CoreEnds
  <2>2. Reading' = {}
    BY <1>1, <1>2, <1>3
  <2> QED
    BY <2>1, <2>2 DEF Ended
<1>4. CASE bits \cup {c} # Cores
  <2>1. bits' = bits \cup {c} /\ UNCHANGED ai_irq
    BY <1>4 DEF CoreEnds
  <2>2. Reading' = Cores \ bits'
    BY <1>1, <1>2, <2>1
  <2>3. Reading' # {}
    BY <1>4, <2>1, <2>2 DEF CoresType
  <2> QED
    BY <2>1, <2>2, <2>3 DEF Ended
<1> QED
  BY <1>3, <1>4

LEMMA CoresKnownStep == IInv /\ [Next]_vars => CoresKnown'
<1> SUFFICES ASSUME IInv, [Next]_vars, ~overflowed' PROVE CoresKnown'
  BY DEF CoresKnown
<1>t. Returns /\ CoresType /\ BasesKnown
  BY DEF IInv
<1>k. ~overflowed /\ CoresKnown
  <2>1. ~overflowed
    <3>1. CASE Compare
      BY <3>1 DEF Compare, AI_compare, CompareStart, CompareFlag, CompareLook,
                  CompareAgain, CompareError, CompareDone, comparer
    <3> QED
      BY <3>1, Cases, ElsewhereKeeps, ChipKeeps
  <2> QED
    BY <2>1 DEF IInv
<1>e. Ended
  BY <1>k DEF CoresKnown
<1> USE DEF InUse, Starting, Loading, Comparing, CoresAtRest, Unanswered
<1>1. CASE CardHardware \/ UNCHANGED vars
  <2>1. UNCHANGED <<core, bits, ai_irq, ai_flag, pc, compared>>
    BY <1>1 DEF CardHardware, vars, diskVars, comparer, chip
  <2> QED
    BY <1>k, <2>1 DEF CoresKnown, Ended, Reading
<1>2. CASE ComparerHardware
  <2>1. UNCHANGED <<pc, ai_flag, compared, overflowed>>
    BY <1>2 DEF ComparerHardware, diskVars
  <2>2. PICK c \in Cores : \/ \E whole \in BOOLEAN : CoreEnds(c, whole)
                           \/ \E e \in {"crc", "tmr", "fifo"} : CoreFails(c, e)
    BY <1>2 DEF ComparerHardware
  <2>3. ASSUME NEW whole \in BOOLEAN, CoreEnds(c, whole) PROVE CoresKnown'
    <3>1. pc # "compare_flag" /\ Reading # {}
      BY <2>3 DEF CoreEnds, FlagIsLowered, Reading
    <3>2. /\ Ended'
          /\ IF Reading' = {} THEN ai_irq' = 1 ELSE UNCHANGED ai_irq
      BY <1>t, <1>e, <2>3, EndedStep
    <3> QED
      BY <1>k, <2>1, <3>1, <3>2 DEF CoresKnown
  <2>4. ASSUME NEW e \in {"crc", "tmr", "fifo"}, CoreFails(c, e)
        PROVE  CoresKnown'
    BY <1>k, <2>1, <2>4 DEF CoreFails, CoresKnown, Ended, Reading
  <2> QED
    BY <2>2, <2>3, <2>4
<1>3. CASE Interrupts
  <2>1. UNCHANGED <<core, bits, pc, compared>>
    BY <1>3 DEF Interrupts, spi_isr, ai_isr, comparer, chip, diskVars
  <2>2. \/ UNCHANGED <<ai_irq, ai_flag>>
        \/ ai_irq = 1 /\ ai_irq' = 0 /\ ai_flag' = "UP"
    BY <1>3 DEF Interrupts, ai_isr, comparer, chip
  <2> QED
    BY <1>k, <2>1, <2>2 DEF CoresKnown, Ended, Reading
<1>4. CASE Compare
  <2>1. CASE CompareStart
    <3>1. Reading = {} /\ ai_irq = 0
      BY <1>k, <2>1 DEF CompareStart, CoresKnown
    <3>2. bits = {}
      BY <1>e, <3>1 DEF Ended
    <3>3. /\ pc' = "compare_flag" /\ UNCHANGED <<bits, ai_irq>>
          /\ Reading' = Cores
      BY <2>1 DEF CompareStart, Reading
    <3> QED
      BY <3>1, <3>2, <3>3 DEF CoresKnown, Ended
  <2>2. CASE CompareFlag
    <3>1. /\ pc = "compare_flag" /\ pc' = "compare_wait" /\ ai_flag' = "DOWN"
          /\ UNCHANGED <<core, bits, ai_irq>>
      BY <2>2 DEF CompareFlag, chip
    <3>2. Reading = Cores /\ Cores # {} /\ ai_irq = 0
      BY <1>k, <3>1, DiskConstantsOK DEF CoresKnown, Cores
    <3> QED
      BY <1>e, <3>1, <3>2 DEF CoresKnown, Ended, Reading
  <2>3. CASE CompareLook \/ CompareAgain
    BY <1>k, <2>3 DEF CompareLook, CompareAgain, comparer, chip, CoresKnown,
                      Ended, Reading
  <2>4. CASE CompareError
    <3>1. ErrorState \in Missing
      BY <2>4, <1>k DEF CompareError, ErrorState, Missing
    <3>2. compared'.state \in Missing
      BY <2>4, <3>1 DEF CompareError, NotCompared
    <3> QED
      BY <1>e, <2>4, <3>2 DEF CompareError, chip, CoresKnown, Ended, Reading
  <2>5. ASSUME NEW s, CompareDone(s) PROVE CoresKnown'
    BY <1>k, <2>5 DEF CompareDone, chip, CoresKnown, Ended, Reading
  <2> QED
    BY <1>4, <2>1, <2>2, <2>3, <2>4, <2>5 DEF Compare, AI_compare
<1>5. CASE Disk_ \/ Cards_ \/ Lists \/ Compared \/ Judge \/ Loop
  <2>1. UNCHANGED <<core, bits, ai_irq>> /\ Ended'
    BY <1>5, <1>e, ChipKeeps DEF Ended, Reading
  <2>2. pc' \notin {"compare_flag", "compare_wait", "compare_errors",
                    "compared"}
    BY <1>5, <1>t
    DEF Returns, Disk_, DiskProgram, LoadFlag, LoadStart, CardWait, CardStart,
        CardReady, CardError, Cards_, Boot, NoCards, Booted, TryCards, Tried,
        InitDisk, load_disk, Lists, Directory, ReadDatabase, Listed, Panic,
        Compared, analyse_load_errors, NextBase, Judge, SelfChecked, Named,
        NotNamed, NotDetected, Analysed, ShowDiskError, Loop, Ready, Recorded,
        Processed, MicrophoneError, StartOver
  <2>3. CoresAtRest \/ pc' \in {"boot", "fault", "panic"}
    <3>1. CASE Compared
      BY <1>k, <3>1 DEF Compared, analyse_load_errors, CoresKnown
    <3>2. CASE Cards_ \/ Disk_
      BY <1>k, <1>t, <3>2
      DEF Returns, Disk_, DiskProgram, LoadFlag, LoadStart, CardWait, CardStart,
          CardReady, CardError, Cards_, Boot, NoCards, Booted, TryCards, Tried,
          CoresKnown
    <3>3. CASE Lists \/ Judge \/ Loop
      BY <1>k, <3>3
      DEF Lists, Directory, ReadDatabase, Listed, Judge, SelfChecked, Named,
          NotNamed, NotDetected, Analysed, ShowDiskError, Panic, Loop, Ready,
          Recorded, Processed, MicrophoneError, StartOver, CoresKnown
    <3> QED
      BY <1>5, <3>1, <3>2, <3>3
  <2> QED
    BY <2>1, <2>2, <2>3 DEF CoresKnown, Reading
<1> QED
  BY <1>1, <1>2, <1>3, <1>4, <1>5, Cases DEF Elsewhere

-----------------------------------------------------------------------------
(* The position of the program tells what the status of the cards may be,  *)
(* which bases may have failed, and what the cores and their interrupt may *)
(* be doing.                                                               *)
THEOREM Invariance == Spec => []IInv
<1>1. IInv /\ [Next]_vars => IInv'
  BY ReturnsStep, CardsKnownStep, BasesKnownStep, CoresTypeStep,
     CoresKnownStep DEF IInv
<1> QED
  BY InitIInv, <1>1, PTL DEF Spec

(* AI_compare takes the end of its own comparison for its end, of all the  *)
(* cores, whatever they did before, as long as no overflow was ignored.    *)
THEOREM ComparesWhole == Spec => []ComparedWhole
<1>1. IInv => ComparedWhole
  BY DEF IInv, CoresKnown, Unanswered, ComparedWhole
<1> QED
  BY Invariance, <1>1, PTL

(* The loop of app() is entered with its cards ready, for ever; and the    *)
(* lamp that a panic shows agrees with the status of the cards.            *)
THEOREM ShowsTheStatus == Spec => []StatusShown
<1>1. IInv => StatusShown
  BY DEF IInv, CardsKnown, InUse, StatusShown
<1> QED
  BY Invariance, <1>1, PTL

-----------------------------------------------------------------------------
(* The items of a list: their sums, the bases in front, the names. *)
List(items) ==
  /\ DOMAIN items = 1 .. Len(items) /\ Len(items) \in Nat
  /\ \A i \in 1 .. Len(items) : items[i].spects \in Nat

LEMMA CardsHoldLists == \A c \in Cards : List(c.items)
BY CardsOK DEF List

LEMMA SpectsSteps ==
  ASSUME NEW items, List(items)
  PROVE  /\ Spects(items) \in [0 .. Len(items) -> Nat]
         /\ Spects(items)[0] = 0
         /\ \A i \in 1 .. Len(items) :
              Spects(items)[i] = Spects(items)[i - 1] +
                IF IsBase(items, i) THEN items[i].spects ELSE 0
<1> DEFINE N == Len(items)
           Add(p) == IF p[1] \in 1 .. N
                     THEN p[2] + IF IsBase(items, p[1])
                                 THEN items[p[1]].spects ELSE 0
                     ELSE 0
           F == [p \in Nat \X Nat |-> Add(p)]
<1>1. N \in Nat /\ \A i \in 1 .. N : items[i].spects \in Nat
  BY DEF List
<1> HIDE DEF N
<1>2. F \in [Nat \X Nat -> Nat]
  <2>1. ASSUME NEW p \in Nat \X Nat PROVE Add(p) \in Nat
    <3>1. p[1] \in Nat /\ p[2] \in Nat
      OBVIOUS
    <3>2. CASE p[1] \in 1 .. N
      BY <1>1, <3>1, <3>2
    <3>3. CASE p[1] \notin 1 .. N
      BY <3>3
    <3> QED
      BY <3>2, <3>3
  <2> HIDE DEF Add
  <2> QED
    BY <2>1
<1> HIDE DEF F
<1>3. PICK g \in [0 .. N -> Nat] : Recurs(g, N, 0, F)
  <2>1. 0 \in Nat
    OBVIOUS
  <2> QED
    BY <1>1, <1>2, <2>1, Recursion
<1>4. /\ g[0] = 0
      /\ \A i \in 1 .. N : g[i] = g[i - 1] +
           IF IsBase(items, i) THEN items[i].spects ELSE 0
  <2>1. \A i \in 1 .. N : i - 1 \in 0 .. N /\ g[i - 1] \in Nat
    BY <1>1, <1>3
  <2>2. \A i \in 1 .. N : F[<<i, g[i - 1]>>] = g[i - 1] +
           IF IsBase(items, i) THEN items[i].spects ELSE 0
    <3> SUFFICES ASSUME NEW i \in 1 .. N
                 PROVE  F[<<i, g[i - 1]>>] = g[i - 1] +
                          IF IsBase(items, i) THEN items[i].spects ELSE 0
      OBVIOUS
    <3> DEFINE p == <<i, g[i - 1]>>
    <3>1. p \in Nat \X Nat /\ p[1] = i /\ p[2] = g[i - 1]
      BY <1>1, <2>1
    <3> HIDE DEF p
    <3>2. F[p] = Add(p)
      BY <3>1 DEF F
    <3> QED
      BY <3>1, <3>2 DEF p
  <2> QED
    BY <1>3, <2>2 DEF Recurs
<1>5. g = [i \in 0 .. N |-> IF i = 0 THEN 0
             ELSE g[i - 1] + IF IsBase(items, i) THEN items[i].spects ELSE 0]
  <2>1. \A i \in 0 .. N : i = 0 \/ i \in 1 .. N
    BY <1>1
  <2> QED
    BY <1>3, <1>4, <2>1
<1>6. Spects(items) = [i \in 0 .. N |-> IF i = 0 THEN 0
        ELSE Spects(items)[i - 1] + IF IsBase(items, i) THEN items[i].spects
                                    ELSE 0]
  BY <1>5, Zenon DEF Spects, N
<1> QED
  <2> DEFINE h == Spects(items)
  <2>1. \A i \in 1 .. N : i \in 0 .. N /\ i # 0 /\ i - 1 \in 0 .. N
    BY <1>1
  <2>2. 0 \in 0 .. N
    BY <1>1
  <2> HIDE DEF h
  <2>3. h = [i \in 0 .. N |-> IF i = 0 THEN 0
               ELSE h[i - 1] + IF IsBase(items, i) THEN items[i].spects
                                                   ELSE 0]
    BY <1>6 DEF h
  <2>4. h[0] = 0
    BY <2>2, <2>3
  <2>5. \A i \in 1 .. N : h[i] = h[i - 1] +
           IF IsBase(items, i) THEN items[i].spects ELSE 0
    BY <2>1, <2>3
  <2> DEFINE S == {i \in 0 .. N : h[i] \in Nat}
  <2>6. \A i \in 0 .. N : i \in S
    <3>1. 0 \in S
      BY <2>2, <2>4
    <3>2. ASSUME NEW i \in 1 .. N, i - 1 \in S PROVE i \in S
      <4>1. h[i - 1] \in Nat /\ items[i].spects \in Nat
        BY <1>1, <3>2
      <4> QED
        BY <2>1, <2>5, <4>1
    <3> HIDE DEF S
    <3> QED
      BY <1>1, <3>1, <3>2, InductionTo
  <2>7. h \in [0 .. N -> Nat]
    BY <2>3, <2>6
  <2> QED
    BY <2>4, <2>5, <2>7 DEF h, N

(* The bases in front are the first ones. *)
LEMMA LeadingIs ==
  ASSUME NEW items, List(items)
  PROVE  LET k == Cardinality(Leading(items))
         IN  /\ k \in 0 .. Len(items) /\ Leading(items) = 1 .. k
             /\ \A i \in 1 .. k : IsBase(items, i)
<1> DEFINE N == Len(items)
           B(m) == {i \in 1 .. m : \A j \in 1 .. i : IsBase(items, j)}
           S == {m \in Nat : \E k \in 0 .. m : B(m) = 1 .. k}
<1>1. N \in Nat /\ DOMAIN items = 1 .. N
  BY DEF List
<1>2. Leading(items) = B(N)
  BY <1>1 DEF Leading
<1> HIDE DEF N
<1>3. 0 \in S
  OBVIOUS
<1>4. ASSUME NEW m \in 1 .. N, m - 1 \in S PROVE m \in S
  <2>1. PICK k \in 0 .. m - 1 : B(m - 1) = 1 .. k
    BY <1>4
  <2>2. \A i : i \in 1 .. m <=> i \in 1 .. m - 1 \/ i = m
    BY <1>1
  <2>3. CASE m \in B(m)
    <3>1. B(m) = 1 .. m
      BY <1>1, <2>3
    <3> QED
      BY <1>1, <3>1
  <2>4. CASE m \notin B(m)
    <3>1. B(m) = B(m - 1)
      BY <1>1, <2>2, <2>4
    <3>2. B(m) = 1 .. k /\ k \in 0 .. m /\ m \in Nat
      BY <1>1, <2>1, <3>1
    <3> HIDE DEF B
    <3> QED
      BY <3>2
  <2> QED
    BY <2>3, <2>4
<1>5. N \in S
  <2> HIDE DEF S
  <2> QED
    BY <1>1, <1>3, <1>4, InductionTo
<1>6. PICK k \in 0 .. N : B(N) = 1 .. k
  BY <1>5
<1>7. Cardinality(1 .. k) = k
  BY <1>1, <1>6, FS_Interval
<1>8. \A i \in 1 .. k : IsBase(items, i)
  BY <1>1, <1>6
<1> QED
  BY <1>2, <1>6, <1>7, <1>8 DEF N

(* Over the bases in front the sum grows by the categories of each, *)
(* after them it does not fall. *)
LEMMA SpectsOfBases ==
  ASSUME NEW items, List(items)
  PROVE  LET k == Cardinality(Leading(items))
         IN  /\ \A i \in 1 .. k :
                  Spects(items)[i] = Spects(items)[i - 1] + items[i].spects
             /\ \A i \in 0 .. Len(items), j \in 0 .. Len(items) :
                  i <= j => Spects(items)[i] <= Spects(items)[j]
<1> DEFINE k == Cardinality(Leading(items))
           N == Len(items)
           h == Spects(items)
<1>1. /\ h \in [0 .. N -> Nat]
      /\ \A i \in 1 .. N : h[i] = h[i - 1] +
           IF IsBase(items, i) THEN items[i].spects ELSE 0
  BY SpectsSteps
<1>2. N \in Nat /\ k \in 0 .. N /\ \A i \in 1 .. k : IsBase(items, i)
  BY LeadingIs DEF List
<1>3. \A i \in 1 .. N : items[i].spects \in Nat
  BY DEF List
<1> HIDE DEF k, N, h
<1>4. \A i \in 1 .. k : h[i] = h[i - 1] + items[i].spects
  BY <1>1, <1>2
<1>5. \A i \in 1 .. N : h[i - 1] <= h[i]
  <2> SUFFICES ASSUME NEW i \in 1 .. N PROVE h[i - 1] <= h[i]
    OBVIOUS
  <2>1. h[i - 1] \in Nat
    BY <1>1, <1>2
  <2> QED
    BY <1>1, <1>3, <2>1
<1>6. ASSUME NEW i \in 0 .. N PROVE \A j \in 0 .. N : i <= j => h[i] <= h[j]
  <2> DEFINE S == {j \in 0 .. N : i <= j => h[i] <= h[j]}
  <2>1. 0 \in S
    BY <1>1, <1>2
  <2>2. ASSUME NEW j \in 1 .. N, j - 1 \in S PROVE j \in S
    <3>1. h[i] \in Nat /\ h[j] \in Nat /\ h[j - 1] \in Nat /\ j \in 0 .. N
      BY <1>1, <1>2
    <3>2. h[j - 1] <= h[j]
      BY <1>5
    <3> QED
      BY <1>2, <2>2, <3>1, <3>2
  <2>3. \A j \in 0 .. N : j \in S
    <3> HIDE DEF S
    <3> QED
      BY <1>2, <2>1, <2>2, InductionTo
  <2> QED
    BY <2>3
<1> QED
  BY <1>4, <1>6 DEF k, N, h

(* The names are a sequence. *)
LEMMA NamesAreSequence ==
  ASSUME NEW items, List(items)
  PROVE  LET names == Linkers(items)[Len(items)]
         IN  Len(names) \in Nat /\ DOMAIN names = 1 .. Len(names)
<1> DEFINE N == Len(items)
           D == {items[i] : i \in 1 .. N}
           Add(p) == IF p[1] \in 1 .. N
                     THEN IF IsBase(items, p[1]) THEN p[2]
                          ELSE Append(p[2], items[p[1]])
                     ELSE << >>
           F == [p \in Nat \X Seq(D) |-> Add(p)]
<1>1. N \in Nat
  BY DEF List
<1>2. << >> \in Seq(D) /\ \A i \in 1 .. N : items[i] \in D
  OBVIOUS
<1> HIDE DEF N, D
<1>3. F \in [Nat \X Seq(D) -> Seq(D)]
  <2>1. ASSUME NEW p \in Nat \X Seq(D) PROVE Add(p) \in Seq(D)
    BY <1>2
  <2> HIDE DEF Add
  <2> QED
    BY <2>1
<1> HIDE DEF F
<1>4. PICK g \in [0 .. N -> Seq(D)] : Recurs(g, N, << >>, F)
  BY <1>1, <1>2, <1>3, Recursion
<1>5. /\ g[0] = << >>
      /\ \A i \in 1 .. N : g[i] = IF IsBase(items, i) THEN g[i - 1]
                                  ELSE Append(g[i - 1], items[i])
  <2>1. ASSUME NEW i \in 1 .. N
        PROVE  F[<<i, g[i - 1]>>] = IF IsBase(items, i) THEN g[i - 1]
                                    ELSE Append(g[i - 1], items[i])
    <3> DEFINE p == <<i, g[i - 1]>>
    <3>1. p \in Nat \X Seq(D) /\ p[1] = i /\ p[2] = g[i - 1]
      BY <1>1
    <3> HIDE DEF p
    <3>2. F[p] = Add(p)
      BY <3>1 DEF F
    <3> QED
      BY <3>1, <3>2 DEF p
  <2> QED
    BY <1>4, <2>1 DEF Recurs
<1>6. g = [i \in 0 .. N |-> IF i = 0 THEN << >>
             ELSE IF IsBase(items, i) THEN g[i - 1]
             ELSE Append(g[i - 1], items[i])]
  <2>1. \A i \in 0 .. N : i = 0 \/ i \in 1 .. N
    BY <1>1
  <2> QED
    BY <1>4, <1>5, <2>1
<1>7. Linkers(items) = [i \in 0 .. N |-> IF i = 0 THEN << >>
             ELSE IF IsBase(items, i) THEN Linkers(items)[i - 1]
             ELSE Append(Linkers(items)[i - 1], items[i])]
  BY <1>6, Zenon DEF Linkers, N
<1>8. Linkers(items)[N] \in Seq(D)
  <2> DEFINE h == Linkers(items)
             S == {i \in 0 .. N : h[i] \in Seq(D)}
  <2>1. \A i \in 1 .. N : i \in 0 .. N /\ i # 0 /\ i - 1 \in 0 .. N
    BY <1>1
  <2> HIDE DEF h
  <2>2. h = [i \in 0 .. N |-> IF i = 0 THEN << >>
                ELSE IF IsBase(items, i) THEN h[i - 1]
                ELSE Append(h[i - 1], items[i])]
    BY <1>7 DEF h
  <2>3. 0 \in S
    BY <1>1, <1>2, <2>2
  <2>4. ASSUME NEW i \in 1 .. N, i - 1 \in S PROVE i \in S
    <3>1. h[i] = IF IsBase(items, i) THEN h[i - 1]
                 ELSE Append(h[i - 1], items[i])
      BY <2>1, <2>2
    <3>2. /\ h[i - 1] \in Seq(D) /\ items[i] \in D /\ i \in 0 .. N
      BY <1>2, <2>1, <2>4
    <3>3. Append(h[i - 1], items[i]) \in Seq(D)
      BY <3>2, AppendProperties
    <3>4. h[i] \in Seq(D)
      BY <3>1, <3>2, <3>3
    <3> QED
      BY <3>2, <3>4
  <2>5. \A i \in 0 .. N : i \in S
    <3> HIDE DEF S
    <3> QED
      BY <1>1, <2>3, <2>4, InductionTo
  <2> QED
    BY <1>1, <2>5 DEF h
<1> QED
  BY <1>8 DEF N

-----------------------------------------------------------------------------
(* The score of a comparison is a number, as DIFFS differences are counted. *)
LEMMA ScoreType ==
  ASSUME NEW o \in Outcomes
  PROVE  count_diffrence(o.sums, o.result) \in Nat
<1> USE ComparerConstantsOK
<1> DEFINE sums == o.sums
           r == o.result
           N == Len(sums)
           V == [diff : Nat, number : 0 .. DIFFS, last : Nat]
           Z == [diff |-> 0, number |-> 0, last |-> 0]
           Add(i, s) == IF sums[i].spect # r \/ s.number = DIFFS THEN s
                        ELSE [diff   |-> s.diff + sums[i].delta,
                              number |-> s.number + 1,
                              last   |-> sums[i].delta]
           Body(p) == IF p[1] \in 1 .. N THEN Add(p[1], p[2]) ELSE Z
           F == [p \in Nat \X V |-> Body(p)]
<1>1. N \in Nat /\ \A i \in 1 .. N : sums[i].delta \in Nat
  OBVIOUS
<1> HIDE DEF N, sums, r
<1>2. Z \in V
  OBVIOUS
<1>3. ASSUME NEW i \in 1 .. N, NEW s \in V PROVE Add(i, s) \in V
  BY <1>1
<1> HIDE DEF V, Z, Add
<1>4. F \in [Nat \X V -> V]
  <2>1. ASSUME NEW p \in Nat \X V PROVE Body(p) \in V
    BY <1>2, <1>3
  <2> HIDE DEF Body
  <2> QED
    BY <2>1
<1> HIDE DEF F
<1>5. PICK g \in [0 .. N -> V] : Recurs(g, N, Z, F)
  BY <1>1, <1>2, <1>4, Recursion
<1>6. g[0] = Z /\ \A i \in 1 .. N : g[i] = Add(i, g[i - 1])
  <2>1. ASSUME NEW i \in 1 .. N PROVE F[<<i, g[i - 1]>>] = Add(i, g[i - 1])
    <3> DEFINE p == <<i, g[i - 1]>>
    <3>1. p \in Nat \X V /\ p[1] = i /\ p[2] = g[i - 1]
      BY <1>1
    <3> HIDE DEF p
    <3>2. F[p] = Body(p)
      BY <3>1 DEF F
    <3> QED
      BY <3>1, <3>2 DEF p
  <2> QED
    BY <1>5, <2>1 DEF Recurs
<1>7. g = [i \in 0 .. N |-> IF i = 0 THEN Z ELSE Add(i, g[i - 1])]
  <2>1. \A i \in 0 .. N : i = 0 \/ i \in 1 .. N
    BY <1>1
  <2> QED
    BY <1>5, <1>6, <2>1
<1> DEFINE h == Counted(sums, r)
<1>8. h = [i \in 0 .. N |-> IF i = 0 THEN Z ELSE Add(i, h[i - 1])]
  BY <1>7, Zenon DEF Counted, N, Z, Add
<1>9. h[N] \in V
  <2> HIDE DEF h
  <2> DEFINE S == {i \in 0 .. N : h[i] \in V}
  <2>1. \A i \in 1 .. N : i \in 0 .. N /\ i # 0 /\ i - 1 \in 0 .. N
    BY <1>1
  <2>2. 0 \in S
    BY <1>1, <1>2, <1>8
  <2>3. ASSUME NEW i \in 1 .. N, i - 1 \in S PROVE i \in S
    BY <1>3, <1>8, <2>1, <2>3
  <2>4. \A i \in 0 .. N : i \in S
    <3> HIDE DEF S
    <3> QED
      BY <1>1, <2>2, <2>3, InductionTo
  <2> QED
    BY <1>1, <2>4
<1>10. count_diffrence(sums, r)
         = h[N].diff + (DIFFS - h[N].number) * h[N].last
  BY Zenon DEF count_diffrence, N
<1>11. /\ h[N].diff \in Nat /\ h[N].last \in Nat
       /\ DIFFS - h[N].number \in Nat
  <2> HIDE DEF h
  <2> QED
    BY <1>9 DEF V
<1>12. (DIFFS - h[N].number) * h[N].last \in Nat
  <2> DEFINE x == DIFFS - h[N].number
             y == h[N].last
  <2>1. x \in Nat /\ y \in Nat
    BY <1>11
  <2> HIDE DEF x, y
  <2>2. x * y \in Nat
    BY <2>1
  <2> QED
    BY <2>2 DEF x, y
<1> QED
  BY <1>10, <1>11, <1>12 DEF sums, r

-----------------------------------------------------------------------------
(* selectBestSuit *)
Result == [state : {"none", "OK", "CANT_DETECT", "DISK_ERROR",
                    "NO_DISK_DETECT", "FIFO_OVERFLOW"},
           decision : 0 .. SPECTS - 1, score : Nat]

(* After base b: nothing was detected, or the decision of the nearest base *)
(* is numbered from the categories of the bases before it.                 *)
BestOf(best, b) ==
  /\ best \in 1 .. b /\ Detected(best)
  /\ \A c \in 1 .. b : Detected(c) =>
       IF c < best THEN results[c].score > results[best].score
       ELSE results[c].score >= results[best].score

Chosen(s, b) ==
  /\ s.offset = Spects(card.items)[b]
  /\ \/ s.best = 0 /\ \A c \in 1 .. b : ~Detected(c)
     \/ /\ BestOf(s.best, b)
        /\ s.dec = results[s.best].decision + Spects(card.items)[s.best - 1]

Suits == [best : Nat, offset : Nat, dec : Nat]
NoSuit == [best |-> 0, offset |-> 0, dec |-> 0]
Improves(s, b) ==
  Detected(b) /\ (s.best = 0 \/ results[s.best].score > results[b].score)
Suited(s, b) ==
  IF Improves(s, b)
  THEN [best |-> b, offset |-> s.offset + card.items[b].spects,
        dec |-> results[b].decision + s.offset]
  ELSE [best |-> s.best, offset |-> s.offset + card.items[b].spects,
        dec |-> s.dec]

LEMMA SuitSteps ==
  ASSUME List(card.items), results \in [1 .. BASES -> Result], Bases <= BASES
  PROVE  /\ Suit[0] = NoSuit
         /\ \A b \in 1 .. Bases : Suit[b] = Suited(Suit[b - 1], b)
         /\ \A b \in 0 .. Bases : Suit[b] \in Suits
<1> USE CardsOK
<1> DEFINE N == Bases
           Body(p) == IF p[1] \in 1 .. N THEN Suited(p[2], p[1]) ELSE NoSuit
           F == [p \in Nat \X Suits |-> Body(p)]
           h == Suit
<1>1. N \in Nat /\ N <= BASES /\ \A b \in 1 .. N : card.items[b].spects \in Nat
  BY LeadingIs DEF Bases, List
<1> HIDE DEF N
<1>2. NoSuit \in Suits
  BY DEF NoSuit, Suits
<1>3. ASSUME NEW b \in 1 .. N, NEW s \in Suits PROVE Suited(s, b) \in Suits
  <2>1. /\ card.items[b].spects \in Nat /\ b \in 1 .. BASES /\ b \in Nat
        /\ s.best \in Nat /\ s.offset \in Nat /\ s.dec \in Nat
    BY <1>1 DEF Suits
  <2>2. results[b].decision \in Nat
    BY <2>1, ComparerConstantsOK DEF Result
  <2>3. /\ s.offset + card.items[b].spects \in Nat
        /\ results[b].decision + s.offset \in Nat
    BY <2>1, <2>2
  <2>4. CASE Improves(s, b)
    BY <2>1, <2>3, <2>4 DEF Suited, Suits
  <2>5. CASE ~Improves(s, b)
    BY <2>1, <2>3, <2>5 DEF Suited, Suits
  <2> QED
    BY <2>4, <2>5
<1>4. F \in [Nat \X Suits -> Suits]
  <2>1. ASSUME NEW p \in Nat \X Suits PROVE Body(p) \in Suits
    BY <1>2, <1>3
  <2> HIDE DEF Body
  <2> QED
    BY <2>1
<1> HIDE DEF F
<1>5. PICK g \in [0 .. N -> Suits] : Recurs(g, N, NoSuit, F)
  BY <1>1, <1>2, <1>4, Recursion
<1>6. g[0] = NoSuit /\ \A b \in 1 .. N : g[b] = Suited(g[b - 1], b)
  <2>1. ASSUME NEW b \in 1 .. N PROVE F[<<b, g[b - 1]>>] = Suited(g[b - 1], b)
    <3> DEFINE p == <<b, g[b - 1]>>
    <3>1. p \in Nat \X Suits /\ p[1] = b /\ p[2] = g[b - 1]
      BY <1>1
    <3> HIDE DEF p
    <3>2. F[p] = Body(p)
      BY <3>1 DEF F
    <3> QED
      BY <3>1, <3>2 DEF p
  <2> QED
    BY <1>5, <2>1 DEF Recurs
<1> DEFINE x(b) == card.items[b].spects
           Kept(s, b) == [s EXCEPT !.offset = @ + x(b)]
           Code(s, b) ==
             IF Improves(s, b)
             THEN [best |-> b, offset |-> Kept(s, b).offset,
                   dec |-> results[b].decision + s.offset]
             ELSE Kept(s, b)
<1>7. ASSUME NEW s \in Suits, NEW b PROVE Suited(s, b) = Code(s, b)
  <2>1. /\ Kept(s, b) = [best |-> s.best, offset |-> s.offset + x(b),
                         dec |-> s.dec]
        /\ Kept(s, b).offset = s.offset + x(b)
    BY DEF Suits
  <2> HIDE DEF Kept
  <2> QED
    BY <2>1, Zenon DEF Suited
<1>8. g = [b \in 0 .. N |-> IF b = 0 THEN NoSuit ELSE Code(g[b - 1], b)]
  <2>1. \A b \in 0 .. N : b = 0 \/ (b \in 1 .. N /\ b - 1 \in 0 .. N)
    BY <1>1
  <2>2. \A b \in 1 .. N : g[b - 1] \in Suits
    BY <1>1, <1>5
  <2> HIDE DEF Code
  <2> QED
    BY <1>5, <1>6, <1>7, <2>1, <2>2
<1>9. h = [b \in 0 .. N |-> IF b = 0 THEN NoSuit ELSE Code(h[b - 1], b)]
  BY <1>8, Zenon DEF Suit, NoSuit, N, Improves
<1> HIDE DEF h, Code
<1>10. \A b \in 1 .. N : b \in 0 .. N /\ b # 0 /\ b - 1 \in 0 .. N
  BY <1>1
<1>11. h[0] = NoSuit
  BY <1>1, <1>9
<1> DEFINE S == {b \in 0 .. N : h[b] \in Suits}
<1>12. \A b \in 0 .. N : b \in S
  <2>1. 0 \in S
    BY <1>1, <1>2, <1>11
  <2>2. ASSUME NEW b \in 1 .. N, b - 1 \in S PROVE b \in S
    <3>1. h[b] = Code(h[b - 1], b)
      BY <1>9, <1>10
    <3>2. h[b] \in Suits
      BY <1>3, <1>7, <2>2, <3>1
    <3> QED
      BY <1>10, <3>2
  <2> HIDE DEF S
  <2> QED
    BY <1>1, <2>1, <2>2, InductionTo
<1>13. \A b \in 1 .. N : h[b] = Suited(h[b - 1], b)
  <2> SUFFICES ASSUME NEW b \in 1 .. N PROVE h[b] = Suited(h[b - 1], b)
    OBVIOUS
  <2>1. h[b] = Code(h[b - 1], b)
    BY <1>9, <1>10
  <2>2. h[b - 1] \in Suits
    BY <1>10, <1>12
  <2> QED
    BY <1>7, <2>1, <2>2
<1> QED
  BY <1>11, <1>12, <1>13 DEF h, N

LEMMA SuitChosen ==
  ASSUME List(card.items), results \in [1 .. BASES -> Result], Bases <= BASES
  PROVE  \A b \in 0 .. Bases : Chosen(Suit[b], b)
<1> USE CardsOK
<1> DEFINE N == Bases
           h == Suit
           sum == Spects(card.items)
           S == {b \in 0 .. N : Chosen(h[b], b)}
<1>1. N \in Nat /\ N <= BASES /\ \A b \in 1 .. N : card.items[b].spects \in Nat
  BY LeadingIs DEF Bases, List
<1>2. /\ h[0] = NoSuit /\ \A b \in 1 .. N : h[b] = Suited(h[b - 1], b)
      /\ \A b \in 0 .. N : h[b] \in Suits
  BY SuitSteps
<1>3. /\ sum[0] = 0
      /\ \A b \in 1 .. N : sum[b] = sum[b - 1] + card.items[b].spects
  BY SpectsSteps, SpectsOfBases DEF Bases
<1>4. \A b \in 1 .. BASES : results[b].score \in Nat
  BY DEF Result
<1> HIDE DEF N, h, sum
<1>5. 0 \in S
  BY <1>1, <1>2, <1>3 DEF Chosen, NoSuit, sum
<1>6. ASSUME NEW b \in 1 .. N, b - 1 \in S PROVE b \in S
  <2> DEFINE s == h[b - 1]
             t == h[b]
  <2>1. /\ b \in 0 .. N /\ b - 1 \in 0 .. N /\ b \in 1 .. BASES /\ b \in Nat
        /\ \A c : c \in 1 .. b <=> c \in 1 .. b - 1 \/ c = b
        /\ \A c \in 1 .. b : c \in 1 .. BASES
    BY <1>1
  <2>2. t = Suited(s, b) /\ Chosen(s, b - 1) /\ s \in Suits
    BY <1>2, <1>6, <2>1
  <2>3. s.offset = sum[b - 1]
    BY <2>2 DEF Chosen, sum
  <2>4. \/ s.best = 0 /\ \A c \in 1 .. b - 1 : ~Detected(c)
        \/ /\ BestOf(s.best, b - 1)
           /\ s.dec = results[s.best].decision + sum[s.best - 1]
    BY <2>2 DEF Chosen, sum
  <2> HIDE DEF s, t
  <2>5. t.offset = sum[b]
    BY <1>3, <2>2, <2>3 DEF Suited
  <2>6. CASE Improves(s, b)
    <3>1. t.best = b /\ t.dec = results[b].decision + sum[b - 1]
      BY <2>2, <2>3, <2>6 DEF Suited
    <3>2. BestOf(b, b)
      <4>1. Detected(b) /\ b \in 1 .. b
        BY <2>1, <2>6 DEF Improves
      <4>2. ASSUME NEW c \in 1 .. b - 1, Detected(c)
            PROVE  results[c].score > results[b].score
        <5>1. BestOf(s.best, b - 1) /\ s.best # 0
          BY <2>4, <4>2 DEF BestOf
        <5>2. /\ results[s.best].score > results[b].score
              /\ results[c].score >= results[s.best].score
              /\ s.best \in 1 .. b - 1
          <6>1. /\ s.best \in 1 .. b - 1
                /\ IF c < s.best THEN results[c].score > results[s.best].score
                   ELSE results[c].score >= results[s.best].score
            BY <4>2, <5>1 DEF BestOf
          <6>2. results[c].score \in Nat /\ results[s.best].score \in Nat
            BY <1>4, <2>1, <6>1
          <6> QED
            BY <2>6, <5>1, <6>1, <6>2 DEF Improves
        <5>3. /\ results[c].score \in Nat /\ results[s.best].score \in Nat
              /\ results[b].score \in Nat
          BY <1>4, <2>1, <5>2
        <5> QED
          BY <5>2, <5>3
      <4>3. results[b].score \in Nat
        BY <1>4, <2>1
      <4> QED
        BY <2>1, <4>1, <4>2, <4>3 DEF BestOf
    <3> QED
      BY <2>1, <2>5, <3>1, <3>2 DEF Chosen, sum, t
  <2>7. CASE ~Improves(s, b)
    <3>1. t.best = s.best /\ t.dec = s.dec
      BY <2>2, <2>7 DEF Suited
    <3>2. CASE s.best = 0
      <4>1. ~Detected(b) /\ \A c \in 1 .. b - 1 : ~Detected(c)
        BY <2>4, <2>7, <3>2 DEF Improves, BestOf
      <4> QED
        BY <2>1, <2>5, <3>1, <3>2, <4>1 DEF Chosen, sum, t
    <3>3. CASE s.best # 0
      <4>1. BestOf(s.best, b - 1)
            /\ s.dec = results[s.best].decision + sum[s.best - 1]
        BY <2>4, <3>3
      <4>2. /\ s.best \in 1 .. b /\ s.best \in 1 .. BASES /\ s.best < b
            /\ s.best \in Nat
        BY <2>1, <4>1 DEF BestOf
      <4>3. Detected(b) => results[b].score >= results[s.best].score
        BY <1>4, <2>1, <2>7, <4>2 DEF Improves
      <4>4. BestOf(s.best, b)
        BY <2>1, <4>1, <4>2, <4>3 DEF BestOf
      <4> QED
        BY <2>1, <2>5, <3>1, <4>1, <4>4 DEF Chosen, sum, t
    <3> QED
      BY <3>2, <3>3
  <2> QED
    BY <2>6, <2>7
<1>7. \A b \in 0 .. N : b \in S
  <2> HIDE DEF S
  <2> QED
    BY <1>1, <1>5, <1>6, InductionTo
<1> QED
  BY <1>7 DEF h, N

(* The place of a word: inside the categories of the nearest base, and so  *)
(* inside those of all bases in front.                                     *)
LEMMA BestSuit ==
  ASSUME List(card.items), results \in [1 .. BASES -> Result], Bases <= BASES,
         \A b \in 1 .. BASES : Detected(b) =>
            results[b].decision < card.items[b].spects,
         \E b \in 1 .. Bases : Detected(b)
  PROVE  \E b \in 1 .. Bases :
           /\ Nearest(b) /\ results[b].decision < card.items[b].spects
           /\ selectBestSuit = results[b].decision + Spects(card.items)[b - 1]
           /\ selectBestSuit \in Nat /\ selectBestSuit < Decisions
<1> USE CardsOK
<1> DEFINE N == Bases
           s == Suit[N]
           sum == Spects(card.items)
<1>1. /\ N \in 0 .. Len(card.items) /\ N <= BASES
      /\ \A b \in 1 .. N : card.items[b].spects \in Nat
      /\ Len(card.items) \in Nat
  BY LeadingIs DEF Bases, List
<1>2. Chosen(s, N)
  <2>1. N \in 0 .. N
    BY <1>1
  <2> QED
    BY <2>1, SuitChosen
<1> HIDE DEF N
<1>3. /\ BestOf(s.best, N)
      /\ s.dec = results[s.best].decision + sum[s.best - 1]
  BY <1>2 DEF Chosen, BestOf, N
<1> DEFINE b == s.best
<1>4. b \in 1 .. N /\ Nearest(b)
  BY <1>3 DEF BestOf, Nearest, N
<1>5. /\ b \in 1 .. BASES /\ b - 1 \in 0 .. Len(card.items)
      /\ b \in 0 .. Len(card.items) /\ b \in Nat
  BY <1>1, <1>4
<1>6. /\ results[b].decision \in Nat
      /\ results[b].decision < card.items[b].spects
  <2> HIDE DEF b
  <2>1. results[b] \in Result /\ Detected(b)
    BY <1>4, <1>5 DEF Nearest
  <2>2. results[b].decision \in 0 .. SPECTS - 1
    BY <2>1 DEF Result
  <2> QED
    BY <1>5, <2>1, <2>2, ComparerConstantsOK
<1>7. /\ sum \in [0 .. Len(card.items) -> Nat]
      /\ sum[b] = sum[b - 1] + card.items[b].spects /\ sum[b] <= sum[N]
  <2> HIDE DEF b
  <2>1. sum \in [0 .. Len(card.items) -> Nat]
    BY SpectsSteps
  <2>2. sum[b] = sum[b - 1] + card.items[b].spects
    BY <1>4, SpectsOfBases DEF N, Bases
  <2>3. sum[b] <= sum[N]
    BY <1>1, <1>4, <1>5, SpectsOfBases
  <2> QED
    BY <2>1, <2>2, <2>3
<1>8. selectBestSuit = results[b].decision + sum[b - 1] /\ Decisions = sum[N]
  BY <1>3 DEF selectBestSuit, Decisions, N
<1>9. /\ sum[b - 1] \in Nat /\ sum[b] \in Nat /\ sum[N] \in Nat
      /\ card.items[b].spects \in Nat
  BY <1>1, <1>4, <1>5, <1>7
<1> HIDE DEF sum, b
<1>10. selectBestSuit \in Nat /\ selectBestSuit < Decisions
  <2> DEFINE d == results[b].decision
             x == sum[b - 1]
             y == sum[b]
             z == sum[N]
             w == card.items[b].spects
  <2>1. /\ d \in Nat /\ x \in Nat /\ y \in Nat /\ z \in Nat /\ w \in Nat
        /\ d < w /\ y = x + w /\ y <= z
        /\ selectBestSuit = d + x /\ Decisions = z
    BY ONLY <1>6, <1>7, <1>8, <1>9
  <2> HIDE DEF d, x, y, z, w
  <2> QED
    BY ONLY <2>1
<1> QED
  BY <1>4, <1>6, <1>8, <1>10 DEF N, sum

(* A list with a name for every category names what was found: the name    *)
(* exists and says the category of the nearest base.                       *)
LEMMA LinkerNames ==
  ASSUME card \in Cards, results \in [1 .. BASES -> Result], Bases <= BASES,
         \A b \in 1 .. BASES : Detected(b) =>
            results[b].decision < card.items[b].spects,
         \E b \in 1 .. Bases : Detected(b), load_linker_list
  PROVE  /\ selectBestSuit <= Decisions
         /\ selectBestSuit + 1 \in DOMAIN Names
         /\ \E b \in 1 .. Bases :
              /\ Nearest(b)
              /\ Linker.of = [base |-> b, decision |-> results[b].decision]
<1> DEFINE items == card.items
           sum == Spects(items)
<1>1. List(items)
  BY CardsHoldLists
<1>2. PICK b \in 1 .. Bases :
        /\ Nearest(b) /\ results[b].decision < items[b].spects
        /\ selectBestSuit = results[b].decision + sum[b - 1]
        /\ selectBestSuit \in Nat /\ selectBestSuit < Decisions
  BY <1>1, BestSuit
<1>3. /\ Bases \in 0 .. Len(items) /\ Leading(items) = 1 .. Bases
      /\ Len(items) \in Nat
  BY <1>1, LeadingIs DEF Bases, List
<1>4. Decisions <= sum[Len(items)] /\ Decisions \in Nat /\ sum[Len(items)] \in Nat
  <2>1. sum \in [0 .. Len(items) -> Nat]
    BY <1>1, SpectsSteps
  <2>2. Len(items) \in 0 .. Len(items) /\ Bases <= Len(items)
    BY <1>3
  <2> HIDE DEF sum, items
  <2> QED
    BY <1>1, <1>3, <2>1, <2>2, SpectsOfBases DEF Decisions, items, sum
<1>5. Len(Names) = sum[Len(items)] /\ DOMAIN Names = 1 .. Len(Names)
  BY <1>1, NamesAreSequence DEF load_linker_list, Names
<1>6. selectBestSuit + 1 \in DOMAIN Names
  BY <1>2, <1>4, <1>5
<1>7. Linker.of = [base |-> b, decision |-> results[b].decision]
  <2> DEFINE d == results[b].decision
  <2>1. /\ b \in 1 .. BASES /\ b - 1 \in 0 .. Len(items)
        /\ b \in 1 .. Len(items)
    BY <1>3, CardsOK
  <2>2. d \in Nat /\ items[b].spects \in Nat
    BY <1>1, <2>1, ComparerConstantsOK DEF Result, List
  <2>3. b \in Leading(items) /\ d \in 0 .. items[b].spects - 1
    BY <1>2, <1>3, <2>2
  <2>4. sum[b - 1] \in Nat
    BY <1>1, <2>1, SpectsSteps
  <2>5. sum[b - 1] + d + 1 = selectBestSuit + 1
    BY <1>2, <2>2, <2>4
  <2> HIDE DEF d
  <2>6. sum[b - 1] + d + 1 \in DOMAIN Names =>
          Names[sum[b - 1] + d + 1].of = [base |-> b, decision |-> d]
    BY <2>3, NamesInOrder DEF Names
  <2> QED
    BY <1>6, <2>5, <2>6 DEF Linker, d
<1> QED
  BY <1>2, <1>4, <1>6, <1>7

-----------------------------------------------------------------------------
(* What is added to IInv for the other properties: where each machine of   *)
(* the cards may be at work, ...                                           *)
Waiting == pc \in {"directory", "list"}

DiskAtWork ==
  /\ reader.state # "idle" => Waiting
  /\ spi_irq = 1 => reader.state = "idle" /\ (Waiting \/ pc = "card_result")
  /\ \A c \in 1 .. CARDS : starter[c].state = "busy" =>
       pc = "card_result" /\ c = n /\ disk_flag = "DOWN" /\ spi_irq = 0
  /\ pc \in {"load_start", "card_start"} => disk_flag = "DOWN"
  /\ Waiting \/ pc = "card_result" =>
       (disk_flag = "UP" => reader.state = "idle" /\ spi_irq = 0)
  /\ Starting => n \in 1 .. CARDS /\ tries < TRIES

(* ... what is loaded, how much of it has been brought, and that it is the *)
(* whole of it when no card failed, ...                                    *)
Header == [addr |-> 0, len |-> HEADER,
           sector |-> IF ret = "directory" THEN 0 ELSE start * 16]

Requested ==
  /\ Waiting => ret = pc
  /\ Loading \/ Waiting => reg = Header
  /\ reader.state = "read" =>
       /\ reader.sector = reg.sector /\ reader.addr = reader.count
       /\ reader.count <= HEADER

Brought ==
  /\ reader.state = "read" =>
       ~failed /\ (reader.count > 0 => table[0] = <<reg.sector, 0>>)
  /\ Waiting /\ failed => fault
  /\ Waiting /\ ~failed /\ reader.state # "read" =>
       reader.state # "error" /\ table[0] = <<reg.sector, 0>>

Located ==
  InUse /\ pc # "directory" /\ (Loading => ret = "list") =>
    start = card.addr \div 16

(* ... that the number of the base stays below that of the bases, and a    *)
(* decision below the number of its base's categories, ...                 *)
OfBases ==
  /\ pc = "compare" \/ Comparing => base <= Bases
  /\ pc \in {"compare", "judge"} \/ Comparing => Bases <= BASES
  /\ pc = "judge" /\ Bases > 0 => base = Bases

Decided ==
  /\ results \in [1 .. BASES -> Result]
  /\ pc = "compared" /\ compared.state = "OK" =>
       compared.decision < card.items[base].spects
  /\ \A b \in 1 .. BASES : Detected(b) =>
       results[b].decision < card.items[b].spects

(* ... what cannot be while no card and no core has failed, ...            *)
Answered == {"OK", "CANT_DETECT"}
Blameless ==
  ~fault =>
    /\ disk_status # "ERROR"
    /\ pc = "card_result" /\ starter[n].state = "idle" =>
         starter[n].result = "success"
    /\ pc \in {"compare_flag", "compare_wait", "compare_errors"} => errs = {}
    /\ pc = "compared" => compared.state \in Answered
    /\ pc = "compare" \/ Comparing =>
         \A b \in 1 .. base - 1 : results[b].state \in Answered
    /\ pc = "judge" => \A b \in 1 .. Bases : results[b].state \in Answered
    /\ SoundCard => /\ pc \notin {"fault", "tried"}
                    /\ ~(Starting /\ ret = "tried")
                    /\ pc = "panic" => panic = "OTHER"

(* ... and what is in the profile and in the word. *)
ProfileKnown ==
  pc = "profile" => loud \in Recordings /\ fragment = selectLoud(loud)

Worded == status = "OK" => pc \in {"listen", "panic"} /\ WordNamed

Inv == /\ IInv /\ TypeOK /\ DiskAtWork /\ Requested /\ Brought /\ Located
       /\ OfBases /\ Decided /\ Blameless /\ ProfileKnown /\ Worded

LEMMA CardStays ==
  ASSUME [Next]_vars
  PROVE  /\ card' = card /\ Bases' = Bases /\ Decisions' = Decisions
         /\ Names' = Names /\ SoundCard' = SoundCard
<1>1. card' = card
  BY DEF Next, CardHardware, ComparerHardware, Interrupts, Program, Boot,
         NoCards, Booted, Directory, Looked, ReadDatabase, Listed, Compare,
         Compared, SelfChecked, Named, NotNamed, NotDetected, Analysed,
         ShowDiskError, TryCards, Tried, Ready, Processed, Recorded,
         MicrophoneError, StartOver, program, vars
<1>2. Bases' = Bases
  BY <1>1 DEF Bases
<1>3. Decisions' = Decisions /\ Names' = Names
  BY <1>1, <1>2 DEF Decisions, Names
<1>4. load_list' = load_list /\ load_linker_list' = load_linker_list
  BY <1>1, <1>2, <1>3 DEF load_list, load_linker_list
<1> QED
  BY <1>1, <1>2, <1>3, <1>4 DEF SoundCard

(* What was recorded stays until it is processed. *)
LEMMA ProfileKnownStep == Inv /\ [Next]_vars => ProfileKnown'
<1> SUFFICES ASSUME Returns, ProfileKnown, [Next]_vars PROVE ProfileKnown'
  BY DEF Inv, IInv
<1> USE DEF ProfileKnown
<1>1. CASE Elsewhere
  <2>1. UNCHANGED <<loud, fragment, pc>>
    BY <1>1, ElsewhereKeeps DEF Elsewhere, CardHardware, ComparerHardware,
                                Interrupts, program, speech, vars
  <2> QED
    BY <2>1
<1>2. CASE Disk_
  BY <1>2 DEF Disk_, DiskProgram, LoadFlag, LoadStart, CardWait, CardStart,
              CardReady, CardError, Returns, Starting, Loading
<1>3. CASE Cards_
  BY <1>3 DEF Cards_, Boot, NoCards, Booted, TryCards, Tried, InitDisk,
              load_disk, Panic
<1>4. CASE Lists
  BY <1>4 DEF Lists, Directory, ReadDatabase, Listed, load_disk, Panic
<1>5. CASE Compare
  BY <1>5 DEF Compare, AI_compare, CompareStart, CompareFlag, CompareLook,
              CompareAgain, CompareError, CompareDone
<1>6. CASE Compared
  BY <1>6 DEF Compared, analyse_load_errors, NextBase
<1>7. CASE Judge
  BY <1>7 DEF Judge, SelfChecked, Named, NotNamed, NotDetected, Analysed,
              ShowDiskError, Panic
<1>8. CASE Loop
  <2>1. CASE Recorded
    BY <2>1 DEF Recorded
  <2>2. CASE Ready \/ Processed \/ MicrophoneError \/ StartOver
    BY <2>2 DEF Ready, Processed, MicrophoneError, StartOver, Panic
  <2> QED
    BY <1>8, <2>1, <2>2 DEF Loop
<1> QED
  BY <1>1, <1>2, <1>3, <1>4, <1>5, <1>6, <1>7, <1>8, Cases

-----------------------------------------------------------------------------
(* Past the cards' own steps the reader and the starters are left alone. *)
LEMMA HardwareKeeps ==
  ASSUME Compare \/ Compared \/ Judge \/ Loop
  PROVE  UNCHANGED <<reg, reader, starter, spi_irq, failed, n, tries>>
<1> USE DEF hardware, driver
<1>1. CASE Compare \/ Compared
  BY <1>1 DEF Compare, Compared
<1>2. CASE Judge
  BY <1>2 DEF Judge, SelfChecked, Named, NotNamed, NotDetected, Analysed,
              ShowDiskError
<1>3. CASE Loop
  BY <1>3 DEF Loop, Ready, Recorded, Processed, MicrophoneError, StartOver
<1> QED
  BY <1>1, <1>2, <1>3

(* The positions that these steps leave and reach are none where the cards *)
(* are at work. *)
LEMMA Positions ==
  ASSUME Compare \/ Compared \/ Judge \/ Loop
  PROVE  /\ pc \in {"compare", "judge", "fault", "ready", "listen", "profile",
                    "panic"} \/ Comparing
         /\ pc' \in {"compare", "judge", "fault", "ready", "listen", "profile",
                     "panic", "boot", "read"} \/ Comparing'
<1> USE DEF Comparing
<1>1. CASE Compare
  BY <1>1 DEF Compare, AI_compare, CompareStart, CompareFlag, CompareLook,
              CompareAgain, CompareError, CompareDone
<1>2. CASE Compared
  BY <1>2 DEF Compared, analyse_load_errors, NextBase
<1>3. CASE Judge
  BY <1>3 DEF Judge, SelfChecked, Named, NotNamed, NotDetected, Analysed,
              ShowDiskError, Panic
<1>4. CASE Loop
  BY <1>4 DEF Loop, Ready, Recorded, Processed, MicrophoneError, StartOver,
              Panic
<1> QED
  BY <1>1, <1>2, <1>3, <1>4

LEMMA DiskAtWorkStep == Inv /\ [Next]_vars => DiskAtWork'
<1> SUFFICES ASSUME Inv, [Next]_vars PROVE DiskAtWork'
  OBVIOUS
<1> USE DiskConstantsOK
<1>0. DiskAtWork /\ Returns
  BY DEF Inv, IInv
<1>t. /\ starter \in [1 .. CARDS -> [state : {"idle", "busy"},
                                     result : {"none", "success", "error"}]]
      /\ reader \in [state : {"idle", "read", "error", "done"}, addr : Words,
                     sector : Nat, count : 0 .. BANK - 1]
      /\ spi_irq \in {0, 1} /\ disk_flag \in {"UP", "DOWN"}
      /\ n \in Nat /\ tries \in 0 .. TRIES
  BY DEF Inv, TypeOK, HardwareType, DriverType
<1> USE DEF DiskAtWork, Waiting, Starting
<1>1. CASE CardHardware
  <2>1. UNCHANGED <<disk_flag, pc, n, tries>>
    BY <1>1 DEF CardHardware, driver
  <2>2. CASE Reader
    BY <1>0, <1>t, <2>1, <2>2
    DEF Reader, ReadWord, ReadFails, GiveUp, ReadEnds
  <2>3. CASE Starter
    <3>1. PICK c \in 1 .. CARDS, r \in {"success", "error"} : StarterEnds(c, r)
      BY <2>3 DEF Starter
    <3>2. /\ starter[c].state = "busy" /\ spi_irq' = 1 /\ reader' = reader
          /\ \A d \in 1 .. CARDS :
               starter'[d].state = IF d = c THEN "idle" ELSE starter[d].state
      BY <1>t, <3>1 DEF StarterEnds
    <3>3. /\ pc = "card_result" /\ c = n /\ disk_flag = "DOWN"
          /\ reader.state = "idle"
      BY <1>0, <3>2
    <3>4. \A d \in 1 .. CARDS : starter'[d].state # "busy"
      BY <1>0, <3>2, <3>3
    <3> QED
      BY <1>0, <2>1, <3>2, <3>3, <3>4
  <2> QED
    BY <1>1, <2>2, <2>3 DEF CardHardware
<1>2. CASE ComparerHardware \/ UNCHANGED vars
  BY <1>0, <1>2 DEF ComparerHardware, vars, diskVars, hardware, driver
<1>3. CASE Interrupts
  BY <1>0, <1>t, <1>3 DEF Interrupts, spi_isr, diskVars, hardware, driver
<1>4. CASE Disk_
  <2>1. CASE LoadFlag \/ LoadStart
    BY <1>0, <2>1 DEF LoadFlag, LoadStart, hardware, Returns, Loading
  <2>2. CASE CardWait
    BY <1>0, <2>2 DEF CardWait, hardware
  <2>3. CASE CardStart
    <3>1. /\ pc = "card_start" /\ pc' = "card_result" /\ disk_flag = "DOWN"
          /\ UNCHANGED <<reader, spi_irq, disk_flag, n, tries>>
          /\ spi_irq = 0 /\ n \in 1 .. CARDS /\ tries < TRIES
          /\ reader.state = "idle"
      BY <1>0, <1>t, <2>3 DEF CardStart, driver
    <3>2. \A c \in 1 .. CARDS : starter'[c].state = "busy" => c = n
      BY <1>0, <1>t, <2>3, <3>1 DEF CardStart
    <3> QED
      BY <3>1, <3>2
  <2>4. CASE CardReady \/ CardError
    <3>1. /\ pc = "card_result" /\ disk_flag = "UP"
          /\ UNCHANGED <<reader, starter, spi_irq, disk_flag>>
          /\ pc' \in {"card_wait", "booted", "tried"}
      BY <1>0, <2>4 DEF CardReady, CardError, hardware, Returns
    <3>2. /\ reader.state = "idle" /\ spi_irq = 0
          /\ \A c \in 1 .. CARDS : starter[c].state # "busy"
      BY <1>0, <3>1
    <3>3. pc' = "card_wait" => n' \in 1 .. CARDS /\ tries' < TRIES
      BY <1>0, <1>t, <2>4 DEF CardReady, CardError, Returns
    <3> QED
      BY <3>1, <3>2, <3>3
  <2> QED
    BY <1>4, <2>1, <2>2, <2>3, <2>4 DEF Disk_, DiskProgram
<1>5. CASE Cards_
  BY <1>0, <1>5 DEF Cards_, Boot, NoCards, Booted, TryCards, Tried, InitDisk,
                    load_disk, Panic, hardware, driver
<1>6. CASE Lists
  <2>1. CASE Directory \/ Listed
    <3>1. /\ Waiting /\ disk_flag = "UP" /\ pc' \notin {"load_start"}
          /\ pc' \in {"read", "panic", "fault", "judge", "compare"}
          /\ UNCHANGED <<reader, starter, spi_irq>>
      BY <1>t, <2>1 DEF Directory, Listed, Looked, check_disk, Panic, hardware
    <3> QED
      BY <1>0, <3>1
  <2>2. CASE ReadDatabase
    BY <1>0, <2>2 DEF ReadDatabase, load_disk
  <2> QED
    BY <1>6, <2>1, <2>2 DEF Lists
<1>7. CASE Compare \/ Compared \/ Judge \/ Loop
  BY <1>0, <1>7, HardwareKeeps, Positions DEF Comparing
<1> QED
  BY <1>1, <1>2, <1>3, <1>4, <1>5, <1>6, <1>7, Cases DEF Elsewhere

LEMMA RequestedStep == Inv /\ [Next]_vars => Requested'
<1> SUFFICES ASSUME Inv, [Next]_vars PROVE Requested'
  OBVIOUS
<1> USE DiskConstantsOK
<1>0. Requested /\ DiskAtWork /\ Returns
  BY DEF Inv, IInv
<1>t. /\ reader \in [state : {"idle", "read", "error", "done"}, addr : Words,
                     sector : Nat, count : 0 .. BANK - 1]
      /\ disk_flag \in {"UP", "DOWN"}
  BY DEF Inv, TypeOK, HardwareType, DriverType
<1>r. reader.state # "idle" => Waiting
  BY <1>0 DEF DiskAtWork
<1> USE DEF Requested, Header, Waiting, Loading
<1>1. CASE CardHardware
  <2>1. UNCHANGED <<pc, ret, reg, start>>
    BY <1>1 DEF CardHardware, driver, program, place, Reader, ReadWord,
                ReadFails, GiveUp, ReadEnds, Starter, StarterEnds
  <2>2. CASE ReadWord
    <3>1. /\ reader.state = "read" /\ reader.count <= HEADER
          /\ reg.len = HEADER /\ reader.addr = reader.count
          /\ reader.count \in Nat
      BY <1>0, <1>t, <1>r, <2>2 DEF ReadWord
    <3>2. CASE reader.count = HEADER
      BY <1>0, <1>t, <2>1, <2>2, <3>1, <3>2 DEF ReadWord
    <3>3. CASE reader.count # HEADER
      <4>1. /\ reader' = [[reader EXCEPT !.addr = @ + 1] EXCEPT !.count = @ + 1]
        BY <1>t, <2>2, <3>1, <3>3 DEF ReadWord
      <4>2. /\ reader'.addr = reader.addr + 1 /\ reader'.sector = reader.sector
            /\ reader'.count = reader.count + 1
        BY <1>t, <4>1
      <4> QED
        BY <1>0, <2>1, <3>1, <3>3, <4>2
    <3> QED
      BY <3>2, <3>3
  <2>3. CASE ReadFails \/ GiveUp \/ ReadEnds \/ Starter
    BY <1>0, <1>t, <2>1, <2>3 DEF ReadFails, GiveUp, ReadEnds, Starter,
                                  StarterEnds
  <2> QED
    BY <1>1, <2>2, <2>3 DEF CardHardware, Reader
<1>2. CASE ComparerHardware \/ UNCHANGED vars
  BY <1>0, <1>2 DEF ComparerHardware, vars, diskVars, hardware, program, place
<1>3. CASE Interrupts
  BY <1>0, <1>3 DEF Interrupts, spi_isr, diskVars, hardware, program, place
<1>4. CASE Disk_
  <2>1. UNCHANGED <<ret, reg, start>>
    BY <1>4 DEF Disk_, DiskProgram, LoadFlag, LoadStart, CardWait, CardStart,
                CardReady, CardError, hardware, program, place
  <2>2. CASE LoadStart
    BY <1>0, <1>r, <2>1, <2>2 DEF LoadStart, Returns
  <2>3. CASE LoadFlag \/ CardWait \/ CardStart \/ CardReady \/ CardError
    BY <1>0, <2>1, <2>3 DEF LoadFlag, CardWait, CardStart, CardReady,
                            CardError, hardware, Returns, Starting
  <2> QED
    BY <1>4, <2>2, <2>3 DEF Disk_, DiskProgram
<1>5. CASE Cards_
  <2>1. reader.state = "idle" /\ reader' = reader
    BY <1>r, <1>t, <1>5 DEF Cards_, Boot, NoCards, Booted, TryCards, Tried,
                            InitDisk, load_disk, hardware
  <2>2. CASE Booted
    BY <2>1, <2>2 DEF Booted, load_disk
  <2> QED
    BY <1>5, <2>1, <2>2 DEF Cards_, Boot, NoCards, TryCards, Tried, InitDisk,
                            Panic
<1>6. CASE Lists
  <2>1. CASE Directory \/ Listed
    <3>1. /\ Waiting /\ disk_flag = "UP" /\ reader' = reader
          /\ pc' \in {"read", "panic", "fault", "judge", "compare"}
      BY <1>t, <2>1 DEF Directory, Listed, Looked, check_disk, Panic, hardware
    <3> QED
      BY <1>0, <3>1 DEF DiskAtWork
  <2>2. CASE ReadDatabase
    <3>1. reader.state = "idle" /\ reader' = reader
      BY <1>r, <2>2 DEF ReadDatabase, load_disk
    <3> QED
      BY <2>2, <3>1 DEF ReadDatabase, load_disk, program, place
  <2> QED
    BY <1>6, <2>1, <2>2 DEF Lists
<1>7. CASE Compare \/ Compared \/ Judge \/ Loop
  <2>1. reader.state = "idle"
    BY <1>r, <1>7, Positions DEF Comparing
  <2> QED
    BY <2>1, <1>7, HardwareKeeps, Positions DEF Comparing
<1> QED
  BY <1>1, <1>2, <1>3, <1>4, <1>5, <1>6, <1>7, Cases DEF Elsewhere

LEMMA BroughtStep == Inv /\ [Next]_vars => Brought'
<1> SUFFICES ASSUME Inv, [Next]_vars PROVE Brought'
  OBVIOUS
<1> USE DiskConstantsOK
<1>0. Brought /\ Requested /\ DiskAtWork /\ Returns
  BY DEF Inv, IInv
<1>t. /\ reader \in [state : {"idle", "read", "error", "done"}, addr : Words,
                     sector : Nat, count : 0 .. BANK - 1]
      /\ disk_flag \in {"UP", "DOWN"} /\ table \in [Words -> Nat \X Nat]
      /\ failed \in BOOLEAN /\ fault \in BOOLEAN
  BY DEF Inv, TypeOK, HardwareType, DriverType, RecognitionType
<1>w. 0 \in Words
  BY DEF Words
<1>r. reader.state # "idle" => Waiting
  BY <1>0 DEF DiskAtWork
<1> USE DEF Brought, Waiting
<1>1. CASE CardHardware
  <2>1. UNCHANGED pc
    BY <1>1 DEF CardHardware
  <2>2. CASE ReadWord
    <3>1. /\ reader.state = "read" /\ reader.addr = reader.count
          /\ reader.sector = reg.sector /\ UNCHANGED <<reg, failed>>
          /\ reader.count \in Nat /\ reader.addr \in Words /\ ~failed
      BY <1>0, <1>t, <2>2 DEF ReadWord, Requested
    <3>2. table' = [table EXCEPT ![reader.addr] = <<reg.sector, reader.count>>]
      BY <2>2, <3>1 DEF ReadWord
    <3>3. table'[0] = <<reg.sector, 0>>
      BY <1>0, <1>t, <1>w, <3>1, <3>2
    <3>4. reader'.state \in {"read", "done"}
      BY <1>t, <2>2, <3>1 DEF ReadWord
    <3> QED
      BY <2>1, <3>1, <3>3, <3>4
  <2>3. CASE ReadFails
    <3>1. failed' /\ ~failed /\ reader'.state = "error"
      BY <1>0, <1>t, <2>3 DEF ReadFails
    <3>2. fault'
      BY <1>1, <3>1 DEF CardHardware
    <3> QED
      BY <3>1, <3>2
  <2>4. CASE GiveUp \/ ReadEnds \/ Starter
    <3>1. /\ UNCHANGED <<table, failed, reg>> /\ (fault => fault')
      BY <1>1, <2>4 DEF CardHardware, GiveUp, ReadEnds, Starter, StarterEnds
    <3>2. \/ reader' = reader
          \/ reader.state # "read" /\ reader'.state \in {"idle", "done"}
      BY <1>t, <2>4 DEF GiveUp, ReadEnds, Starter, StarterEnds
    <3> QED
      BY <1>0, <1>t, <2>1, <3>1, <3>2
  <2> QED
    BY <1>1, <2>2, <2>3, <2>4 DEF CardHardware, Reader
<1>2. CASE ComparerHardware
  <2>1. (fault => fault') /\ UNCHANGED <<reg, reader, table, failed, pc>>
    BY <1>2 DEF ComparerHardware, diskVars, hardware
  <2> QED
    BY <1>0, <2>1
<1>3. CASE Interrupts \/ UNCHANGED vars
  BY <1>0, <1>3 DEF Interrupts, spi_isr, vars, diskVars, hardware
<1>4. CASE Disk_
  <2>1. UNCHANGED <<reg, table, fault>>
    BY <1>4 DEF Disk_, DiskProgram, LoadFlag, LoadStart, CardWait, CardStart,
                CardReady, CardError, hardware
  <2>2. CASE LoadStart
    BY <1>0, <1>r, <2>1, <2>2 DEF LoadStart
  <2>3. CASE LoadFlag \/ CardWait \/ CardStart \/ CardReady \/ CardError
    BY <1>0, <1>r, <1>t, <2>1, <2>3
    DEF LoadFlag, CardWait, CardStart, CardReady, CardError, hardware, Returns,
        Starting, Loading
  <2> QED
    BY <1>4, <2>2, <2>3 DEF Disk_, DiskProgram
<1>5. CASE Cards_
  <2>1. reader.state = "idle" /\ reader' = reader
    BY <1>r, <1>t, <1>5 DEF Cards_, Boot, NoCards, Booted, TryCards, Tried,
                            InitDisk, load_disk, hardware
  <2> QED
    BY <1>5, <2>1 DEF Cards_, Boot, NoCards, Booted, TryCards, Tried, InitDisk,
                      Panic, load_disk
<1>6. CASE Lists
  <2>1. CASE Directory \/ Listed
    <3>1. /\ Waiting /\ disk_flag = "UP" /\ reader' = reader
          /\ pc' \in {"read", "panic", "fault", "judge", "compare"}
      BY <1>t, <2>1 DEF Directory, Listed, Looked, check_disk, Panic, hardware
    <3> QED
      BY <1>0, <3>1 DEF DiskAtWork
  <2>2. CASE ReadDatabase
    BY <1>r, <2>2 DEF ReadDatabase, load_disk
  <2> QED
    BY <1>6, <2>1, <2>2 DEF Lists
<1>7. CASE Compare \/ Compared \/ Judge \/ Loop
  <2>1. reader.state = "idle"
    BY <1>r, <1>7, Positions DEF Comparing
  <2> QED
    BY <2>1, <1>7, HardwareKeeps, Positions DEF Comparing
<1> QED
  BY <1>1, <1>2, <1>3, <1>4, <1>5, <1>6, <1>7, Cases DEF Elsewhere

LEMMA LocatedStep == Inv /\ [Next]_vars => Located'
<1> SUFFICES ASSUME Inv, [Next]_vars PROVE Located'
  OBVIOUS
<1>0. Located /\ Returns /\ card' = card
  BY CardStays DEF Inv, IInv
<1> USE DEF Located, InUse, Loading, Comparing
<1>1. CASE Elsewhere
  BY <1>0, <1>1, ElsewhereKeeps
  DEF Elsewhere, CardHardware, ComparerHardware, Interrupts, program, place,
      vars
<1>2. CASE Disk_
  BY <1>0, <1>2 DEF Disk_, DiskProgram, LoadFlag, LoadStart, CardWait,
                    CardStart, CardReady, CardError, Returns, Starting,
                    program, place
<1>3. CASE Cards_
  BY <1>0, <1>3 DEF Cards_, Boot, NoCards, Booted, TryCards, Tried, InitDisk,
                    load_disk, Panic, program, place
<1>4. CASE Lists
  BY <1>0, <1>4 DEF Lists, Directory, ReadDatabase, Listed, load_disk, Panic,
                    program, place
<1>5. CASE Compare
  BY <1>0, <1>5 DEF Compare, AI_compare, CompareStart, CompareFlag,
                    CompareLook, CompareAgain, CompareError, CompareDone,
                    program, place
<1>6. CASE Compared
  BY <1>0, <1>6 DEF Compared, analyse_load_errors, NextBase
<1>7. CASE Judge
  BY <1>0, <1>7 DEF Judge, SelfChecked, Named, NotNamed, NotDetected, Analysed,
                    ShowDiskError, Panic, program, place
<1>8. CASE Loop
  BY <1>0, <1>8 DEF Loop, Ready, Recorded, Processed, MicrophoneError,
                    StartOver, Panic, program, place
<1> QED
  BY <1>1, <1>2, <1>3, <1>4, <1>5, <1>6, <1>7, <1>8, Cases

LEMMA OfBasesStep == Inv /\ [Next]_vars => OfBases'
<1> SUFFICES ASSUME Inv, [Next]_vars PROVE OfBases'
  OBVIOUS
<1>0. OfBases /\ Returns /\ Bases' = Bases
  BY CardStays DEF Inv, IInv
<1>t. Bases \in Nat /\ base \in 1 .. BASES /\ BASES \in Nat
  <2>1. List(card.items)
    BY CardsHoldLists DEF Inv, TypeOK, RecognitionType
  <2>2. Bases \in Nat
    BY <2>1, LeadingIs DEF Bases, List
  <2> QED
    BY <2>2, CardsOK DEF Inv, TypeOK, RecognitionType
<1> USE DEF OfBases, Comparing
<1>1. CASE Elsewhere
  BY <1>0, <1>1, ElsewhereKeeps
<1>2. CASE Disk_
  BY <1>0, <1>2 DEF Disk_, DiskProgram, LoadFlag, LoadStart, CardWait, CardStart,
              CardReady, CardError, Returns, Starting, Loading
<1>3. CASE Cards_
  BY <1>3 DEF Cards_, Boot, NoCards, Booted, TryCards, Tried, InitDisk,
              load_disk, Panic
<1>4. CASE Lists
  <2>1. CASE Directory \/ ReadDatabase
    BY <2>1 DEF Directory, ReadDatabase, load_disk, Panic
  <2>2. CASE Listed /\ IsList
    <3>1. base' = 1 /\ pc' = IF Bases = 0 THEN "judge" ELSE "compare"
      BY <2>2 DEF Listed
    <3>2. Bases <= BASES
      BY <2>2 DEF IsList, load_list
    <3> QED
      BY <1>0, <1>t, <3>1, <3>2
  <2>3. CASE Listed /\ ~IsList
    BY <2>3 DEF Listed
  <2> QED
    BY <1>4, <2>1, <2>2, <2>3 DEF Lists
<1>5. CASE Compare
  BY <1>0, <1>5 DEF Compare, AI_compare, CompareStart, CompareFlag,
                    CompareLook, CompareAgain, CompareError, CompareDone,
                    program, place
<1>6. CASE Compared
  <2>1. /\ pc = "compared" /\ base' = IF pc' = "compare" THEN base + 1 ELSE base
        /\ \/ pc' = "fault"
           \/ pc' = IF base = Bases THEN "judge" ELSE "compare"
    BY <1>6 DEF Compared, analyse_load_errors, NextBase
  <2> QED
    BY <1>0, <1>t, <2>1
<1>7. CASE Judge
  BY <1>7 DEF Judge, SelfChecked, Named, NotNamed, NotDetected, Analysed,
              ShowDiskError, Panic
<1>8. CASE Loop
  BY <1>8 DEF Loop, Ready, Recorded, Processed, MicrophoneError, StartOver,
              Panic
<1> QED
  BY <1>1, <1>2, <1>3, <1>4, <1>5, <1>6, <1>7, <1>8, Cases

(* What AI_compare returns is a result of this base. *)
LEMMA ComparedResult ==
  ASSUME Inv, Compare
  PROVE  /\ compared' \in Result
         /\ pc' = "compared" /\ compared'.state = "OK" =>
              compared'.decision < card.items[base].spects
<1> USE ComparerConstantsOK
<1>t. compared \in Result
  BY DEF Inv, TypeOK, ComparerType, Result
<1>1. CASE CompareStart \/ CompareFlag \/ CompareLook \/ CompareAgain
  BY <1>t, <1>1 DEF CompareStart, CompareFlag, CompareLook, CompareAgain,
                    comparer
<1>2. CASE CompareError
  <2>1. ErrorState \in {"DISK_ERROR", "NO_DISK_DETECT", "FIFO_OVERFLOW"}
    BY DEF ErrorState
  <2>2. compared' = [state |-> ErrorState, decision |-> 0, score |-> 0]
    BY <1>2 DEF CompareError, NotCompared
  <2> HIDE DEF ErrorState
  <2> QED
    BY <2>1, <2>2 DEF Result
<1>3. CASE CompareDone(card.items[base].spects)
  <2>1. PICK o \in Outcomes :
          /\ o.result < card.items[base].spects \/ o.result >= SPECTS
          /\ compared' =
               IF o.result < SPECTS
               THEN [state |-> "OK", decision |-> o.result,
                     score |-> count_diffrence(o.sums, o.result)]
               ELSE [state |-> "CANT_DETECT", decision |-> 0, score |-> 0]
    BY <1>3 DEF CompareDone
  <2> DEFINE score == count_diffrence(o.sums, o.result)
  <2>2. score \in Nat /\ o.result \in Nat
    BY ScoreType
  <2> HIDE DEF score
  <2>3. CASE o.result < SPECTS
    <3>1. o.result \in 0 .. SPECTS - 1
      BY <2>2, <2>3
    <3>2. compared' = [state |-> "OK", decision |-> o.result, score |-> score]
      BY <2>1, <2>3 DEF score
    <3>3. o.result < card.items[base].spects
      BY <2>1, <2>2, <2>3
    <3> QED
      BY <2>2, <3>1, <3>2, <3>3 DEF Result
  <2>4. CASE ~(o.result < SPECTS)
    <3>1. compared' = [state |-> "CANT_DETECT", decision |-> 0, score |-> 0]
      BY <2>1, <2>4
    <3> QED
      BY <3>1 DEF Result
  <2> QED
    BY <2>3, <2>4
<1> QED
  BY <1>1, <1>2, <1>3 DEF Compare, AI_compare

LEMMA DecidedStep == Inv /\ [Next]_vars => Decided'
<1> SUFFICES ASSUME Inv, [Next]_vars PROVE Decided'
  OBVIOUS
<1>0. Decided /\ Returns /\ card' = card
  BY CardStays DEF Inv, IInv
<1>t. compared \in Result /\ base \in 1 .. BASES
  BY DEF Inv, TypeOK, ComparerType, RecognitionType, Result
<1>u. /\ Unused \in [1 .. BASES -> Result]
      /\ \A b \in 1 .. BASES : Unused[b].state # "OK"
  BY ComparerConstantsOK DEF Unused, NotCompared, Result
<1> USE DEF Decided, Detected
<1>1. CASE Elsewhere
  BY <1>0, <1>1, ElsewhereKeeps
<1>2. CASE Disk_
  BY <1>0, <1>2 DEF Disk_, DiskProgram, LoadFlag, LoadStart, CardWait,
                    CardStart, CardReady, CardError, Returns, Starting,
                    Loading, program
<1>3. CASE Cards_
  BY <1>0, <1>3 DEF Cards_, Boot, NoCards, Booted, TryCards, Tried, InitDisk,
                    load_disk, Panic, program
<1>4. CASE Lists
  BY <1>0, <1>u, <1>4 DEF Lists, Directory, ReadDatabase, Listed, load_disk,
                          Panic, program
<1>5. CASE Compare
  <2>1. UNCHANGED <<results, base>>
    BY <1>5 DEF Compare, program, place
  <2> QED
    BY <1>0, <1>5, <2>1, ComparedResult
<1>6. CASE Compared
  <2>1. /\ pc = "compared" /\ results' = [results EXCEPT ![base] = compared]
        /\ pc' # "compared"
    BY <1>6 DEF Compared, analyse_load_errors, NextBase
  <2>2. \A b \in 1 .. BASES :
          results'[b] = IF b = base THEN compared ELSE results[b]
    BY <1>0, <2>1
  <2>3. results' \in [1 .. BASES -> Result]
    BY <1>0, <1>t, <2>1
  <2> QED
    BY <1>0, <1>t, <2>1, <2>2, <2>3
<1>7. CASE Judge
  BY <1>0, <1>7 DEF Judge, SelfChecked, Named, NotNamed, NotDetected, Analysed,
                    ShowDiskError, Panic, program
<1>8. CASE Loop
  BY <1>0, <1>u, <1>8 DEF Loop, Ready, Recorded, Processed, MicrophoneError,
                          StartOver, Panic, program
<1> QED
  BY <1>1, <1>2, <1>3, <1>4, <1>5, <1>6, <1>7, <1>8, Cases

(* The lists of a sound card lead past the judgement. *)
LEMMA SoundJudgement ==
  ASSUME Inv, pc = "judge", ~fault, SoundCard
  PROVE  /\ Verdict # "BAD_CONFIG" /\ load_linker_list
         /\ Verdict = "OK" => HasName
<1> USE CardsOK
<1>0. Blameless /\ Decided /\ OfBases /\ card \in Cards
  BY DEF Inv, TypeOK, RecognitionType
<1>1. List(card.items)
  BY <1>0, CardsHoldLists
<1>2. Bases \in Nat /\ Bases > 0 /\ Bases <= BASES /\ load_linker_list
  <2>1. Bases \in Nat
    BY <1>1, LeadingIs DEF Bases, List
  <2> QED
    BY <1>0, <2>1 DEF OfBases, SoundCard
<1>3. 1 \in 1 .. Bases /\ results[1].state \in Answered
  BY <1>0, <1>2 DEF Blameless
<1>4. Verdict # "BAD_CONFIG"
  BY <1>3 DEF Verdict, Detected, Answered
<1>5. ASSUME Verdict = "OK" PROVE HasName
  <2>1. \E b \in 1 .. Bases : Detected(b)
    BY <1>5 DEF Verdict
  <2>2. /\ selectBestSuit <= Decisions
        /\ selectBestSuit + 1 \in DOMAIN Names
    BY <1>0, <1>2, <2>1, LinkerNames DEF Decided
  <2>3. \A i \in DOMAIN Names : Names[i].ends
    BY DEF SoundCard
  <2> QED
    BY <2>2, <2>3 DEF HasName, Linker
<1> QED
  BY <1>2, <1>4, <1>5

(* What is loaded of a sound card is its directory, and its list. *)
LEMMA SoundLoad ==
  ASSUME Inv, ~fault, SoundCard, Waiting, check_disk # "IN_PROGRESS"
  PROVE  /\ check_disk = "OK"
         /\ pc = "directory" => table[0] = <<0, 0>> /\ card.directory
         /\ pc = "list" => IsList
<1>0. Brought /\ Requested /\ DiskAtWork /\ Located
  BY DEF Inv
<1>1. disk_flag = "UP"
  BY DEF check_disk, Inv, TypeOK, DriverType
<1>2. reader.state = "idle"
  BY <1>0, <1>1 DEF DiskAtWork
<1>3. check_disk = "OK" /\ table[0] = <<reg.sector, 0>>
  BY <1>0, <1>1, <1>2 DEF check_disk, Q2Error, Brought
<1>4. reg.sector = IF pc = "directory" THEN 0 ELSE start * 16
  BY <1>0 DEF Requested, Header, Waiting
<1>5. ASSUME pc = "list" PROVE reg.sector = card.addr
  <2>1. start = card.addr \div 16
    BY <1>0, <1>5 DEF Located, InUse, Loading, Waiting
  <2>2. card.addr \in Nat /\ card.addr % 16 = 0
    BY CardsOK DEF Inv, TypeOK, RecognitionType, SoundCard
  <2>3. (card.addr \div 16) * 16 = card.addr
    <3> DEFINE a == card.addr
    <3>1. a \in Nat /\ a % 16 = 0
      BY <2>2
    <3> HIDE DEF a
    <3>2. (a \div 16) * 16 = a
      BY ONLY <3>1
    <3> QED
      BY <3>2 DEF a
  <2> QED
    BY <1>4, <1>5, <2>1, <2>3
<1> QED
  BY <1>3, <1>4, <1>5 DEF SoundCard, IsList, Waiting

LEMMA BlamelessStep == Inv /\ [Next]_vars => Blameless'
<1> SUFFICES ASSUME Inv, [Next]_vars, ~fault' PROVE Blameless'
  BY DEF Blameless
<1> USE DiskConstantsOK
<1>0. /\ Returns /\ Bases' = Bases /\ SoundCard' = SoundCard
      /\ Blameless /\ DiskAtWork
  BY CardStays DEF Inv, IInv
<1>t. /\ starter \in [1 .. CARDS -> [state : {"idle", "busy"},
                                     result : {"none", "success", "error"}]]
      /\ disk_flag \in {"UP", "DOWN"}
  BY DEF Inv, TypeOK, HardwareType, DriverType
<1>b. base \in 1 .. BASES /\ BASES \in Nat /\ Bases \in Nat
  <2>1. List(card.items)
    BY CardsHoldLists DEF Inv, TypeOK, RecognitionType
  <2>2. Bases \in Nat
    BY <2>1, LeadingIs DEF Bases, List
  <2> QED
    BY <2>2, CardsOK DEF Inv, TypeOK, RecognitionType
<1>s. results = [b \in 1 .. BASES |-> results[b]]
  BY DEF Inv, IInv, BasesKnown
<1> USE DEF Starting, Comparing
<1>1. CASE CardHardware
  <2>1. /\ UNCHANGED <<pc, ret, disk_status, results, panic, base, n>>
        /\ UNCHANGED <<compared, errs>> /\ ~fault
    BY <1>1 DEF CardHardware, driver, comparer, chip, program, place
  <2>2. pc = "card_result" /\ starter'[n].state = "idle" =>
          starter'[n].result = "success"
    <3>1. CASE Reader
      BY <1>0, <2>1, <3>1 DEF Reader, ReadWord, ReadFails, GiveUp, ReadEnds,
                              Blameless
    <3>2. CASE Starter
      <4>1. PICK c \in 1 .. CARDS, r \in {"success", "error"} :
              StarterEnds(c, r)
        BY <3>2 DEF Starter
      <4>2. starter[c].state = "busy" /\ starter'[c].result = r
        BY <1>t, <4>1 DEF StarterEnds
      <4>3. c = n /\ r = "success"
        BY <1>0, <1>1, <4>2 DEF CardHardware, Cores, DiskAtWork
      <4> QED
        BY <4>2, <4>3
    <3> QED
      BY <1>1, <3>1, <3>2 DEF CardHardware
  <2> QED
    BY <1>0, <2>1, <2>2 DEF Blameless
<1>2. CASE ComparerHardware
  <2>1. /\ UNCHANGED <<pc, ret, disk_status, results, panic, base>>
        /\ UNCHANGED <<compared, n, starter>>
    BY <1>2 DEF ComparerHardware, diskVars, hardware, driver, program, place
  <2>2. UNCHANGED errs /\ ~fault
    BY <1>2 DEF ComparerHardware, CoreEnds
  <2> QED
    BY <1>0, <2>1, <2>2 DEF Blameless
<1>3. CASE Interrupts \/ UNCHANGED vars
  <2>1. /\ UNCHANGED <<pc, ret, disk_status, results, panic, base>>
        /\ UNCHANGED <<compared, errs, n, starter, fault>>
    BY <1>3 DEF Interrupts, spi_isr, ai_isr, diskVars, hardware, driver,
                comparer, chip, program, place, vars
  <2> QED
    BY <1>0, <2>1 DEF Blameless
<1>4. CASE Disk_
  <2>1. UNCHANGED <<errs, compared, results, base, panic, ret, fault>>
    BY <1>4 DEF Disk_, DiskProgram, LoadFlag, LoadStart, CardWait, CardStart,
                CardReady, CardError, comparer, chip, program, place
  <2>2. CASE CardReady
    <3>1. /\ pc = "card_result" /\ disk_status' \in {"READY", disk_status}
          /\ pc' \in {"card_wait", ret} /\ ret \in {"booted", "tried"}
      BY <1>0, <2>2 DEF CardReady, Returns
    <3> QED
      BY <1>0, <2>1, <3>1 DEF Blameless
  <2>3. CASE CardError
    <3>1. pc = "card_result" /\ disk_flag = "UP" /\ n \in 1 .. CARDS
          /\ starter[n].result # "success"
      BY <1>0, <2>3 DEF CardError, DiskAtWork
    <3>2. starter[n].state = "idle"
      BY <1>0, <1>t, <3>1 DEF DiskAtWork
    <3> QED
      BY <1>0, <2>1, <3>1, <3>2 DEF Blameless
  <2>4. CASE CardStart
    <3>1. /\ pc = "card_start" /\ pc' = "card_result" /\ n' = n
          /\ disk_status' = disk_status
      BY <2>4 DEF CardStart, driver
    <3>2. n \in 1 .. CARDS /\ starter' = [starter EXCEPT ![n].state = "busy"]
      BY <1>0, <2>4 DEF CardStart, DiskAtWork
    <3>3. starter'[n].state = "busy"
      BY <1>t, <3>2
    <3> QED
      BY <1>0, <2>1, <3>1, <3>3 DEF Blameless
  <2>5. CASE LoadFlag \/ LoadStart \/ CardWait
    <3>1. /\ pc' \in {"load_start", "directory", "list", "card_start"}
          /\ disk_status' = disk_status
          /\ pc' = "card_start" => pc = "card_wait"
      BY <1>0, <2>5 DEF LoadFlag, LoadStart, CardWait, Returns, Loading, driver
    <3> QED
      BY <1>0, <2>1, <3>1 DEF Blameless
  <2> QED
    BY <1>4, <2>2, <2>3, <2>4, <2>5 DEF Disk_, DiskProgram
<1>5. CASE Cards_
  <2>1. ~fault /\ disk_status' = disk_status
    BY <1>5 DEF Cards_, Boot, NoCards, Booted, TryCards, Tried, InitDisk,
                load_disk, driver
  <2>2. /\ pc' \in {"card_wait", "panic", "load_flag"}
        /\ pc' = "card_wait" => ret' = "booted" \/ pc = "fault"
        /\ pc' = "panic" => pc = "tried" \/ disk_status = "ERROR"
    BY <1>5 DEF Cards_, Boot, NoCards, Booted, TryCards, Tried, InitDisk,
                load_disk, Panic
  <2> QED
    BY <1>0, <2>1, <2>2 DEF Blameless
<1>6. CASE Lists
  <2>1. ~fault /\ disk_status' = disk_status
    BY <1>6 DEF Lists, Directory, ReadDatabase, Listed, Looked, load_disk,
                program
  <2>2. CASE Directory
    <3>1. Waiting /\ check_disk # "IN_PROGRESS" /\ pc = "directory"
      BY <2>2 DEF Directory, Looked, Waiting
    <3>2. SoundCard => pc' = "read"
      BY <2>1, <2>2, <3>1, SoundLoad DEF Directory
    <3>3. pc' \in {"read", "panic"}
      BY <2>2 DEF Directory, Panic
    <3> QED
      BY <1>0, <2>1, <3>2, <3>3 DEF Blameless
  <2>3. CASE ReadDatabase
    BY <1>0, <2>1, <2>3 DEF ReadDatabase, load_disk, Blameless
  <2>4. CASE Listed
    <3>1. Waiting /\ check_disk # "IN_PROGRESS" /\ pc = "list"
      BY <2>4 DEF Listed, Looked, Waiting
    <3>2. SoundCard => IsList
      BY <2>1, <3>1, SoundLoad
    <3>3. /\ pc' \in {"judge", "compare", "fault"}
          /\ pc' = "fault" => ~IsList
          /\ pc' = "judge" => Bases = 0
          /\ pc' = "compare" => base' = 1
      BY <2>4 DEF Listed
    <3> QED
      BY <1>0, <2>1, <3>2, <3>3 DEF Blameless
  <2> QED
    BY <1>6, <2>2, <2>3, <2>4 DEF Lists
<1>7. CASE Compare
  <2>1. UNCHANGED <<results, base, disk_status, ret, fault, n, starter>>
    BY <1>7 DEF Compare, hardware, driver, program, place
  <2>2. /\ pc = "compare" \/ Comparing
        /\ pc' \in {"compare_flag", "compare_wait", "compare_errors",
                    "compared"}
    BY <1>7 DEF Compare, AI_compare, CompareStart, CompareFlag, CompareLook,
                CompareAgain, CompareError, CompareDone
  <2>3. pc \in {"compare_flag", "compare_wait", "compare_errors"} => errs = {}
    BY <1>0, <2>1 DEF Blameless
  <2>4. /\ pc' # "compared" => errs' = {}
        /\ pc' = "compared" => compared'.state \in Answered
    <3>1. CASE CompareStart \/ CompareFlag \/ CompareLook \/ CompareAgain
      BY <2>3, <3>1 DEF CompareStart, CompareFlag, CompareLook, CompareAgain,
                        comparer, chip
    <3>2. CASE CompareError
      BY <2>3, <3>2 DEF CompareError
    <3>3. CASE CompareDone(card.items[base].spects)
      BY <3>3 DEF CompareDone, Answered
    <3> QED
      BY <1>7, <3>1, <3>2, <3>3 DEF Compare, AI_compare
  <2> QED
    BY <1>0, <2>1, <2>2, <2>4 DEF Blameless
<1>8. CASE Compared
  <2>1. /\ pc = "compared" /\ results' = [results EXCEPT ![base] = compared]
        /\ base' = IF pc' = "compare" THEN base + 1 ELSE base
        /\ ~fault /\ analyse_load_errors
    BY <1>8 DEF Compared
  <2>2. compared.state \in Answered
    BY <1>0, <2>1 DEF Blameless
  <2>3. /\ disk_status' = disk_status
        /\ pc' = IF base = Bases THEN "judge" ELSE "compare"
    BY <2>1, <2>2 DEF analyse_load_errors, Missing, Answered, NextBase
  <2>4. \A b \in 1 .. BASES :
          results'[b] = IF b = base THEN compared ELSE results[b]
    BY <1>s, <2>1
  <2>5. \A b \in 1 .. base : results'[b].state \in Answered
    <3>1. \A b \in 1 .. base - 1 : results[b].state \in Answered
      BY <1>0, <2>1 DEF Blameless
    <3> QED
      BY <1>b, <2>2, <2>4, <3>1
  <2>6. /\ pc' = "compare" =>
             \A b \in 1 .. base' - 1 : results'[b].state \in Answered
        /\ pc' = "judge" => \A b \in 1 .. Bases : results'[b].state \in Answered
    BY <1>b, <2>1, <2>3, <2>5
  <2> QED
    BY <1>0, <2>1, <2>3, <2>6 DEF Blameless
<1>9. CASE Judge
  <2>1. ~fault /\ disk_status' = disk_status
    BY <1>9 DEF Judge, SelfChecked, Named, NotNamed, NotDetected, Analysed,
                ShowDiskError, driver, program
  <2>2. /\ pc' \in {"fault", "ready", "listen", "panic"}
        /\ pc' = "panic" => pc = "fault"
        /\ pc' = "fault" => pc = "judge" /\ (\/ Verdict = "BAD_CONFIG"
                                             \/ load_linker_list =>
                                                  Verdict = "OK" /\ ~HasName)
    BY <1>9 DEF Judge, SelfChecked, Named, NotNamed, NotDetected, Analysed,
                ShowDiskError, Panic
  <2>3. SoundCard => pc' \in {"ready", "listen"}
    BY <1>0, <2>1, <2>2, SoundJudgement DEF Blameless
  <2> QED
    BY <1>0, <2>1, <2>2, <2>3 DEF Blameless
<1>10. CASE Loop
  <2>1. /\ disk_status' \in {disk_status, "NONE"}
        /\ disk_status' = disk_status => ~fault \/ disk_status # "ERROR"
    BY <1>10 DEF Loop, Ready, Recorded, Processed, MicrophoneError, StartOver,
                 driver, program
  <2>2. /\ pc' \in {"listen", "profile", "read", "panic", "boot"}
        /\ pc' = "panic" => panic' = "OTHER"
    BY <1>10 DEF Loop, Ready, Recorded, Processed, MicrophoneError, StartOver,
                 Panic
  <2> QED
    BY <1>0, <2>1, <2>2 DEF Blameless
<1> QED
  BY <1>1, <1>2, <1>3, <1>4, <1>5, <1>6, <1>7, <1>8, <1>9, <1>10, Cases
  DEF Elsewhere

LEMMA WordedStep == Inv /\ [Next]_vars => Worded'
<1> SUFFICES ASSUME Inv, [Next]_vars, status' = "OK" PROVE Worded'
  BY DEF Worded
<1>0. /\ Worded /\ Bases' = Bases /\ Returns /\ Decided /\ OfBases
      /\ card \in Cards
  BY CardStays DEF Inv, IInv, TypeOK, RecognitionType
<1>1. CASE /\ UNCHANGED <<status, word, results>>
           /\ pc \in {"listen", "panic"} => pc' \in {"listen", "panic"}
  BY <1>0, <1>1 DEF Worded, WordNamed, Nearest, Detected
<1>2. CASE Named
  <2>1. /\ pc = "judge" /\ load_linker_list /\ Verdict = "OK"
        /\ word' = Linker.of /\ results' = results /\ pc' = "listen"
    BY <1>2 DEF Named, Analysed, place
  <2>2. \E b \in 1 .. Bases : Detected(b)
    BY <2>1 DEF Verdict
  <2>3. PICK b \in 1 .. Bases :
          /\ Nearest(b)
          /\ Linker.of = [base |-> b, decision |-> results[b].decision]
    BY <1>0, <2>1, <2>2, LinkerNames DEF Decided, OfBases
  <2> QED
    BY <1>0, <2>1, <2>3 DEF Worded, WordNamed, Nearest, Detected
<1>3. CASE Elsewhere
  <2>1. UNCHANGED <<status, word, results, pc>>
    BY <1>3, ElsewhereKeeps DEF Elsewhere, CardHardware, ComparerHardware,
                                Interrupts, program, speech, vars
  <2> QED
    BY <1>1, <2>1
<1>4. CASE Disk_ \/ Cards_ \/ Lists \/ Compare \/ Compared
  <2>1. UNCHANGED status
    BY <1>4 DEF Disk_, Cards_, Boot, NoCards, Booted, TryCards, Tried, Lists,
                Directory, ReadDatabase, Listed, Looked, Compare, Compared,
                program, speech
  <2>2. pc \notin {"listen", "panic"}
    BY <1>4 DEF Disk_, DiskProgram, LoadFlag, LoadStart, CardWait, CardStart,
                CardReady, CardError, Cards_, Boot, NoCards, Booted, TryCards,
                Tried, Lists, Directory, ReadDatabase, Listed, Compare,
                AI_compare, CompareStart, CompareFlag, CompareLook,
                CompareAgain, CompareError, CompareDone, Compared
  <2> QED
    BY <1>0, <2>1, <2>2 DEF Worded
<1>5. CASE SelfChecked \/ ShowDiskError \/ Ready
  BY <1>0, <1>5 DEF SelfChecked, ShowDiskError, Ready, program, speech, Worded
<1>6. CASE NotNamed \/ NotDetected
  <2>1. status' # "OK"
    BY <1>6 DEF NotNamed, NotDetected, Analysed, Verdict
  <2> QED
    BY <2>1
<1>7. CASE Recorded \/ StartOver
  BY <1>7 DEF Recorded, StartOver
<1>8. CASE Processed
  BY <1>0, <1>8 DEF Processed, Worded
<1>9. CASE MicrophoneError
  BY <1>1, <1>9 DEF MicrophoneError, Panic, place, speech
<1> QED
  BY <1>2, <1>3, <1>4, <1>5, <1>6, <1>7, <1>8, <1>9, Cases DEF Judge, Loop

-----------------------------------------------------------------------------
(* The types *)
LEMMA HardwareTypeStep == Inv /\ [Next]_vars => HardwareType'
<1> SUFFICES ASSUME Inv, [Next]_vars PROVE HardwareType'
  OBVIOUS
<1> USE DiskConstantsOK DEF HardwareType
<1>0. /\ HardwareType /\ Requested /\ DiskAtWork
  BY DEF Inv, TypeOK
<1>h. HEADER \in Nat /\ HEADER \in 0 .. BANK - 1
  OBVIOUS
<1>w. /\ \A a \in 0 .. HEADER : a \in Words /\ a \in 0 .. BANK - 1
      /\ 0 \in Words /\ Nothing \in Nat \X Nat
  BY DEF Words, Nothing
<1>1. CASE CardHardware
  <2>1. CASE ReadWord
    <3>1. /\ reader.state = "read" /\ reader.count <= HEADER
          /\ reg.len = HEADER /\ reader.addr = reader.count
          /\ reader.count \in Nat /\ reader.sector \in Nat
      BY <1>0, <2>1 DEF ReadWord, Requested, DiskAtWork, Waiting, Header
    <3>2. table' \in [Words -> Nat \X Nat]
      BY <1>0, <2>1, <3>1 DEF ReadWord
    <3>3. reader' \in [state : {"idle", "read", "error", "done"},
                       addr : Words, sector : Nat, count : 0 .. BANK - 1]
      <4>1. CASE reader.count = HEADER
        BY <1>0, <2>1, <3>1, <4>1 DEF ReadWord
      <4>2. CASE reader.count # HEADER
        <5>1. reader' = [[reader EXCEPT !.addr = @ + 1] EXCEPT !.count = @ + 1]
          BY <1>0, <2>1, <3>1, <4>2 DEF ReadWord
        <5>2. /\ reader.addr + 1 \in Words
              /\ reader.count + 1 \in 0 .. BANK - 1
          <6>1. reader.count + 1 \in 0 .. HEADER
            BY <1>h, <3>1, <4>2
          <6> QED
            BY <1>w, <3>1, <6>1
        <5> QED
          BY <1>0, <5>1, <5>2
      <4> QED
        BY <4>1, <4>2
    <3> QED
      BY <1>0, <2>1, <3>2, <3>3 DEF ReadWord
  <2>2. CASE ReadFails \/ GiveUp \/ ReadEnds
    BY <1>0, <2>2 DEF ReadFails, GiveUp, ReadEnds
  <2>3. CASE Starter
    BY <1>0, <2>3 DEF Starter, StarterEnds
  <2> QED
    BY <1>1, <2>1, <2>2, <2>3 DEF CardHardware, Reader
<1>2. CASE ComparerHardware \/ UNCHANGED vars
  BY <1>0, <1>2 DEF ComparerHardware, vars, diskVars, hardware
<1>3. CASE Interrupts
  BY <1>0, <1>3 DEF Interrupts, spi_isr, diskVars, hardware
<1>4. CASE Disk_
  <2>1. CASE LoadStart
    <3>1. reg \in [addr : Words, sector : Nat, len : 0 .. BANK - 1]
      BY <1>0
    <3>2. 0 \in 0 .. BANK - 1
      OBVIOUS
    <3>3. reader' \in [state : {"idle", "read", "error", "done"},
                       addr : Words, sector : Nat, count : 0 .. BANK - 1]
      BY <1>0, <2>1, <3>1, <3>2 DEF LoadStart
    <3> QED
      BY <1>0, <2>1, <3>3 DEF LoadStart
  <2>2. CASE CardStart
    <3>1. starter' = [starter EXCEPT ![n] = [starter[n] EXCEPT !.state = "busy"]]
      BY <2>2, Zenon DEF CardStart
    <3>2. n \in 1 .. CARDS
      BY <1>0, <2>2 DEF CardStart, DiskAtWork, Starting
    <3>3. starter' \in [1 .. CARDS -> [state : {"idle", "busy"},
                                    result : {"none", "success", "error"}]]
      BY <1>0, <3>1, <3>2
    <3> QED
      BY <1>0, <2>2, <3>3 DEF CardStart
  <2>3. CASE LoadFlag \/ CardWait \/ CardReady \/ CardError
    BY <1>0, <2>3 DEF LoadFlag, CardWait, CardReady, CardError, hardware
  <2> QED
    BY <1>4, <2>1, <2>2, <2>3 DEF Disk_, DiskProgram
<1>5. CASE Cards_ \/ Lists
  <2>1. ASSUME NEW s \in Nat, NEW l, load_disk(s, HEADER, 0, l)
        PROVE  HardwareType'
    <3>1. reg' \in [addr : Words, sector : Nat, len : 0 .. BANK - 1]
      BY <1>h, <1>w, <2>1 DEF load_disk
    <3> QED
      BY <1>0, <2>1, <3>1 DEF load_disk
  <2>2. CASE Booted
    <3>1. 0 \in Nat
      OBVIOUS
    <3> QED
      BY <2>1, <2>2, <3>1 DEF Booted
  <2>3. CASE ReadDatabase
    <3>1. start * 16 \in Nat
      BY DEF Inv, TypeOK, RecognitionType
    <3> QED
      BY <2>1, <2>3, <3>1 DEF ReadDatabase
  <2>4. CASE \/ Boot \/ NoCards \/ TryCards \/ Tried \/ Directory \/ Listed
    BY <1>0, <2>4 DEF Boot, NoCards, TryCards, Tried, InitDisk, Directory,
                      Listed, Looked, hardware
  <2> QED
    BY <1>5, <2>2, <2>3, <2>4 DEF Cards_, Lists
<1>6. CASE Compare \/ Compared \/ Judge \/ Loop
  <2>1. table' \in [Words -> Nat \X Nat]
    <3>1. CASE Compare \/ Compared
      BY <1>0, <3>1 DEF Compare, Compared, hardware
    <3>2. CASE Judge
      BY <1>0, <1>w, <3>2 DEF Judge, SelfChecked, Named, NotNamed, NotDetected,
                              Analysed, ShowDiskError, hardware
    <3>3. CASE Loop
      BY <1>0, <1>w, <3>3 DEF Loop, Ready, Recorded, Processed,
                              MicrophoneError, StartOver, hardware
    <3> QED
      BY <1>6, <3>1, <3>2, <3>3
  <2> QED
    BY <1>0, <1>6, <2>1, HardwareKeeps
<1> QED
  BY <1>1, <1>2, <1>3, <1>4, <1>5, <1>6, Cases DEF Elsewhere

LEMMA DriverTypeStep == Inv /\ [Next]_vars => DriverType'
<1> SUFFICES ASSUME Inv, [Next]_vars PROVE DriverType'
  OBVIOUS
<1> USE DiskConstantsOK DEF DriverType
<1>0. DriverType /\ DiskAtWork
  BY DEF Inv, TypeOK
<1>1. CASE CardHardware
  <2>1. failed' \in BOOLEAN
    BY <1>0, <1>1 DEF CardHardware, Reader, ReadWord, ReadFails, GiveUp,
                      ReadEnds, Starter, StarterEnds
  <2> QED
    BY <1>0, <1>1, <2>1 DEF CardHardware, driver
<1>2. CASE ComparerHardware \/ Interrupts \/ UNCHANGED vars
  BY <1>0, <1>2 DEF ComparerHardware, Interrupts, spi_isr, vars, diskVars,
                    hardware, driver
<1>3. CASE Disk_
  <2>1. CASE LoadFlag \/ LoadStart \/ CardWait \/ CardStart
    BY <1>0, <2>1 DEF LoadFlag, LoadStart, CardWait, CardStart, hardware,
                      driver
  <2>3. CASE CardReady
    <3>1. n' \in Nat
      BY <1>0, <2>3 DEF CardReady
    <3> QED
      BY <1>0, <2>3, <3>1 DEF CardReady, hardware
  <2>2. CASE CardError
    <3>1. tries + 1 \in 0 .. TRIES /\ 1 \in Nat
      BY <1>0, <2>2 DEF CardError, DiskAtWork, Starting
    <3>2. /\ n' = 1 /\ tries' = tries + 1
          /\ disk_status' \in {disk_status, "ERROR"}
          /\ UNCHANGED <<disk_flag, answer, failed>>
      BY <2>2 DEF CardError, hardware
    <3> QED
      BY <1>0, <3>1, <3>2
  <2> QED
    BY <1>3, <2>1, <2>2, <2>3 DEF Disk_, DiskProgram
<1>4. CASE Cards_
  BY <1>0, <1>4 DEF Cards_, Boot, NoCards, Booted, TryCards, Tried, InitDisk,
                    load_disk, hardware, driver
<1>5. CASE Lists
  <2>1. CASE Directory \/ Listed
    <3>1. answer' \in {"OK", "FAIL"}
      BY <2>1 DEF Directory, Listed, Looked, check_disk
    <3> QED
      BY <1>0, <2>1, <3>1 DEF Directory, Listed, Looked, hardware
  <2>2. CASE ReadDatabase
    BY <1>0, <2>2 DEF ReadDatabase, load_disk
  <2> QED
    BY <1>5, <2>1, <2>2 DEF Lists
<1>6. CASE Compare \/ Compared
  BY <1>0, <1>6 DEF Compare, Compared, analyse_load_errors, hardware, driver
<1>7. CASE Judge
  BY <1>0, <1>7 DEF Judge, SelfChecked, Named, NotNamed, NotDetected,
                    Analysed, ShowDiskError, hardware, driver
<1>8. CASE Loop
  BY <1>0, <1>8 DEF Loop, Ready, Recorded, Processed, MicrophoneError,
                    StartOver, hardware, driver
<1> QED
  BY <1>1, <1>2, <1>3, <1>4, <1>5, <1>6, <1>7, <1>8, Cases DEF Elsewhere

LEMMA ComparerTypeStep == Inv /\ [Next]_vars => ComparerType'
<1> SUFFICES ASSUME Inv, [Next]_vars PROVE ComparerType'
  OBVIOUS
<1>0. ComparerType
  BY DEF Inv, TypeOK
<1>1. CoresType'
  BY CoresTypeStep DEF Inv
<1>n. NotCompared \in Result
  BY ComparerConstantsOK DEF NotCompared, Result
<1>2. compared' \in Result
  <2>0. compared \in Result
    BY <1>0 DEF ComparerType, Result
  <2>1. CASE Elsewhere
    BY <2>0, <2>1, ElsewhereKeeps
  <2>2. CASE Compare
    BY <2>2, ComparedResult
  <2>3. CASE Compared
    BY <1>n, <2>3 DEF Compared
  <2>4. CASE Disk_ \/ Cards_ \/ Lists \/ Judge \/ Loop
    BY <2>0, <2>4
    DEF Disk_, Cards_, Boot, NoCards, Booted, TryCards, Tried, Lists,
        Directory, ReadDatabase, Listed, Looked, Judge, SelfChecked, Named,
        NotNamed, NotDetected, Analysed, ShowDiskError, Loop, Ready, Recorded,
        Processed, MicrophoneError, StartOver, comparer
  <2> QED
    BY <2>1, <2>2, <2>3, <2>4, Cases
<1>3. errs' \subseteq {"crc", "tmr", "nde", "fifo"}
  <2>0. errs \subseteq {"crc", "tmr", "nde", "fifo"}
    BY <1>0 DEF ComparerType
  <2>1. CASE ComparerHardware
    BY <2>0, <2>1 DEF ComparerHardware, CoreEnds, CoreFails
  <2>2. CASE Compare
    BY <2>0, <2>2 DEF Compare, AI_compare, CompareStart, CompareFlag,
                      CompareLook, CompareAgain, CompareError, CompareDone,
                      comparer, chip
  <2>3. CASE CardHardware \/ Interrupts \/ UNCHANGED vars
    BY <2>0, <2>3 DEF CardHardware, Interrupts, ai_isr, vars, comparer, chip
  <2>4. CASE Disk_ \/ Cards_ \/ Lists \/ Compared \/ Judge \/ Loop
    BY <2>0, <2>4, ChipKeeps
  <2> QED
    BY <2>1, <2>2, <2>3, <2>4, Cases DEF Elsewhere
<1>4. overflowed' \in BOOLEAN
  <2>0. overflowed \in BOOLEAN
    BY <1>0 DEF ComparerType
  <2>1. CASE Elsewhere
    BY <2>0, <2>1, ElsewhereKeeps
  <2>2. CASE Compare
    BY <2>0, <2>2 DEF Compare, AI_compare, CompareStart, CompareFlag,
                      CompareLook, CompareAgain, CompareError, CompareDone,
                      comparer
  <2>3. CASE Disk_ \/ Cards_ \/ Lists \/ Compared \/ Judge \/ Loop
    BY <2>0, <2>3, ChipKeeps
  <2> QED
    BY <2>1, <2>2, <2>3, Cases
<1> QED
  BY <1>1, <1>2, <1>3, <1>4 DEF ComparerType, CoresType, Result

LEMMA RecognitionTypeStep == Inv /\ [Next]_vars => RecognitionType'
<1> SUFFICES ASSUME Inv, [Next]_vars PROVE RecognitionType'
  OBVIOUS
<1>0. /\ RecognitionType /\ card' = card /\ OfBases /\ Decided /\ ProfileKnown
      /\ Returns
  BY CardStays DEF Inv, IInv, TypeOK
<1>c. /\ card \in Cards /\ start \in Nat /\ base \in 1 .. BASES
      /\ BASES \in Nat \ {0} /\ card.addr \in Nat
  BY <1>0, CardsOK DEF RecognitionType
<1>b. Bases \in Nat
  BY <1>c, CardsHoldLists, LeadingIs DEF Bases, List
<1>1. card' \in Cards
  BY <1>0, <1>c
<1>2. UNCHANGED <<start, task, base, results, loud, fragment, word, status,
                  panic>>
      \/ Booted \/ NoCards \/ Tried \/ Lists \/ Compared \/ Judge \/ Loop
  <2>1. CASE Elsewhere \/ Disk_ \/ Boot \/ TryCards \/ Compare
    BY <2>1 DEF Elsewhere, CardHardware, ComparerHardware, Interrupts, Disk_,
                Boot, TryCards, Compare, program, place, speech, vars
  <2> QED
    BY <2>1, Cases DEF Cards_
<1>3. start' \in Nat
  <2>1. CASE Directory
    <3>1. card.addr \div 16 \in Nat
      BY <1>c
    <3> QED
      BY <1>c, <2>1, <3>1 DEF Directory
  <2>2. \/ UNCHANGED start \/ start' = 0 \/ Directory
    BY <1>2 DEF Booted, NoCards, Tried, Lists, ReadDatabase, Listed, Compared,
                Judge, SelfChecked, Named, NotNamed, NotDetected, Analysed,
                ShowDiskError, Loop, Ready, Recorded, Processed,
                MicrophoneError, StartOver, program, place
  <2> QED
    BY <1>c, <2>1, <2>2
<1>4. base' \in 1 .. BASES
  <2>1. CASE Compared
    <3>1. /\ pc = "compared"
          /\ base' = IF pc' = "compare" THEN base + 1 ELSE base
          /\ pc' = "compare" => base # Bases
      BY <2>1 DEF Compared, analyse_load_errors, NextBase
    <3>2. base <= Bases /\ Bases <= BASES
      BY <1>0, <3>1 DEF OfBases, Comparing
    <3> QED
      BY <1>b, <1>c, <3>1, <3>2
  <2>2. \/ UNCHANGED base \/ base' = 1 \/ Compared
    BY <1>2 DEF Booted, NoCards, Tried, Lists, Directory, ReadDatabase, Listed,
                Judge, SelfChecked, Named, NotNamed, NotDetected, Analysed,
                ShowDiskError, Loop, Ready, Recorded, Processed,
                MicrophoneError, StartOver, program, place
  <2> QED
    BY <1>c, <2>1, <2>2
<1>5. DOMAIN results' = 1 .. BASES
  <2>1. results' \in [1 .. BASES -> Result]
    BY DecidedStep DEF Decided
  <2> QED
    BY <2>1
<1>6. task' \in {"selfcheck", "analyse"}
  BY <1>0, <1>2 DEF RecognitionType, Booted, NoCards, Tried, Lists, Directory,
        ReadDatabase, Listed, Compared, Judge, SelfChecked, Named, NotNamed,
        NotDetected, Analysed, ShowDiskError, Loop, Ready, Recorded, Processed,
        MicrophoneError, StartOver, program, place
<1>7. /\ loud' \in Recordings \cup {{}}
      /\ fragment' \in [start : 0 .. RANGE - 1, stop : 0 .. RANGE - 1]
  <2>1. CASE Recorded
    <3>1. loud' \in Recordings /\ fragment' = selectLoud(loud')
      BY <2>1 DEF Recorded
    <3>2. loud' \in SUBSET (0 .. RANGE - 1)
      BY <3>1, CardsOK
    <3> QED
      BY <3>1, <3>2, FragmentType
  <2>2. CASE Processed
    BY <2>2, ProfileConstantsOK DEF Processed, NoFragment
  <2>3. UNCHANGED <<loud, fragment>> \/ Recorded \/ Processed
    BY <1>2 DEF Booted, NoCards, Tried, Lists, Directory, Looked, ReadDatabase,
                Listed, Compared, Judge, SelfChecked, Named, NotNamed,
                NotDetected, Analysed, ShowDiskError, Loop, Ready,
                MicrophoneError, StartOver, program, speech
  <2> QED
    BY <1>0, <2>1, <2>2, <2>3 DEF RecognitionType
<1>8. word' \in [base : Nat, decision : Nat]
  <2>1. CASE Named
    <3>1. /\ pc = "judge" /\ load_linker_list /\ Verdict = "OK"
          /\ word' = Linker.of
      BY <2>1 DEF Named, Analysed
    <3>2. \E b \in 1 .. Bases : Detected(b)
      BY <3>1 DEF Verdict
    <3>3. PICK b \in 1 .. Bases :
            Linker.of = [base |-> b, decision |-> results[b].decision]
      BY <1>0, <1>c, <3>1, <3>2, LinkerNames DEF Decided, OfBases
    <3>4. results[b].decision \in Nat
      <4>1. b \in 1 .. BASES
        BY <1>0, <1>b, <1>c, <3>1 DEF OfBases
      <4>2. results[b].decision \in 0 .. SPECTS - 1
        BY <1>0, <4>1 DEF Decided, Result
      <4> QED
        BY <4>2, ComparerConstantsOK
    <3> QED
      BY <1>b, <3>1, <3>3, <3>4
  <2>2. UNCHANGED word \/ word' = NoWord \/ Named
    BY <1>2 DEF Booted, NoCards, Tried, Lists, Directory, Looked, ReadDatabase,
                Listed, Compared, Judge, SelfChecked, NotNamed, NotDetected,
                Analysed, ShowDiskError, Loop, Ready, Recorded, Processed,
                MicrophoneError, StartOver, program, speech
  <2>3. NoWord \in [base : Nat, decision : Nat]
    BY DEF NoWord
  <2> QED
    BY <1>0, <2>1, <2>2, <2>3 DEF RecognitionType
<1>9. status' \in {"NONE", "OK", "NOISE", "CANT_DETECT", "BAD_CONFIG",
                   "FILE_ERROR"}
  BY <1>0, <1>2 DEF RecognitionType, Verdict, Booted, NoCards, Tried, Lists,
        Directory, Looked, ReadDatabase, Listed, Compared, Judge, SelfChecked,
        Named, NotNamed, NotDetected, Analysed, ShowDiskError, Loop, Ready,
        Recorded, Processed, MicrophoneError, StartOver, program, speech
<1>10. panic' \in {"none", "NO_DISK", "FILE_ERROR", "OTHER"}
  BY <1>0, <1>2 DEF RecognitionType, Booted, NoCards, Tried, Panic, Lists,
        Directory, ReadDatabase, Listed, Compared, Judge, SelfChecked,
        Named, NotNamed, NotDetected, Analysed, ShowDiskError, Loop, Ready,
        Recorded, Processed, MicrophoneError, StartOver, program
<1>11. fault' \in BOOLEAN
  <2>0. fault \in BOOLEAN
    BY <1>0 DEF RecognitionType
  <2>1. CASE Elsewhere
    BY <2>0, <2>1 DEF Elsewhere, CardHardware, ComparerHardware, Interrupts,
                      vars
  <2>2. CASE Disk_ \/ Cards_ \/ Lists \/ Compare \/ Compared \/ Judge \/ Loop
    BY <2>0, <2>2
    DEF Disk_, Cards_, Boot, NoCards, Booted, TryCards, Tried, Lists,
        Directory, ReadDatabase, Listed, Looked, Compare, Compared, Judge,
        SelfChecked, Named, NotNamed, NotDetected, Analysed, ShowDiskError,
        Loop, Ready, Recorded, Processed, MicrophoneError, StartOver
  <2> QED
    BY <2>1, <2>2, Cases
<1> QED
  BY <1>1, <1>3, <1>4, <1>5, <1>6, <1>7, <1>8, <1>9, <1>10, <1>11
  DEF RecognitionType

-----------------------------------------------------------------------------
LEMMA InitInv == Init => Inv
<1> SUFFICES ASSUME Init PROVE Inv
  OBVIOUS
<1> USE DiskConstantsOK, ComparerConstantsOK, ProfileConstantsOK, CardsOK
<1>0. IInv
  BY InitIInv
<1>1. /\ pc = "boot" /\ results = Unused /\ status = "NONE" /\ spi_irq = 0
      /\ reader = [state |-> "idle", addr |-> 0, sector |-> 0, count |-> 0]
      /\ starter = [c \in 1 .. CARDS |-> [state |-> "idle", result |-> "none"]]
      /\ disk_status = "NONE" /\ card \in Cards /\ base = 1
  BY DEF Init, DiskInit
<1>2. HardwareType
  <2>1. 0 \in Words /\ Nothing \in Nat \X Nat /\ 0 \in 0 .. BANK - 1
    BY DEF Words, Nothing
  <2>2. reg \in [addr : Words, sector : Nat, len : 0 .. BANK - 1]
    BY <2>1 DEF Init, DiskInit
  <2>3. table \in [Words -> Nat \X Nat] /\ spi_irq \in {0, 1}
    BY <2>1 DEF Init, DiskInit
  <2>4. reader \in [state : {"idle", "read", "error", "done"}, addr : Words,
                    sector : Nat, count : 0 .. BANK - 1]
    BY <1>1, <2>1
  <2>5. starter \in [1 .. CARDS -> [state : {"idle", "busy"},
                                    result : {"none", "success", "error"}]]
    BY <1>1
  <2> QED
    BY <2>2, <2>3, <2>4, <2>5 DEF HardwareType
<1>3. DriverType
  <2>1. n \in Nat /\ tries \in 0 .. TRIES
    BY DEF Init, DiskInit
  <2>2. /\ disk_flag \in {"UP", "DOWN"} /\ failed \in BOOLEAN
        /\ disk_status \in {"NONE", "READY", "ERROR"}
        /\ answer \in {"NONE", "OK", "FAIL"}
    BY DEF Init, DiskInit
  <2> QED
    BY <2>1, <2>2 DEF DriverType
<1>4. ComparerType
  <2>1. compared = [state |-> "none", decision |-> 0, score |-> 0]
    BY DEF Init, ComparerInit, NotCompared
  <2>2. overflowed \in BOOLEAN /\ errs = {}
    BY DEF Init, ComparerInit
  <2>3. CoresType
    BY <1>0 DEF IInv
  <2> QED
    BY <2>1, <2>2, <2>3 DEF ComparerType, CoresType
<1>5. RecognitionType
  <2>1. /\ 1 \in 1 .. BASES /\ 0 \in Nat /\ 0 \in 0 .. RANGE - 1
    OBVIOUS
  <2>2. DOMAIN results = 1 .. BASES
    BY <1>1 DEF Unused
  <2>3. /\ fragment \in [start : 0 .. RANGE - 1, stop : 0 .. RANGE - 1]
        /\ word \in [base : Nat, decision : Nat]
    BY <2>1 DEF Init, NoFragment, NoWord
  <2>4. /\ start \in Nat /\ base \in 1 .. BASES
    BY <2>1 DEF Init
  <2>5. /\ task \in {"selfcheck", "analyse"} /\ loud \in Recordings \cup {{}}
        /\ status = "NONE" /\ panic = "none" /\ fault \in BOOLEAN
    BY DEF Init, Quietness
  <2> QED
    BY <1>1, <2>2, <2>3, <2>4, <2>5 DEF RecognitionType
<1>6. DiskAtWork /\ Requested /\ Brought
  BY <1>1 DEF DiskAtWork, Requested, Brought, Waiting, Loading, Starting
<1>7. Located /\ OfBases
  BY <1>1 DEF Located, OfBases, InUse, Loading, Comparing
<1>8. Decided
  BY <1>1 DEF Decided, Detected, Unused, NotCompared, Result
<1>9. Blameless
  BY <1>1 DEF Blameless, Comparing, Starting
<1>10. ProfileKnown /\ Worded
  BY <1>1 DEF ProfileKnown, Worded
<1> QED
  BY <1>0, <1>2, <1>3, <1>4, <1>5, <1>6, <1>7, <1>8, <1>9, <1>10
  DEF Inv, TypeOK

LEMMA InvStep == Inv /\ [Next]_vars => Inv'
<1> SUFFICES ASSUME Inv, [Next]_vars PROVE Inv'
  OBVIOUS
<1>1. IInv'
  BY ReturnsStep, CardsKnownStep, BasesKnownStep, CoresTypeStep,
     CoresKnownStep DEF IInv, Inv
<1>2. TypeOK'
  BY HardwareTypeStep, DriverTypeStep, ComparerTypeStep, RecognitionTypeStep
  DEF TypeOK
<1>3. DiskAtWork' /\ Requested' /\ Brought' /\ Located'
  BY DiskAtWorkStep, RequestedStep, BroughtStep, LocatedStep
<1>4. OfBases' /\ Decided' /\ Blameless'
  BY OfBasesStep, DecidedStep, BlamelessStep
<1>5. ProfileKnown' /\ Worded'
  BY ProfileKnownStep, WordedStep
<1> QED
  BY <1>1, <1>2, <1>3, <1>4, <1>5 DEF Inv

(* All of the invariant: where the machines of the cards and the cores may *)
(* be at work, what they have brought, and what the numbers of the bases   *)
(* and of their categories are.                                            *)
THEOREM WholeInvariance == Spec => []Inv
BY InitInv, InvStep, PTL DEF Spec

(* Types, for any cards that can be read: the number of the base stays in  *)
(* the arrays of ai_group_analyse, a decision in the categories, a load in *)
(* the sample table, and tries below their limit.                          *)
THEOREM Typed == Spec => []TypeOK
<1>1. Inv => TypeOK
  BY DEF Inv
<1> QED
  BY WholeInvariance, <1>1, PTL

(* The word is the name of the category that the first of the nearest      *)
(* bases decided for, for any number of bases, of categories and of        *)
(* names: its place in the list is found although other bases detected     *)
(* nothing or overflowed.                                                  *)
THEOREM NamesTheWord == Spec => []WordNamed
<1>1. Inv => WordNamed
  BY DEF Inv, Worded, WordNamed
<1> QED
  BY WholeInvariance, <1>1, PTL

(* No panic of the cards is shown with a sound card, as long as no card    *)
(* and no core has failed: from the power-up on, no flag of an earlier     *)
(* operation is taken for the end of this one, the directory and the list  *)
(* are whole, and every word that is found has its name.                   *)
THEOREM PanicsWithReason == Spec => []NoFalsePanic
<1>1. Inv => NoFalsePanic
  BY DEF Inv, Blameless, NoFalsePanic
<1> QED
  BY WholeInvariance, <1>1, PTL

(* What is processed is one whole utterance of the recording. *)
THEOREM ProcessesUtterance == Spec => []FragmentWhole
<1>1. Inv => FragmentWhole
  <2> SUFFICES ASSUME Inv, pc = "profile", fragment # NoFragment
               PROVE  Utterance(fragment, loud)
    BY DEF FragmentWhole
  <2>1. loud \in Recordings /\ fragment = selectLoud(loud)
    BY DEF Inv, ProfileKnown
  <2>2. loud \in SUBSET (0 .. RANGE - 1)
    BY <2>1, CardsOK
  <2> QED
    BY <2>1, <2>2, SelectsUtterance
<1> QED
  BY WholeInvariance, <1>1, PTL

(* Its frames fill the profile: every line but the last shows exactly one  *)
(* of them, and each of them is shown.                                     *)
THEOREM FillsTheProfile == Spec => []ProfileFilled
<1>1. Inv => ProfileFilled
  <2> SUFFICES ASSUME Inv, pc = "profile", fragment # NoFragment
               PROVE  Filled(Frames(Length(fragment)))
    BY DEF ProfileFilled
  <2>1. loud \in Recordings /\ fragment = selectLoud(loud)
    BY DEF Inv, ProfileKnown
  <2>2. loud \in SUBSET (0 .. RANGE - 1)
    BY <2>1, CardsOK
  <2>3. fragment.stop - fragment.start \in MIN .. MAX
    BY <2>1, <2>2, SelectsUtterance DEF Utterance
  <2> QED
    BY <2>3, FramesBound, FillsEveryLine DEF Length
<1> QED
  BY WholeInvariance, <1>1, PTL

-----------------------------------------------------------------------------
(* What AnalysisEnds rests on: nobody waits for an interrupt that has come *)
(* already or never comes.  Whatever the program waits for is at work, or  *)
(* its interrupt is on the way; for the cores this holds after an overflow *)
(* that was ignored as well, when ends of an earlier comparison are        *)
(* counted for this one.                                                   *)
CardsAnswer ==
  /\ Waiting /\ disk_flag = "DOWN" => reader.state # "idle" \/ spi_irq = 1
  /\ pc = "card_result" /\ disk_flag = "DOWN" =>
       starter[n].state = "busy" \/ spi_irq = 1

AnswerComes ==
  /\ CardsAnswer
  /\ pc = "compare_wait" /\ ai_flag = "DOWN" => Reading # {} \/ ai_irq = 1

(* For the cores: each that has ended is counted, until all are. *)
EndsCollected ==
  /\ bits # Cores
  /\ pc = "compare_flag" => Reading = Cores
  /\ pc \in {"compare_wait", "compare_errors"} =>
       (ai_flag = "DOWN" /\ ai_irq = 0 => Cores \ Reading \subseteq bits)

LEMMA CardsAnswerStep == Inv /\ CardsAnswer /\ [Next]_vars => CardsAnswer'
<1> SUFFICES ASSUME Inv, CardsAnswer, [Next]_vars PROVE CardsAnswer'
  OBVIOUS
<1> USE DiskConstantsOK
<1>0. DiskAtWork /\ Returns /\ CardsAnswer
  BY DEF Inv, IInv
<1>t. /\ starter \in [1 .. CARDS -> [state : {"idle", "busy"},
                                     result : {"none", "success", "error"}]]
      /\ reader \in [state : {"idle", "read", "error", "done"}, addr : Words,
                     sector : Nat, count : 0 .. BANK - 1]
      /\ disk_flag \in {"UP", "DOWN"}
  BY DEF Inv, TypeOK, HardwareType, DriverType
<1> USE DEF CardsAnswer, Waiting
<1>1. CASE CardHardware
  <2>1. UNCHANGED <<disk_flag, pc, n>>
    BY <1>1 DEF CardHardware, driver
  <2>2. CASE Reader
    BY <1>0, <1>t, <2>1, <2>2 DEF Reader, ReadWord, ReadFails, GiveUp, ReadEnds
  <2>3. CASE Starter
    BY <2>1, <2>3 DEF Starter, StarterEnds
  <2> QED
    BY <1>1, <2>2, <2>3 DEF CardHardware
<1>2. CASE ComparerHardware \/ UNCHANGED vars
  BY <1>0, <1>2 DEF ComparerHardware, vars, diskVars, hardware, driver
<1>3. CASE Interrupts
  BY <1>0, <1>3 DEF Interrupts, spi_isr, diskVars, hardware, driver
<1>4. CASE Disk_
  <2>1. CASE LoadStart
    <3>1. reader.state = "idle" /\ pc' \in {"directory", "list"}
      BY <1>0, <2>1 DEF LoadStart, DiskAtWork, Returns, Loading
    <3> QED
      BY <2>1, <3>1 DEF LoadStart
  <2>2. CASE CardStart
    <3>1. n \in 1 .. CARDS /\ n' = n /\ pc' = "card_result"
      BY <1>0, <2>2 DEF CardStart, DiskAtWork, Starting
    <3>2. starter'[n].state = "busy"
      BY <1>t, <2>2, <3>1 DEF CardStart
    <3> QED
      BY <3>1, <3>2
  <2>3. CASE LoadFlag \/ CardWait \/ CardReady \/ CardError
    BY <1>0, <2>3 DEF LoadFlag, CardWait, CardReady, CardError, Returns,
                      Starting
  <2> QED
    BY <1>4, <2>1, <2>2, <2>3 DEF Disk_, DiskProgram
<1>5. CASE Cards_ \/ Lists
  BY <1>5 DEF Cards_, Boot, NoCards, Booted, TryCards, Tried, InitDisk, Lists,
              Directory, ReadDatabase, Listed, load_disk, Panic
<1>6. CASE Compare \/ Compared \/ Judge \/ Loop
  BY <1>6, Positions DEF Comparing
<1> QED
  BY <1>1, <1>2, <1>3, <1>4, <1>5, <1>6, Cases DEF Elsewhere

LEMMA EndsCollectedStep ==
  Inv /\ EndsCollected /\ [Next]_vars => EndsCollected'
<1> SUFFICES ASSUME Inv, EndsCollected, [Next]_vars PROVE EndsCollected'
  OBVIOUS
<1>0. EndsCollected /\ Returns /\ CoresType
  BY DEF Inv, IInv
<1>c. 1 \in Cores
  BY DiskConstantsOK DEF Cores
<1> USE DEF EndsCollected
<1>1. CASE CardHardware \/ UNCHANGED vars
  BY <1>0, <1>1 DEF CardHardware, vars, diskVars, comparer, chip, Reading
<1>2. CASE ComparerHardware
  <2>1. UNCHANGED <<pc, ai_flag>>
    BY <1>2 DEF ComparerHardware, diskVars
  <2>2. PICK c \in Cores : \/ \E whole \in BOOLEAN : CoreEnds(c, whole)
                           \/ \E e \in {"crc", "tmr", "fifo"} : CoreFails(c, e)
    BY <1>2 DEF ComparerHardware
  <2>3. ASSUME NEW whole \in BOOLEAN, CoreEnds(c, whole)
        PROVE  EndsCollected'
    <3>1. pc # "compare_flag" /\ Reading' = Reading \ {c}
      BY <1>0, <2>3 DEF CoreEnds, FlagIsLowered, Reading, CoresType
    <3>2. CASE bits \cup {c} = Cores
      BY <1>c, <2>1, <2>3, <3>1, <3>2 DEF CoreEnds
    <3>3. CASE bits \cup {c} # Cores
      <4>1. bits' = bits \cup {c} /\ ai_irq' = ai_irq
        BY <2>3, <3>3 DEF CoreEnds
      <4> QED
        BY <1>0, <2>1, <3>1, <3>3, <4>1
    <3> QED
      BY <3>2, <3>3
  <2>4. ASSUME NEW e \in {"crc", "tmr", "fifo"}, CoreFails(c, e)
        PROVE  EndsCollected'
    BY <1>0, <2>1, <2>4 DEF CoreFails, Reading
  <2> QED
    BY <2>2, <2>3, <2>4
<1>3. CASE Interrupts
  <2>1. UNCHANGED <<core, bits, pc>>
    BY <1>3 DEF Interrupts, spi_isr, ai_isr, comparer, chip, diskVars
  <2>2. UNCHANGED <<ai_irq, ai_flag>> \/ ai_flag' = "UP"
    BY <1>3 DEF Interrupts, ai_isr, comparer, chip
  <2> QED
    BY <1>0, <2>1, <2>2 DEF Reading
<1>4. CASE Compare
  <2>1. CASE CompareStart
    BY <1>0, <2>1 DEF CompareStart, Reading
  <2>2. CASE CompareFlag
    <3>1. Reading' = Cores
      BY <1>0, <2>2 DEF CompareFlag, chip, Reading
    <3> QED
      BY <1>0, <2>2, <3>1 DEF CompareFlag, chip
  <2>3. CASE CompareLook \/ CompareAgain
    BY <1>0, <2>3 DEF CompareLook, CompareAgain, comparer, chip, Reading
  <2>4. CASE CompareError
    BY <1>0, <2>4 DEF CompareError, chip
  <2>5. CASE CompareDone(card.items[base].spects)
    BY <1>0, <2>5 DEF CompareDone, chip
  <2> QED
    BY <1>4, <2>1, <2>2, <2>3, <2>4, <2>5 DEF Compare, AI_compare
<1>5. CASE Disk_ \/ Cards_ \/ Lists
  <2>1. bits' = bits
    BY <1>5, ChipKeeps
  <2>2. pc' \notin {"compare_flag", "compare_wait", "compare_errors"}
    BY <1>0, <1>5
    DEF Returns, Starting, Loading, Disk_, DiskProgram, LoadFlag, LoadStart,
        CardWait, CardStart, CardReady, CardError, Cards_, Boot, NoCards,
        Booted, TryCards, Tried, InitDisk, load_disk, Lists, Directory,
        ReadDatabase, Listed, Panic
  <2> QED
    BY <1>0, <2>1, <2>2
<1>6. CASE Compared \/ Judge \/ Loop
  <2>1. bits' = bits
    BY <1>6, ChipKeeps
  <2>2. pc' \notin {"compare_flag", "compare_wait", "compare_errors"}
    BY <1>6 DEF Compared, analyse_load_errors, NextBase, Judge, SelfChecked,
        Named, NotNamed, NotDetected, Analysed, ShowDiskError, Loop, Ready,
        Recorded, Processed, MicrophoneError, StartOver, Panic
  <2> QED
    BY <1>0, <2>1, <2>2
<1> QED
  BY <1>1, <1>2, <1>3, <1>4, <1>5, <1>6, Cases DEF Elsewhere

(* Every wait of the program for the cards or the cores has an end on the  *)
(* way: with any errors, after any starting over, and after an overflow.   *)
THEOREM AnswersAreComing == Spec => []AnswerComes
<1>1. Init => CardsAnswer /\ EndsCollected
  <2>1. 1 \in Cores
    BY DiskConstantsOK DEF Cores
  <2> QED
    BY <2>1 DEF Init, ComparerInit, CardsAnswer, EndsCollected, Waiting
<1>2. Inv /\ CardsAnswer /\ EndsCollected => AnswerComes
  <2> SUFFICES ASSUME Inv, CardsAnswer, EndsCollected PROVE AnswerComes
    OBVIOUS
  <2>1. ai_irq \in {0, 1} /\ bits \subseteq Cores
    BY DEF Inv, IInv, CoresType
  <2>2. Reading # {} \/ Cores \ Reading = Cores
    OBVIOUS
  <2> QED
    BY <2>1, <2>2 DEF CardsAnswer, EndsCollected, AnswerComes
<1> QED
  BY WholeInvariance, CardsAnswerStep, EndsCollectedStep, <1>1, <1>2, PTL
  DEF Spec
=============================================================================
