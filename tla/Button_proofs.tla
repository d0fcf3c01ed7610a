---------------------------- MODULE Button_proofs ----------------------------
(***************************************************************************)
(* Theorems about Button, for every pair of limits.                        *)
(***************************************************************************)
EXTENDS Button, TLAPS

LEMMA InitIInv == Init => IInv
<1> SUFFICES ASSUME Init PROVE IInv
  OBVIOUS
<1> USE ButtonConstantsOK
<1>1. /\ last_button \in BOOLEAN /\ last_vbutton \in BOOLEAN
      /\ disturbed \in BOOLEAN /\ ~last_button /\ ~last_vbutton
  BY Zenon DEF Init
<1>2. /\ press_time = 0 /\ press_time_v = 0 /\ run = 0 /\ run_v = 0
      /\ button = "NOT_PRESSED" /\ phase = "volume" /\ pc = "run"
      /\ event = "NONE"
  BY DEF Init
<1> QED
  BY <1>1, <1>2
  DEF IInv, TypeOK, ResetMeansLongPress, NoSpikes, NotPassed, OnTime

(* The count of a button that is held now and was held at the last sample  *)
(* advances by one; after an edge it is two.                               *)
LEMMA CountedIs ==
  ASSUME NEW time \in 0 .. FOREVER, NEW pressed \in BOOLEAN, NEW last \in BOOLEAN
  PROVE  /\ Counted(time, pressed, last) \in 0 .. FOREVER
         /\ Counted(time, pressed, last) <= time + 1 \/ (pressed /\ ~last)
         /\ pressed /\ ~last => Counted(time, pressed, last) = 2
         /\ last /\ time > 0 /\ time < FOREVER
              => Counted(time, pressed, last) = time + 1
BY ButtonConstantsOK DEF Counted, Edge, AtMost

(* A count and the samples a button was held for keep step. *)
LEMMA KeepStep ==
  ASSUME NEW time \in 0 .. FOREVER, NEW pressed \in BOOLEAN, NEW last \in BOOLEAN,
         NEW r \in 0 .. LONG, NotPassed(time, last, r)
  PROVE  /\ Longer(r, pressed) \in 0 .. LONG
         /\ pressed => \/ Counted(time, pressed, last) <= Longer(r, pressed) + 1
                       \/ Longer(r, pressed) = LONG
BY CountedIs, ButtonConstantsOK DEF NotPassed, Longer, AtMost

-----------------------------------------------------------------------------
LEMMA TypeStep == IInv /\ [Next]_vars => TypeOK'
<1> SUFFICES ASSUME IInv, [Next]_vars PROVE TypeOK'
  OBVIOUS
<1> USE ButtonConstantsOK
<1>0. TypeOK /\ NotPassed(press_time, last_button, run)
      /\ NotPassed(press_time_v, last_vbutton, run_v)
  BY DEF IInv
<1>1. ASSUME NEW pressed \in BOOLEAN, SampleListen(pressed) PROVE TypeOK'
  <2>1. /\ last_button' \in BOOLEAN /\ disturbed' \in BOOLEAN
        /\ last_vbutton' \in BOOLEAN
    BY <1>0, <1>1, Zenon DEF TypeOK, SampleListen, do_button, volume
  <2>2. /\ button' \in {"NOT_PRESSED", "PRESSED", "LISTEN", "RESET", "VOLUME"}
        /\ event' \in {"NONE", "PRESSED", "LISTEN", "RESET", "VOLUME"}
        /\ press_time' \in 0 .. FOREVER
    <3>1. Counted(press_time, pressed, last_button) \in 0 .. FOREVER
      BY <1>0, CountedIs DEF TypeOK
    <3>2. event' = IF button' # button THEN button' ELSE "NONE"
      BY <1>1 DEF SampleListen, do_button
    <3>3. \/ button' = button
          \/ button' \in {"PRESSED", "RESET", "LISTEN"}
      BY <1>1 DEF SampleListen, do_button
    <3>4. press_time' \in {0, Counted(press_time, pressed, last_button)}
      BY <1>1 DEF SampleListen, do_button
    <3> QED
      BY <1>0, <3>1, <3>2, <3>3, <3>4 DEF TypeOK
  <2>3. run' \in 0 .. LONG
    BY <1>0, <1>1 DEF TypeOK, SampleListen, Longer, AtMost
  <2>4. UNCHANGED <<press_time_v, run_v, pc>> /\ phase' = "volume"
    BY <1>1 DEF SampleListen, volume
  <2> QED
    BY <1>0, <2>1, <2>2, <2>3, <2>4 DEF TypeOK
<1>2. ASSUME NEW pressed \in BOOLEAN, SampleVolume(pressed) PROVE TypeOK'
  <2>1. /\ last_button' \in BOOLEAN /\ disturbed' \in BOOLEAN
        /\ last_vbutton' \in BOOLEAN
    BY <1>0, <1>2, Zenon DEF TypeOK, SampleVolume, do_vbutton, listen
  <2>2. press_time_v' \in 0 .. CHECK - 1
    BY <1>0, <1>2
    DEF TypeOK, SampleVolume, do_vbutton, Counted, AtMost, Edge
  <2>3. /\ button' \in {button, "VOLUME"}
        /\ event' = IF button' # button THEN button' ELSE "NONE"
    BY <1>2 DEF SampleVolume, do_vbutton
  <2>4. run_v' \in 0 .. LONG
    BY <1>0, <1>2 DEF TypeOK, SampleVolume, Longer, AtMost
  <2>5. UNCHANGED <<press_time, run, pc>> /\ phase' = "listen"
    BY <1>2 DEF SampleVolume, listen
  <2> QED
    BY <1>0, <2>1, <2>2, <2>3, <2>4, <2>5 DEF TypeOK
<1>3. CASE Consume \/ gpio_init \/ UNCHANGED vars
  <2>1. /\ last_button' \in BOOLEAN /\ disturbed' \in BOOLEAN
        /\ last_vbutton' \in BOOLEAN
    BY <1>0, <1>3, Zenon
    DEF TypeOK, Consume, gpio_init, InitRest, InitPressTime, InitButton,
        InitLastButton, InitPressTimeV, InitLastVButton, vars, listen, volume
  <2>2. /\ press_time' \in {0, press_time} /\ press_time_v' \in {0, press_time_v}
        /\ run' \in {0, run} /\ run_v' \in {0, run_v} /\ phase' = phase
        /\ button' \in {"NOT_PRESSED", button} /\ event' \in {"NONE", event}
        /\ pc' \in {pc, "run", "button", "last_button", "press_time_v",
                   "last_vbutton"}
    BY <1>0, <1>3
    DEF Consume, gpio_init, InitRest, InitPressTime, InitButton, InitLastButton,
        InitPressTimeV, InitLastVButton, vars, listen, volume
  <2> QED
    BY <1>0, <2>1, <2>2 DEF TypeOK
<1> QED
  BY <1>1, <1>2, <1>3 DEF Next, timer_isr

(* One sample of the listen button: the count is that of the press, the    *)
(* events come when it is due.                                             *)
LEMMA ListenStep ==
  ASSUME IInv, NEW pressed \in BOOLEAN, SampleListen(pressed)
  PROVE  /\ ResetMeansLongPress' /\ NoSpikes'
         /\ NotPassed(press_time, last_button, run)'
         /\ NotPassed(press_time_v, last_vbutton, run_v)'
<1> USE ButtonConstantsOK
<1> DEFINE t == Counted(press_time, pressed, last_button)
<1>1. /\ press_time \in 0 .. FOREVER /\ last_button \in BOOLEAN
      /\ run \in 0 .. LONG /\ NotPassed(press_time, last_button, run)
      /\ NotPassed(press_time_v, last_vbutton, run_v)
  BY DEF IInv, TypeOK
<1>2. /\ t \in 0 .. FOREVER
      /\ run' = Longer(run, pressed) /\ run' \in 0 .. LONG
      /\ pressed => t <= run' + 1 \/ run' = LONG
  BY <1>1, CountedIs, KeepStep DEF SampleListen
<1>3. /\ press_time' \in {0, t}
      /\ event' \in {"NONE", "PRESSED", "RESET", "LISTEN"}
      /\ event' = "PRESSED" => t = CHECK /\ pressed
      /\ event' = "RESET" => t = LONG /\ pressed
  <2>1. /\ event' = IF button' # button THEN button' ELSE "NONE"
        /\ press_time' \in {0, t}
    BY DEF SampleListen, do_button
  <2>2. \/ button' = button
        \/ button' = "PRESSED" /\ t = CHECK /\ pressed
        \/ button' = "RESET" /\ t = LONG /\ pressed
        \/ button' = "LISTEN"
    BY DEF SampleListen, do_button
  <2> HIDE DEF t
  <2> QED
    BY <2>1, <2>2
<1>4. last_button' => pressed
  BY Zenon DEF SampleListen, do_button
<1>5. UNCHANGED <<press_time_v, last_vbutton, run_v>>
  BY DEF SampleListen, volume
<1> HIDE DEF t
<1>6. ResetMeansLongPress' /\ NoSpikes'
  BY <1>2, <1>3 DEF ResetMeansLongPress, NoSpikes
<1>7. NotPassed(press_time, last_button, run)'
  <2> SUFFICES ASSUME last_button' PROVE press_time' <= run' + 1 \/ run' = LONG
    BY DEF NotPassed
  <2>1. pressed
    BY <1>4
  <2>2. t <= run' + 1 \/ run' = LONG
    BY <1>2, <2>1
  <2>3. press_time' = 0 \/ press_time' = t
    BY <1>3
  <2>4. run' \in 0 .. LONG
    BY <1>2
  <2> QED
    BY <2>2, <2>3, <2>4
<1>8. NotPassed(press_time_v, last_vbutton, run_v)'
  BY <1>1, <1>5 DEF NotPassed
<1> QED
  BY <1>6, <1>7, <1>8

LEMMA VolumeStep ==
  ASSUME IInv, NEW pressed \in BOOLEAN, SampleVolume(pressed)
  PROVE  /\ ResetMeansLongPress' /\ NoSpikes'
         /\ NotPassed(press_time, last_button, run)'
         /\ NotPassed(press_time_v, last_vbutton, run_v)'
<1> USE ButtonConstantsOK
<1> DEFINE t == Counted(press_time_v, pressed, last_vbutton)
<1>1. /\ press_time_v \in 0 .. FOREVER /\ last_vbutton \in BOOLEAN
      /\ run_v \in 0 .. LONG /\ NotPassed(press_time, last_button, run)
      /\ NotPassed(press_time_v, last_vbutton, run_v)
  BY DEF IInv, TypeOK
<1>2. /\ t \in 0 .. FOREVER
      /\ run_v' = Longer(run_v, pressed) /\ run_v' \in 0 .. LONG
      /\ pressed => t <= run_v' + 1 \/ run_v' = LONG
  BY <1>1, CountedIs, KeepStep DEF SampleVolume
<1>3. /\ press_time_v' \in {0, t}
      /\ event' \in {"NONE", "VOLUME"}
      /\ event' = "VOLUME" => t = CHECK /\ pressed
  <2>1. /\ event' = IF button' # button THEN button' ELSE "NONE"
        /\ press_time_v' \in {0, t}
    BY DEF SampleVolume, do_vbutton
  <2>2. \/ button' = button
        \/ button' = "VOLUME" /\ t = CHECK /\ pressed
    BY DEF SampleVolume, do_vbutton
  <2> HIDE DEF t
  <2> QED
    BY <2>1, <2>2
<1>4. last_vbutton' => pressed
  BY Zenon DEF SampleVolume, do_vbutton
<1>5. UNCHANGED <<press_time, last_button, run>>
  BY DEF SampleVolume, listen
<1> HIDE DEF t
<1>6. ResetMeansLongPress' /\ NoSpikes'
  BY <1>2, <1>3 DEF ResetMeansLongPress, NoSpikes
<1>7. NotPassed(press_time_v, last_vbutton, run_v)'
  <2> SUFFICES ASSUME last_vbutton' PROVE press_time_v' <= run_v' + 1 \/ run_v' = LONG
    BY DEF NotPassed
  <2>1. pressed
    BY <1>4
  <2>2. t <= run_v' + 1 \/ run_v' = LONG
    BY <1>2, <2>1
  <2>3. press_time_v' = 0 \/ press_time_v' = t
    BY <1>3
  <2>4. run_v' \in 0 .. LONG
    BY <1>2
  <2> QED
    BY <2>2, <2>3, <2>4
<1>8. NotPassed(press_time, last_button, run)'
  BY <1>1, <1>5 DEF NotPassed
<1> QED
  BY <1>6, <1>7, <1>8

(* The main program's actions only ever end presses. *)
LEMMA MainStep ==
  ASSUME IInv, Consume \/ gpio_init \/ UNCHANGED vars
  PROVE  /\ ResetMeansLongPress' /\ NoSpikes'
         /\ NotPassed(press_time, last_button, run)'
         /\ NotPassed(press_time_v, last_vbutton, run_v)'
<1> USE ButtonConstantsOK
<1>1. TypeOK /\ ResetMeansLongPress /\ NoSpikes
      /\ NotPassed(press_time, last_button, run)
      /\ NotPassed(press_time_v, last_vbutton, run_v)
  BY DEF IInv
<1>2. event' = "NONE" \/ UNCHANGED <<event, run, run_v>>
  BY DEF Consume, gpio_init, InitRest, InitPressTime, InitButton,
         InitLastButton, InitPressTimeV, InitLastVButton, vars, listen, volume
<1>3. /\ press_time' = press_time \/ press_time' = 0
      /\ ~last_button' \/ UNCHANGED <<last_button, run>>
      /\ press_time_v' = press_time_v \/ press_time_v' = 0
      /\ ~last_vbutton' \/ UNCHANGED <<last_vbutton, run_v>>
  BY Zenon
  DEF Consume, gpio_init, InitRest, InitPressTime, InitButton, InitLastButton,
      InitPressTimeV, InitLastVButton, vars, listen, volume
<1>4. ResetMeansLongPress' /\ NoSpikes'
  BY <1>1, <1>2 DEF ResetMeansLongPress, NoSpikes
<1>5. /\ NotPassed(press_time, last_button, run)'
      /\ NotPassed(press_time_v, last_vbutton, run_v)'
  BY <1>1, <1>3 DEF NotPassed, TypeOK
<1> QED
  BY <1>4, <1>5

-----------------------------------------------------------------------------
(* A press on time stays on time, and resets the node at LONG.             *)
LEMMA OnTimeStep ==
  ASSUME IInv, NEW pressed \in BOOLEAN, SampleListen(pressed)
  PROVE  /\ OnTime'
         /\ run < run' /\ run' = LONG - 1 /\ pc = "run" /\ ~disturbed
              => event' = "RESET"
<1> USE ButtonConstantsOK
<1> DEFINE t == Counted(press_time, pressed, last_button)
<1>1. /\ press_time \in 0 .. FOREVER /\ last_button \in BOOLEAN
      /\ run \in 0 .. LONG /\ OnTime /\ disturbed \in BOOLEAN
  BY DEF IInv, TypeOK
<1>2. /\ t \in 0 .. FOREVER
      /\ pressed /\ ~last_button => t = 2
      /\ last_button /\ press_time > 0 /\ press_time < FOREVER => t = press_time + 1
  BY <1>1, CountedIs
<1>3. /\ run' = Longer(run, pressed) /\ pc' = pc
      /\ (last_button' <=> pressed)
      /\ (~disturbed' <=> ~disturbed \/ (pressed /\ ~last_button))
  BY <1>1, Zenon DEF SampleListen, do_button, Edge
<1>4. /\ run' = IF pressed THEN IF run < LONG THEN run + 1 ELSE LONG ELSE 0
  BY <1>1, <1>3 DEF Longer, AtMost
<1> HIDE DEF t
<1>5. CASE ~pressed
  BY <1>1, <1>3, <1>4, <1>5 DEF OnTime
<1>6. CASE pressed /\ ~last_button
  <2>1. t = 2 /\ run = 0 /\ run' = 1
    BY <1>1, <1>2, <1>4, <1>6 DEF OnTime
  <2>2. press_time' = t
    <3>1. t # CHECK /\ t # LONG
      BY <2>1
    <3> QED
      BY <3>1 DEF SampleListen, do_button, t
  <2> QED
    BY <2>1, <2>2, <1>3, <1>6 DEF OnTime
<1>7. CASE pressed /\ last_button
  <2>1. CASE run < LONG - 1 /\ ~disturbed /\ pc \notin {"button", "last_button"}
    <3>1. press_time = run + 1 /\ (run >= CHECK - 1 => button = "PRESSED")
          /\ t = run + 2 /\ run' = run + 1
      BY <1>1, <1>2, <1>4, <1>7, <2>1 DEF OnTime
    <3>2. CASE run < LONG - 2
      <4>1. t # LONG
        BY <3>1, <3>2, <1>1
      <4>2. press_time' = t /\ button' = IF t = CHECK THEN "PRESSED" ELSE button
        BY <4>1, <1>7 DEF SampleListen, do_button, t
      <4> QED
        BY <3>1, <3>2, <4>2, <1>1, <1>3, <1>7 DEF OnTime
    <3>3. CASE run = LONG - 2
      <4>1. t = LONG /\ t # CHECK /\ button = "PRESSED"
        BY <3>1, <3>3
      <4>2. event' = "RESET"
        BY <4>1, <1>7 DEF SampleListen, do_button, t
      <4> QED
        BY <3>1, <3>3, <4>2, <1>3, <1>7 DEF OnTime
    <3> QED
      BY <2>1, <3>2, <3>3, <1>1
  <2>2. CASE ~(run < LONG - 1 /\ ~disturbed /\ pc \notin {"button", "last_button"})
    BY <1>1, <1>3, <1>4, <1>7, <2>2 DEF OnTime
  <2> QED
    BY <2>1, <2>2
<1> QED
  BY <1>5, <1>6, <1>7, <1>1

(* Between the samples, only what marks the press as disturbed or ends it  *)
(* touches it.                                                             *)
LEMMA OnTimeKept ==
  ASSUME IInv, [Next]_vars, ~ \E pressed \in BOOLEAN : SampleListen(pressed)
  PROVE  OnTime' /\ ~(run < run')
<1> USE ButtonConstantsOK
<1>1. /\ OnTime /\ last_button \in BOOLEAN /\ disturbed \in BOOLEAN
      /\ run \in 0 .. LONG
  BY DEF IInv, TypeOK
<1>2. CASE \E pressed \in BOOLEAN : SampleVolume(pressed)
  <2>1. PICK pressed \in BOOLEAN : SampleVolume(pressed)
    BY <1>2
  <2>2. UNCHANGED <<press_time, last_button, run, pc>>
    BY <2>1 DEF SampleVolume, listen
  <2>3. ~disturbed' => ~disturbed /\ button' = button
    BY <2>1, Zenon DEF SampleVolume
  <2> QED
    BY <1>1, <2>2, <2>3 DEF OnTime
<1>3. CASE Consume
  <2>1. /\ UNCHANGED <<press_time, last_button, run, pc, disturbed>>
        /\ button = "PRESSED" => button' = "PRESSED"
    BY <1>3 DEF Consume, listen
  <2> QED
    BY <1>1, <2>1 DEF OnTime
<1>4. CASE InitPressTime \/ InitButton
  <2>1. /\ UNCHANGED <<last_button, run>> /\ pc' \in {"button", "last_button"}
    BY <1>4 DEF InitPressTime, InitButton, listen
  <2> QED
    BY <1>1, <2>1 DEF OnTime
<1>5. CASE InitLastButton
  <2>1. ~last_button' /\ run' = 0
    BY <1>5, Zenon DEF InitLastButton
  <2> QED
    BY <1>1, <2>1 DEF OnTime
<1>6. CASE InitPressTimeV \/ InitLastVButton
  <2>1. /\ UNCHANGED <<press_time, last_button, run, button, disturbed>>
        /\ pc \notin {"button", "last_button"}
    BY <1>6 DEF InitPressTimeV, InitLastVButton, listen
  <2> QED
    BY <1>1, <2>1 DEF OnTime
<1>7. CASE UNCHANGED vars
  <2>1. UNCHANGED <<press_time, last_button, run, button, disturbed, pc>>
    BY <1>7 DEF vars, listen
  <2> QED
    BY <1>1, <2>1 DEF OnTime
<1> QED
  BY <1>2, <1>3, <1>4, <1>5, <1>6, <1>7 DEF Next, timer_isr, gpio_init, InitRest

-----------------------------------------------------------------------------
LEMMA StepIInv == IInv /\ [Next]_vars => IInv'
<1> SUFFICES ASSUME IInv, [Next]_vars PROVE IInv'
  OBVIOUS
<1>1. CASE \E pressed \in BOOLEAN : SampleListen(pressed)
  BY <1>1, TypeStep, ListenStep, OnTimeStep DEF IInv
<1>2. CASE \E pressed \in BOOLEAN : SampleVolume(pressed)
  <2>1. ~ \E pressed \in BOOLEAN : SampleListen(pressed)
    BY <1>2 DEF SampleVolume, SampleListen
  <2> QED
    BY <1>2, <2>1, TypeStep, VolumeStep, OnTimeKept DEF IInv
<1>3. CASE Consume \/ gpio_init \/ UNCHANGED vars
  <2>1. CASE \E pressed \in BOOLEAN : SampleListen(pressed)
    BY <1>1, <2>1
  <2>2. CASE ~ \E pressed \in BOOLEAN : SampleListen(pressed)
    BY <1>3, <2>2, TypeStep, MainStep, OnTimeKept DEF IInv
  <2> QED
    BY <2>1, <2>2
<1> QED
  BY <1>1, <1>2, <1>3 DEF Next, timer_isr

(* In every reachable state of Button the inductive invariant holds. *)
THEOREM Invariance == Spec => []IInv
BY InitIInv, StepIInv, PTL DEF Spec

(* The volume count never passes its limit and no history runs away.       *)
THEOREM TypeCorrect == Spec => []TypeOK
<1>1. IInv => TypeOK
  BY DEF IInv
<1> QED
  BY <1>1, Invariance, PTL

(* For every pair of limits, the button resets the node only after it was  *)
(* pressed at LONG - 1 samples in a row.                                   *)
THEOREM OnlyLongPressResets == Spec => []ResetMeansLongPress
<1>1. IInv => ResetMeansLongPress
  BY DEF IInv
<1> QED
  BY <1>1, Invariance, PTL

(* For every pair of limits, neither button does anything before it was    *)
(* pressed at CHECK - 1 samples in a row.                                  *)
THEOREM SpikesDoNothing == Spec => []NoSpikes
<1>1. IInv => NoSpikes
  BY DEF IInv
<1> QED
  BY <1>1, Invariance, PTL

(* For every pair of limits, an undisturbed press resets the node at the   *)
(* sample where it becomes long.                                           *)
THEOREM EveryLongPressResets == Spec => LongPressResets
<1>1. IInv /\ [Next]_vars
      => [run < run' /\ run' = LONG - 1 /\ pc = "run" /\ ~disturbed
            => event' = "RESET"]_vars
  BY OnTimeStep, OnTimeKept
<1> QED
  BY <1>1, Invariance, PTL DEF Spec, LongPressResets
=============================================================================
