------------------------------- MODULE Button -------------------------------
(***************************************************************************)
(* The two buttons: do_button and do_vbutton run in the timer interrupt    *)
(* and share the field gpio->button, in which the main program finds the   *)
(* last event.                                                             *)
(*                                                                         *)
(* One action is one run of the timer handler (every tenth of them samples *)
(* the volume button, the next one the listen button), or what the main    *)
(* program does with the timer masked.                                     *)
(***************************************************************************)
EXTENDS Naturals

CONSTANTS
  CHECK,    \* WAIT_FOR_BUTTON_CHECK = 50
  LONG,     \* WAIT_FOR_BUTTON_CHECK_VOLUMER = 500
  FOREVER   \* bound of press_time, a uint32_t that nothing stops

ASSUME ButtonConstantsOK ==
  /\ CHECK \in Nat /\ LONG \in Nat /\ FOREVER \in Nat
  /\ 3 <= CHECK /\ CHECK < LONG /\ LONG < FOREVER

VARIABLES
  press_time, last_button,     \* the listen button
  press_time_v, last_vbutton,  \* the volume button
  button,                      \* the event for the main program
  phase,                       \* which of the two is sampled next
  pc,                          \* gpio_init step by step, then "run"
  \* history
  run, run_v,                  \* consecutive samples that were pressed
  event,                       \* the event of the last sample
  disturbed                    \* a volume event since the press began

listen == <<press_time, last_button, run>>
volume == <<press_time_v, last_vbutton, run_v>>
vars == <<listen, volume, button, phase, pc, event, disturbed>>

Init ==
  /\ press_time = 0 /\ last_button = FALSE
  /\ press_time_v = 0 /\ last_vbutton = FALSE
  /\ button = "NOT_PRESSED" /\ phase = "volume" /\ pc = "run"
  /\ run = 0 /\ run_v = 0 /\ event = "NONE" /\ disturbed = FALSE

AtMost(x, max) == IF x < max THEN x ELSE max

(* Consecutive pressed samples, as far as they matter. *)
Longer(r, pressed) == IF pressed THEN AtMost(r + 1, LONG) ELSE 0

-----------------------------------------------------------------------------
(* press_time after its first statements: a rising edge starts it again,   *)
(* and it counts while it is not 0.                                        *)
Edge(pressed, last) == pressed /\ ~last

(* Mutant: an edge does not start the count again while it runs. *)
M_Counted(time, pressed, last) ==
  LET t == IF Edge(pressed, last) /\ time = 0 THEN 1 ELSE time
  IN  IF t > 0 THEN AtMost(t + 1, FOREVER) ELSE 0

Counted(time, pressed, last) ==
  LET t == IF Edge(pressed, last) THEN 1 ELSE time
  IN  IF t > 0 THEN AtMost(t + 1, FOREVER) ELSE 0

(* Mutant: the limit is passed, not reached. *)
M_do_button(pressed) ==
  LET t    == Counted(press_time, pressed, last_button)
      held == pressed /\ last_button
      b    == IF t = CHECK /\ held THEN "PRESSED" ELSE button
      end  == t > LONG /\ b = "PRESSED"
  IN  /\ button' = IF ~end THEN b ELSE IF held THEN "RESET" ELSE "LISTEN"
      /\ press_time' = IF (t = CHECK /\ ~held) \/ end THEN 0 ELSE t
      /\ last_button' = pressed
      /\ event' = IF button' # button THEN button' ELSE "NONE"

do_button(pressed) ==
  LET t    == Counted(press_time, pressed, last_button)
      held == pressed /\ last_button
      b    == IF t = CHECK /\ held THEN "PRESSED" ELSE button
      end  == t = LONG /\ b = "PRESSED"
  IN  /\ button' = IF ~end THEN b ELSE IF held THEN "RESET" ELSE "LISTEN"
      /\ press_time' = IF (t = CHECK /\ ~held) \/ end THEN 0 ELSE t
      /\ last_button' = pressed
      /\ event' = IF button' # button THEN button' ELSE "NONE"

SampleListen(pressed) ==
  /\ phase = "listen" /\ phase' = "volume"
  /\ do_button(pressed)
  /\ run' = Longer(run, pressed)
  /\ disturbed' = (disturbed /\ ~Edge(pressed, last_button))
  /\ UNCHANGED <<volume, pc>>

(* Mutant: the count starts again only for a volume change. *)
M_do_vbutton(pressed) ==
  LET t == Counted(press_time_v, pressed, last_vbutton)
      recognised == t = CHECK /\ pressed /\ last_vbutton
  IN  /\ button' = IF recognised THEN "VOLUME" ELSE button
      /\ press_time_v' = IF recognised THEN 0 ELSE t
      /\ last_vbutton' = pressed

do_vbutton(pressed) ==
  LET t == Counted(press_time_v, pressed, last_vbutton)
  IN  /\ button' = IF t = CHECK /\ pressed /\ last_vbutton THEN "VOLUME"
                   ELSE button
      /\ press_time_v' = IF t = CHECK THEN 0 ELSE t
      /\ last_vbutton' = pressed

SampleVolume(pressed) ==
  /\ phase = "volume" /\ phase' = "listen"
  /\ do_vbutton(pressed)
  /\ run_v' = Longer(run_v, pressed)
  /\ disturbed' = (disturbed \/ button' # button)
  /\ event' = IF button' # button THEN button' ELSE "NONE"
  /\ UNCHANGED <<listen, pc>>

timer_isr == \E pressed \in BOOLEAN :
               SampleListen(pressed) \/ SampleVolume(pressed)

(* gpio_button_buffered_status: a press under way is left alone. *)
Consume ==
  /\ pc = "run"
  /\ button' = IF button = "PRESSED" THEN button ELSE "NOT_PRESSED"
  /\ event' = "NONE"
  /\ UNCHANGED <<listen, volume, phase, pc, disturbed>>

-----------------------------------------------------------------------------
(* gpio_init, when main() starts over: field after field, with the timer   *)
(* running.                                                                *)
InitPressTime ==
  /\ pc = "run" /\ pc' = "button"
  /\ press_time' = 0 /\ event' = "NONE"
  /\ UNCHANGED <<last_button, run, volume, button, phase, disturbed>>

InitButton ==
  /\ pc = "button" /\ pc' = "last_button"
  /\ button' = "NOT_PRESSED" /\ event' = "NONE"
  /\ UNCHANGED <<listen, volume, phase, disturbed>>

InitLastButton ==
  /\ pc = "last_button" /\ pc' = "press_time_v"
  /\ last_button' = FALSE /\ run' = 0 /\ event' = "NONE"
  /\ UNCHANGED <<press_time, volume, button, phase, disturbed>>

InitPressTimeV ==
  /\ pc = "press_time_v" /\ pc' = "last_vbutton"
  /\ press_time_v' = 0 /\ event' = "NONE"
  /\ UNCHANGED <<listen, last_vbutton, run_v, button, phase, disturbed>>

InitLastVButton ==
  /\ pc = "last_vbutton" /\ pc' = "run"
  /\ last_vbutton' = FALSE /\ run_v' = 0 /\ event' = "NONE"
  /\ UNCHANGED <<listen, press_time_v, button, phase, disturbed>>

InitRest == InitButton \/ InitLastButton \/ InitPressTimeV \/ InitLastVButton

gpio_init == InitPressTime \/ InitRest

Next == timer_isr \/ Consume \/ gpio_init

Spec == Init /\ [][Next]_vars

(* The timer keeps running, and gpio_init, once begun, ends: it waits for  *)
(* nothing.                                                                *)
FairSpec == Spec /\ WF_vars(timer_isr) /\ WF_vars(InitRest)

-----------------------------------------------------------------------------
(* Properties *)

(* Types, and what the volume count never passes: its limit is tested at   *)
(* every count, so it cannot run away as the other may.                    *)
TypeOK ==
  /\ press_time \in 0 .. FOREVER /\ press_time_v \in 0 .. CHECK - 1
  /\ run \in 0 .. LONG /\ run_v \in 0 .. LONG
  /\ last_button \in BOOLEAN /\ last_vbutton \in BOOLEAN
  /\ disturbed \in BOOLEAN
  /\ button \in {"NOT_PRESSED", "PRESSED", "LISTEN", "RESET", "VOLUME"}
  /\ event \in {"NONE", "PRESSED", "LISTEN", "RESET", "VOLUME"}
  /\ phase \in {"listen", "volume"}
  /\ pc \in {"run", "button", "last_button", "press_time_v", "last_vbutton"}

(* The node restarts only after a press without interruption as long as    *)
(* the limit: only two samples are compared with it, but any release in    *)
(* between makes an edge that starts the count again.                      *)
ResetMeansLongPress == event = "RESET" => run >= LONG - 1

(* A press and a volume change are recognised only after as many pressed   *)
(* samples in a row: a spike does nothing.                                 *)
NoSpikes == /\ event = "PRESSED" => run >= CHECK - 1
            /\ event = "VOLUME"  => run_v >= CHECK - 1

(* A press held without interruption resets the node on time, unless the   *)
(* volume button or a restart comes into it.                               *)
LongPressResets ==
  [][run < run' /\ run' = LONG - 1 /\ pc = "run" /\ ~disturbed
       => event' = "RESET"]_vars

(* What makes them inductive.  As long as a button is held, its count has  *)
(* not passed the samples it was held for, ...                             *)
NotPassed(time, last, r) == last => time <= r + 1 \/ r = LONG

(* ... and an undisturbed press is exactly on time: counted from its edge, *)
(* recognised at CHECK.  gpio_init may have cleared press_time only.       *)
OnTime ==
  /\ ~last_button => run = 0
  /\ last_button /\ ~disturbed /\ run < LONG - 1
       /\ pc \notin {"button", "last_button"}
     => /\ press_time = run + 1
        /\ run >= CHECK - 1 => button = "PRESSED"

IInv == /\ TypeOK /\ ResetMeansLongPress /\ NoSpikes
        /\ NotPassed(press_time, last_button, run)
        /\ NotPassed(press_time_v, last_vbutton, run_v)
        /\ OnTime

(* thesis/tex/1-wstep.tex:1191: depending on how long it is held, the      *)
(* button resets the node or makes it listen.                              *)
PressHasEffect == button = "PRESSED" ~> button # "PRESSED"
=============================================================================
