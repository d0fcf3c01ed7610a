------------------------------ MODULE Recorder ------------------------------
(***************************************************************************)
(* Recorder_record (recorder.c): it takes samples from the microphone into *)
(* a ring of RING samples until MARGIN of them came after the first loud   *)
(* one, and meanwhile looks after the BLE connection, the console, the     *)
(* buttons and the distance sensor in turns.                               *)
(*                                                                         *)
(* The samples come through the channel that MicChannel specifies and      *)
(* MicQueue implements.  A sample is abstracted to whether it is loud and  *)
(* where it is from: before this recording, now, or now with samples lost  *)
(* immediately before it.                                                  *)
(***************************************************************************)
EXTENDS Naturals, Sequences

CONSTANTS
  RING,      \* MAX_SIZE_WITH_SPACE = 23900
  MARGIN,    \* MAX_MARGIN_SIZE = 11950
  INITIAL,   \* INITIAL_SAMPLES = 2048
  CAPACITY,  \* samples under way: STANDARD_QUEUE_SIZE and the hardware FIFO
  TURNS      \* 10

ASSUME RecorderConstantsOK ==
  /\ RING \in Nat /\ RING % 2 = 0 /\ MARGIN \in 4 .. RING
  /\ CAPACITY \in Nat \ {0} /\ INITIAL \in Nat /\ INITIAL >= CAPACITY
  /\ TURNS \in Nat /\ TURNS >= 4

VARIABLES
  queue,      \* samples under way, oldest first
  enabled,    \* MIC_start .. MIC_stop
  table,      \* recorder->memories->table
  n, mmargin, initial,
  rstatus, in_range,
  schedulder, \* [sic]
  flag,       \* WAIT_FOR_NAME comes without a timeout, WAIT_FOR_COMMAND with
  late,       \* Timer_get_time() > timeout
  button,     \* gpio->button, PRESSED counted as none
  connected,
  pc, result,
  \* history
  lost,       \* a sample was refused since the last one that entered queue
  gap,        \* samples before and after a loss were stored
  stale,      \* a sample of an earlier recording was stored
  wiped       \* the table was cleared in the middle of the recording

env   == <<button, connected>>
mic   == <<queue, enabled, lost>>
rec   == <<n, mmargin, initial>>
store == <<table, rec, gap, stale, wiped>>
dist  == <<rstatus, in_range>>
ctl   == <<schedulder, flag, late, pc, result>>
vars  == <<mic, store, dist, ctl, env>>

Sample == [loud : BOOLEAN, from : {"now", "gap", "before"}]
Empty == [i \in 0 .. RING - 1 |-> "zero"]

Init ==
  /\ queue = << >> /\ enabled = FALSE /\ lost = FALSE
  /\ table = Empty /\ n = 0 /\ mmargin = 0 /\ initial = 0
  /\ gap = FALSE /\ stale = FALSE /\ wiped = FALSE
  /\ rstatus = "IN_RANGE"
  /\ in_range \in BOOLEAN              \* app() leaves it uninitialised
  /\ schedulder = 0 /\ flag = "NAME" /\ late = FALSE
  /\ pc = "idle" /\ result = "NONE"
  /\ button = "NONE" /\ connected = TRUE

-----------------------------------------------------------------------------
(* Environment *)

(* The microphone delivers; what the channel cannot take is lost. *)
Arrive(loud) ==
  /\ enabled
  /\ IF Len(queue) < CAPACITY
     THEN /\ queue' = Append(queue, [loud |-> loud,
                               from |-> IF lost THEN "gap" ELSE "now"])
          /\ lost' = FALSE
     ELSE /\ lost' = TRUE /\ UNCHANGED queue
  /\ UNCHANGED <<enabled, store, dist, ctl, env>>

TimePasses ==
  /\ pc \in {"loop", "turn", "connect", "connected"} /\ flag = "COMMAND"
  /\ late' = TRUE
  /\ UNCHANGED <<mic, store, dist, schedulder, flag, pc, result, env>>

Press(b) ==            \* an event of do_button or do_vbutton
  /\ button' = b
  /\ UNCHANGED <<mic, store, dist, ctl, connected>>

Link ==                \* a BLE central connects or leaves
  /\ connected' = ~connected
  /\ UNCHANGED <<mic, store, dist, ctl, button>>

-----------------------------------------------------------------------------
(* get_word calls Recorder_record: the table is cleared, MIC_start. *)
Start ==
  /\ pc = "idle"
  /\ flag' \in {"NAME", "COMMAND"}
  /\ n' = 0 /\ mmargin' = 0 /\ initial' = 0 /\ late' = FALSE
  /\ rstatus' = "IN_RANGE" /\ schedulder' = 0
  /\ table' = Empty /\ gap' = FALSE /\ stale' = FALSE /\ wiped' = FALSE
  /\ queue' = [i \in DOMAIN queue |-> [queue[i] EXCEPT !.from = "before"]]
  /\ lost' = FALSE /\ enabled' = TRUE
  /\ pc' = "loop" /\ result' = "NONE"
  /\ UNCHANGED <<in_range, env>>

Return(r) == /\ pc' = IF r \in {"RESET", "ERROR"} THEN "left" ELSE "idle"
             /\ result' = r

(* The oldest sample; an empty channel lets the loop spin (continue). *)
Get == /\ pc = "loop" /\ queue # << >>
       /\ queue' = Tail(queue)
Got == Head(queue)

MicError ==            \* MICROPHONE_STATUS_ERROR, mic left running
  /\ Get /\ Return("ERROR")
  /\ UNCHANGED <<enabled, lost, store, dist, schedulder, flag, late, env>>

Skip ==                \* initial ++
  /\ Get /\ rstatus = "IN_RANGE" /\ initial < INITIAL
  /\ initial' = initial + 1 /\ in_range' = TRUE /\ pc' = "turn"
  /\ UNCHANGED <<enabled, lost, table, n, mmargin, gap, stale, wiped, rstatus,
                 schedulder, flag, late, result, env>>

(* mmargin = 1 at the first loud sample, then one more for each *)
Counted == IF mmargin > 0 THEN mmargin + 1
           ELSE IF Got.loud THEN 1 ELSE 0

(* Mutant: the first samples of a recording are not skipped. *)
M_Keep ==
  /\ Get /\ rstatus = "IN_RANGE"
  /\ table' = [table EXCEPT ![n] = IF mmargin = 0 /\ Got.loud
                                   THEN "trigger" ELSE "sound"]
  /\ mmargin' = Counted /\ in_range' = TRUE
  /\ stale' = (stale \/ Got.from = "before")
  /\ gap' = (gap \/ (Got.from = "gap" /\ table # Empty))
  /\ UNCHANGED <<lost, initial, wiped, rstatus, flag, env>>

Keep ==                \* table[n] = sound
  /\ Get /\ rstatus = "IN_RANGE" /\ initial >= INITIAL
  /\ table' = [table EXCEPT ![n] = IF mmargin = 0 /\ Got.loud
                                   THEN "trigger" ELSE "sound"]
  /\ mmargin' = Counted /\ in_range' = TRUE
  /\ stale' = (stale \/ Got.from = "before")
  /\ gap' = (gap \/ (Got.from = "gap" /\ table # Empty))
  /\ UNCHANGED <<lost, initial, wiped, rstatus, flag, env>>

(* Mutant: the limit is tested before the increment. *)
M_After(i) == IF i = RING THEN 0 ELSE i + 1

After(i) == IF i + 1 = RING THEN 0 ELSE i + 1

KeepOn ==              \* n ++
  /\ Keep
  /\ Counted < MARGIN /\ ~late
  /\ n' = After(n) /\ pc' = "turn"
  /\ UNCHANGED <<enabled, schedulder, late, result>>

TimeoutInRange ==      \* RECORDER_TIMEOUT; MIC_stop
  /\ Keep
  /\ Counted < MARGIN /\ late
  /\ enabled' = FALSE /\ Return("TIMEOUT")
  /\ UNCHANGED <<n, schedulder, late>>

(* MIC_stop, normalisation, and the two copies that put the ring in order. *)
Finish ==
  /\ Keep /\ Counted >= MARGIN
  /\ pc' = "recorded" /\ enabled' = FALSE
  /\ UNCHANGED <<n, schedulder, late, result>>

(* Mutant: the loud sample seen before survives. *)
M_Forget ==
  /\ table' = IF in_range THEN Empty ELSE table
  /\ n' = 0 /\ initial' = 0 /\ UNCHANGED mmargin
  /\ in_range' = FALSE /\ gap' = FALSE /\ wiped' = FALSE /\ UNCHANGED stale

Forget ==              \* nobody in range: everything recorded is dropped
  /\ table' = IF in_range THEN Empty ELSE table
  /\ n' = 0 /\ initial' = 0 /\ mmargin' = 0
  /\ in_range' = FALSE /\ gap' = FALSE /\ wiped' = FALSE /\ UNCHANGED stale

(* Mutant: out of range, the time is not looked at. *)
M_OutOfRange ==
  /\ Get /\ rstatus = "NOT_IN_RANGE"
  /\ Forget /\ pc' = "turn"
  /\ UNCHANGED <<enabled, lost, rstatus, schedulder, flag, late, result, env>>

OutOfRange ==
  /\ Get /\ rstatus = "NOT_IN_RANGE" /\ ~late
  /\ Forget /\ pc' = "turn"
  /\ UNCHANGED <<enabled, lost, rstatus, schedulder, flag, late, result, env>>

TimeoutOutOfRange ==   \* RECORDER_TIMEOUT; MIC_stop
  /\ Get /\ rstatus = "NOT_IN_RANGE" /\ late
  /\ Forget /\ enabled' = FALSE /\ Return("TIMEOUT")
  /\ UNCHANGED <<lost, rstatus, schedulder, flag, late, env>>

DistanceError ==       \* RECORDER_ERROR, mic left running
  /\ Get /\ rstatus = "ERROR"
  /\ Forget /\ Return("ERROR")
  /\ UNCHANGED <<enabled, lost, rstatus, schedulder, flag, late, env>>

-----------------------------------------------------------------------------
(* switch(schedulder): one of ten turns after each sample *)

NextTurn == /\ schedulder' = IF schedulder + 1 = TURNS THEN 0
                              ELSE schedulder + 1
            /\ pc' = "loop"

ConnectionTurn ==      \* wait_for_connection_recorder
  /\ pc = "turn" /\ schedulder = 0
  /\ IF connected THEN NextTurn ELSE pc' = "connect" /\ UNCHANGED schedulder
  /\ UNCHANGED <<mic, store, dist, flag, late, result, env>>

(* Mutant: the wait does not look at the buttons. *)
M_AwaitConnection ==
  /\ pc = "connect" /\ ~connected
  /\ UNCHANGED vars

AwaitConnection ==     \* its loop: only the reset button is heard
  /\ pc = "connect" /\ ~connected
  /\ button' = "NONE"
  /\ IF button = "RESET" THEN Return("RESET") ELSE UNCHANGED <<pc, result>>
  /\ UNCHANGED <<mic, store, dist, schedulder, flag, late, connected>>

Reconnected ==         \* the table is cleared, not n, mmargin and initial
  /\ pc = "connect" /\ connected
  /\ table' = Empty /\ wiped' = TRUE /\ late' = FALSE /\ pc' = "connected"
  /\ UNCHANGED <<mic, rec, gap, stale, dist, schedulder, flag, result, env>>

Settled ==             \* 900 ms later
  /\ pc = "connected" /\ NextTurn
  /\ UNCHANGED <<mic, store, dist, flag, late, result, env>>

ButtonTurn ==          \* gpio_button_buffered_status; MIC_stop
  /\ pc = "turn" /\ schedulder = 2
  /\ button' = "NONE"
  /\ \/ /\ button = "NONE" /\ NextTurn /\ UNCHANGED <<enabled, result>>
     \/ /\ button # "NONE" /\ enabled' = FALSE /\ UNCHANGED schedulder
        /\ Return(CASE button = "LISTEN" /\ flag = "NAME" -> "START"
                    [] button = "LISTEN" /\ flag # "NAME" -> "CANCEL"
                    [] OTHER -> button)
  /\ UNCHANGED <<queue, lost, store, dist, flag, late, connected>>

DistanceTurn ==        \* in_proper_distance
  /\ pc = "turn" /\ schedulder = 3
  /\ rstatus' \in {"IN_RANGE", "NOT_IN_RANGE", "ERROR"}
  /\ NextTurn
  /\ UNCHANGED <<mic, store, in_range, flag, late, result, env>>

OtherTurn ==           \* the console, and turns without a task
  /\ pc = "turn" /\ schedulder \notin {0, 2, 3}
  /\ NextTurn
  /\ UNCHANGED <<mic, store, dist, flag, late, result, env>>

Analysed ==            \* the fragment was used; app() records again
  /\ pc = "recorded"
  /\ table' = Empty /\ n' = 0 /\ mmargin' = 0
  /\ initial' = 0 /\ gap' = FALSE /\ wiped' = FALSE
  /\ pc' = "idle" /\ result' = "RECORDED_FRAGMENT"
  /\ UNCHANGED <<mic, stale, dist, schedulder, flag, late, env>>

Reinit ==              \* after RESET and ERROR main() calls MIC_init
  /\ pc = "left"
  /\ queue' = << >> /\ lost' = FALSE
  /\ table' = Empty /\ n' = 0 /\ mmargin' = 0 /\ initial' = 0
  /\ pc' = "idle"
  /\ UNCHANGED <<enabled, gap, stale, wiped, dist, schedulder, flag, late,
                 result, env>>

Loop == \/ MicError \/ Skip \/ KeepOn \/ TimeoutInRange \/ Finish
        \/ OutOfRange \/ TimeoutOutOfRange \/ DistanceError

Turn == \/ ConnectionTurn \/ AwaitConnection \/ Reconnected \/ Settled
        \/ ButtonTurn \/ DistanceTurn \/ OtherTurn

Next == \/ \E loud \in BOOLEAN : Arrive(loud)
        \/ TimePasses
        \/ \E b \in {"LISTEN", "RESET", "VOLUME"} : Press(b)
        \/ Link
        \/ Start \/ Loop \/ Turn \/ Analysed \/ Reinit

Spec == Init /\ [][Next]_vars

(* DMA_copy_to_swap(memories, n + 1, ...): it starts at the even place     *)
(* before index and wraps after reading the two places behind the ring     *)
(* (the address of its stop block), which hold nothing.                    *)
CopyToSwap ==
  LET first == ((n + 1) \div 2) * 2
      source(a) == IF a < RING THEN table[a]
                   ELSE IF a < RING + 2 THEN "zero" ELSE table[a - (RING + 2)]
  IN  [i \in 0 .. RING - 1 |-> source(first + i)]

-----------------------------------------------------------------------------
(* Properties *)

Recording == pc \in {"loop", "turn", "connect", "connected"}

(* Types; the index stays inside the table and the counters below their    *)
(* limits.                                                                 *)
MicType     == /\ queue \in Seq(Sample) /\ Len(queue) <= CAPACITY
               /\ enabled \in BOOLEAN /\ lost \in BOOLEAN
StoreType   == /\ table \in [0 .. RING - 1 -> {"zero", "sound", "trigger"}]
               /\ n \in 0 .. RING - 1 /\ mmargin \in 0 .. MARGIN
               /\ initial \in 0 .. INITIAL
HistoryType == gap \in BOOLEAN /\ stale \in BOOLEAN /\ wiped \in BOOLEAN
OutsideType == /\ in_range \in BOOLEAN /\ late \in BOOLEAN
               /\ connected \in BOOLEAN
               /\ rstatus \in {"IN_RANGE", "NOT_IN_RANGE", "ERROR"}
               /\ button \in {"NONE", "LISTEN", "RESET", "VOLUME"}
ControlType == /\ schedulder \in 0 .. TURNS - 1 /\ flag \in {"NAME", "COMMAND"}
               /\ pc \in {"idle", "loop", "turn", "connect", "connected",
                          "recorded", "left"}
               /\ result \in {"NONE", "ERROR", "RESET", "TIMEOUT", "START",
                              "CANCEL", "VOLUME", "RECORDED_FRAGMENT"}

TypeOK == MicType /\ StoreType /\ HistoryType /\ OutsideType /\ ControlType

(* Nothing that was waiting in the queues when the recording began gets    *)
(* into it, although they are not emptied: the skipped samples outnumber   *)
(* them.                                                                   *)
FreshOnly == Recording \/ pc = "recorded" => ~stale

(* What makes them inductive: the samples of an earlier recording are      *)
(* among those still to be skipped, and the recording ends as soon as      *)
(* mmargin reaches its limit.                                              *)
StaleAhead == Recording => \A i \in 1 .. Len(queue) :
                             queue[i].from = "before" => initial + i <= INITIAL
MarginOpen == Recording => mmargin < MARGIN

(* The fragment that is analysed holds the loud sample that triggered it,  *)
(* at most three places behind the middle, whatever the ring had wrapped   *)
(* and the distance had interrupted before.                                *)
TriggerKept ==
  pc = "recorded" /\ ~wiped =>
    \E i \in RING - MARGIN .. RING - MARGIN + 3 :
      i < RING /\ CopyToSwap[i] = "trigger"

(* What makes it inductive: as long as the table was not cleared under it, *)
(* the trigger is mmargin places behind the next one to be written.        *)
TriggerBehind(t, next, back) ==
  t[IF back <= next THEN next - back ELSE next + RING - back] = "trigger"
TriggerPlaced ==
  ~wiped => /\ Recording /\ mmargin > 0 => TriggerBehind(table, n, mmargin)
            /\ pc = "recorded" => TriggerBehind(table, n, MARGIN - 1)

IInv == TypeOK /\ FreshOnly /\ StaleAhead /\ MarginOpen /\ TriggerPlaced

(* thesis/tex/1-wstep.tex:1583: when the queue overflows the program       *)
(* drains it and resets the ring buffer: no recording goes across a loss.  *)
NoGapInFragment == pc = "recorded" => ~gap

(* Fairness: samples keep coming while the microphone is enabled, and the  *)
(* processor runs.                                                         *)
Fairness == /\ WF_vars(\E loud \in BOOLEAN : Arrive(loud))
            /\ WF_vars(Loop) /\ WF_vars(Turn)
            /\ WF_vars(TimePasses)

FairSpec == Spec /\ Fairness

(* While the node waits for a command the recording comes to an end, even  *)
(* if nothing is said and the user steps in and out of range.              *)
TimedRecordingEnds ==
  <>[]connected => (Recording /\ flag = "COMMAND" ~> ~Recording)

(* A reset button is not ignored for ever: the recording ends, unless the  *)
(* event is overwritten by another one.                                    *)
ResetAnswered ==
  Recording /\ button = "RESET" ~> ~Recording \/ button # "RESET"
=============================================================================
