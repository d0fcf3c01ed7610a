--------------------------- MODULE Recorder_proofs ---------------------------
(***************************************************************************)
(* Theorems about Recorder, for every size of the ring, margin, number of  *)
(* skipped samples, and capacity of the channel below that number.         *)
(***************************************************************************)
EXTENDS Recorder, TLAPS

LEMMA InitIInv == Init => IInv
<1> SUFFICES ASSUME Init PROVE IInv
  OBVIOUS
<1> USE RecorderConstantsOK
<1>1. MicType
  <2>1. enabled \in BOOLEAN /\ lost \in BOOLEAN
    BY Zenon DEF Init
  <2>2. queue = << >>
    BY DEF Init
  <2> QED
    BY <2>1, <2>2 DEF MicType
<1>2. StoreType
  BY DEF Init, StoreType, Empty
<1>3. HistoryType
  BY Zenon DEF Init, HistoryType
<1>4. OutsideType
  BY Zenon DEF Init, OutsideType
<1>5. ControlType
  BY DEF Init, ControlType
<1>6. FreshOnly /\ StaleAhead /\ MarginOpen /\ TriggerPlaced
  BY DEF Init, FreshOnly, StaleAhead, MarginOpen, TriggerPlaced, Recording
<1> QED
  BY <1>1, <1>2, <1>3, <1>4, <1>5, <1>6 DEF IInv, TypeOK

-----------------------------------------------------------------------------
(* Every action of the loop takes the oldest sample. *)
LEMMA LoopTakes ==
  ASSUME IInv, Loop
  PROVE  /\ pc = "loop" /\ queue # << >> /\ queue' = Tail(queue)
         /\ lost' = lost
BY DEF Loop, MicError, Skip, KeepOn, Keep, TimeoutInRange, TimeoutOutOfRange,
    Finish, OutOfRange,
       DistanceError, Get

(* Of the turns, none touches the channel or the index and its counters. *)
LEMMA TurnKeeps ==
  ASSUME Turn
  PROVE  /\ UNCHANGED <<queue, lost, rec, gap, stale, flag, in_range>>
         /\ Recording' => Recording
         /\ pc' \in {"loop", "connect", "connected", "idle", "left"}
         /\ pc \in {"turn", "connect", "connected"}
BY DEF Turn, ConnectionTurn, AwaitConnection, Reconnected, Settled, ButtonTurn,
       DistanceTurn, OtherTurn, mic, store, dist, NextTurn, Return, rec,
       Recording

LEMMA MicStep == IInv /\ [Next]_vars => MicType'
<1> SUFFICES ASSUME IInv, [Next]_vars PROVE MicType'
  OBVIOUS
<1> USE RecorderConstantsOK
<1>0. /\ queue \in Seq(Sample) /\ Len(queue) <= CAPACITY
      /\ enabled \in BOOLEAN /\ lost \in BOOLEAN
  BY DEF IInv, TypeOK, MicType
<1>1. enabled' \in BOOLEAN /\ lost' \in BOOLEAN
  BY <1>0, Zenon
  DEF Next, Arrive, TimePasses, Press, Link, Start, Loop, Turn, Analysed,
      Reinit,
      MicError, Skip, KeepOn, Keep, TimeoutInRange, TimeoutOutOfRange, Finish,
      OutOfRange, DistanceError,
      ConnectionTurn, AwaitConnection, Reconnected, Settled, ButtonTurn,
      DistanceTurn, OtherTurn, vars, mic, store
<1>2. queue' \in Seq(Sample) /\ Len(queue') <= CAPACITY
  <2>1. CASE \E loud \in BOOLEAN : Arrive(loud)
    <3>1. PICK loud \in BOOLEAN : Arrive(loud)
      BY <2>1
    <3>2. [loud |-> loud, from |-> IF lost THEN "gap" ELSE "now"] \in Sample
      BY <3>1 DEF Sample
    <3> QED
      BY <1>0, <3>1, <3>2 DEF Arrive
  <2>2. CASE Start
    <3>1. queue' = [i \in DOMAIN queue |-> [queue[i] EXCEPT !.from = "before"]]
      BY <2>2 DEF Start
    <3>2. ASSUME NEW i \in 1 .. Len(queue)
          PROVE  [queue[i] EXCEPT !.from = "before"] \in Sample
      <4>1. queue[i] \in Sample
        BY <1>0
      <4> QED
        BY <4>1 DEF Sample
    <3>3. DOMAIN queue = 1 .. Len(queue) /\ Len(queue) \in Nat
      BY <1>0
    <3>4. queue' \in [1 .. Len(queue) -> Sample]
      BY <3>1, <3>2, <3>3
    <3> QED
      BY <1>0, <3>3, <3>4
  <2>3. CASE Loop
    BY <1>0, <2>3, LoopTakes
  <2>4. CASE Turn
    BY <1>0, <2>4, TurnKeeps
  <2>5. CASE Reinit
    BY <2>5 DEF Reinit
  <2>6. CASE UNCHANGED queue
    BY <1>0, <2>6
  <2> QED
    BY <2>1, <2>2, <2>3, <2>4, <2>5, <2>6
    DEF Next, TimePasses, Press, Link, Analysed, vars, mic
<1> QED
  BY <1>1, <1>2 DEF MicType

(* The first place behind one in the ring is in the ring. *)
LEMMA AfterInRing == \A i \in 0 .. RING - 1 : After(i) \in 0 .. RING - 1
BY RecorderConstantsOK DEF After

LEMMA EmptyIsTable == Empty \in [0 .. RING - 1 -> {"zero", "sound", "trigger"}]
BY DEF Empty

LEMMA StoreStep == IInv /\ [Next]_vars => StoreType' /\ MarginOpen'
<1> SUFFICES ASSUME IInv, [Next]_vars PROVE StoreType' /\ MarginOpen'
  OBVIOUS
<1> USE RecorderConstantsOK, EmptyIsTable
<1>0. StoreType /\ MarginOpen
  BY DEF IInv, TypeOK
<1>1. CASE Start
  BY <1>1 DEF Start, StoreType, MarginOpen
<1>2. ASSUME Skip PROVE StoreType' /\ MarginOpen'
  BY <1>0, <1>2 DEF Skip, Get, StoreType, MarginOpen, Recording
<1>3. ASSUME Keep
      PROVE  /\ table' \in [0 .. RING - 1 -> {"zero", "sound", "trigger"}]
             /\ mmargin' = Counted /\ Counted \in 0 .. MARGIN
             /\ initial' = initial
  BY <1>0, <1>3 DEF Keep, Get, Counted, StoreType, MarginOpen, Recording
<1>4. CASE KeepOn
  BY <1>0, <1>3, <1>4, AfterInRing DEF KeepOn, StoreType, MarginOpen
<1>5. CASE Finish \/ TimeoutInRange
  BY <1>0, <1>3, <1>5
  DEF Finish, TimeoutInRange, Return, StoreType, MarginOpen, Recording
<1>6. CASE TimeoutOutOfRange \/ OutOfRange \/ DistanceError \/ Analysed \/ Reinit
  BY <1>0, <1>6
  DEF TimeoutOutOfRange, OutOfRange, DistanceError, Forget, Analysed, Reinit,
      StoreType,
      MarginOpen, store, rec
<1>7. CASE MicError
  BY <1>0, <1>7 DEF MicError, Return, StoreType, MarginOpen, Recording, store,
      rec
<1>8. CASE Turn
  <2>1. table' \in {table, Empty}
    BY <1>8
    DEF Turn, ConnectionTurn, AwaitConnection, Reconnected, Settled,
        ButtonTurn, DistanceTurn, OtherTurn, store
  <2> QED
    BY <1>0, <1>8, <2>1, TurnKeeps DEF StoreType, MarginOpen, rec
<1>9. CASE UNCHANGED <<store, pc>>
  BY <1>0, <1>9 DEF StoreType, MarginOpen, Recording, store, rec
<1> QED
  BY <1>1, <1>2, <1>4, <1>5, <1>6, <1>7, <1>8, <1>9
  DEF Next, Loop, Arrive, TimePasses, Press, Link, vars, ctl

LEMMA HistoryStep == IInv /\ [Next]_vars => HistoryType'
<1> SUFFICES ASSUME IInv, [Next]_vars PROVE HistoryType'
  OBVIOUS
<1>0. HistoryType
  BY DEF IInv, TypeOK
<1> QED
  BY <1>0, Zenon
  DEF HistoryType, Next, Arrive, TimePasses, Press, Link, Start, Loop, Turn,
      Analysed, Reinit, MicError, Skip, KeepOn, Keep, TimeoutInRange,
      TimeoutOutOfRange, Finish, Forget,
      OutOfRange, DistanceError, ConnectionTurn, AwaitConnection, Reconnected,
      Settled, ButtonTurn, DistanceTurn, OtherTurn, vars, mic, store

LEMMA OutsideStep == IInv /\ [Next]_vars => OutsideType'
<1> SUFFICES ASSUME IInv, [Next]_vars PROVE OutsideType'
  OBVIOUS
<1>0. OutsideType
  BY DEF IInv, TypeOK
<1>1. in_range' \in BOOLEAN /\ late' \in BOOLEAN /\ connected' \in BOOLEAN
  BY <1>0, Zenon
  DEF OutsideType, Next, Arrive, TimePasses, Press, Link, Start, Loop, Turn,
      Analysed, Reinit, MicError, Skip, KeepOn, Keep, TimeoutInRange,
      TimeoutOutOfRange, Finish, Forget,
      OutOfRange, DistanceError, ConnectionTurn, AwaitConnection, Reconnected,
      Settled, ButtonTurn, DistanceTurn, OtherTurn, vars, mic, store, dist, ctl,
      env
<1>2. /\ rstatus' \in {"IN_RANGE", "NOT_IN_RANGE", "ERROR"}
      /\ button' \in {"NONE", "LISTEN", "RESET", "VOLUME"}
  BY <1>0
  DEF OutsideType, Next, Arrive, TimePasses, Press, Link, Start, Loop, Turn,
      Analysed, Reinit, MicError, Skip, KeepOn, Keep, TimeoutInRange,
      TimeoutOutOfRange, Finish,
      OutOfRange, DistanceError, ConnectionTurn, AwaitConnection, Reconnected,
      Settled, ButtonTurn, DistanceTurn, OtherTurn, vars, dist, env
<1> QED
  BY <1>1, <1>2 DEF OutsideType

LEMMA ControlStep == IInv /\ [Next]_vars => ControlType'
<1> SUFFICES ASSUME IInv, [Next]_vars PROVE ControlType'
  OBVIOUS
<1>0. ControlType /\ OutsideType
  BY DEF IInv, TypeOK
<1> USE RecorderConstantsOK DEF ControlType
<1>1. CASE Start
  BY <1>0, <1>1 DEF Start
<1>2. CASE Loop
  BY <1>0, <1>2
  DEF Loop, MicError, Skip, KeepOn, Keep, TimeoutInRange, TimeoutOutOfRange,
      Finish, OutOfRange,
      DistanceError, Return
<1>3. CASE Turn
  <2>1. CASE ButtonTurn
    BY <1>0, <2>1 DEF ButtonTurn, NextTurn, Return, OutsideType
  <2>2. CASE AwaitConnection
    BY <1>0, <2>2 DEF AwaitConnection, Return
  <2> QED
    BY <1>0, <1>3, <2>1, <2>2
    DEF Turn, ConnectionTurn, Reconnected, Settled, DistanceTurn, OtherTurn,
        NextTurn
<1>4. CASE Analysed \/ Reinit
  BY <1>0, <1>4 DEF Analysed, Reinit
<1>5. CASE \/ TimePasses \/ UNCHANGED vars \/ Link
           \/ \E loud \in BOOLEAN : Arrive(loud)
           \/ \E b \in {"LISTEN", "RESET", "VOLUME"} : Press(b)
  BY <1>0, <1>5 DEF TimePasses, Arrive, Press, Link, vars, ctl
<1> QED
  BY <1>1, <1>2, <1>3, <1>4, <1>5 DEF Next

-----------------------------------------------------------------------------
(* Each sample that leaves the channel, skipped or not, brings the rest    *)
(* one place forward; what arrives is of this recording.                   *)
LEMMA FreshStep == IInv /\ [Next]_vars => FreshOnly' /\ StaleAhead'
<1> SUFFICES ASSUME IInv, [Next]_vars PROVE FreshOnly' /\ StaleAhead'
  OBVIOUS
<1> USE RecorderConstantsOK
<1>0. /\ queue \in Seq(Sample) /\ Len(queue) <= CAPACITY /\ Len(queue) \in Nat
      /\ initial \in 0 .. INITIAL /\ FreshOnly /\ StaleAhead
  BY DEF IInv, TypeOK, MicType, StoreType
<1>1. CASE \E loud \in BOOLEAN : Arrive(loud)
  <2>1. PICK loud \in BOOLEAN : Arrive(loud)
    BY <1>1
  <2> DEFINE new == [loud |-> loud, from |-> IF lost THEN "gap" ELSE "now"]
  <2>2. new.from # "before"
    OBVIOUS
  <2>3. /\ UNCHANGED <<pc, stale, initial>>
        /\ queue' = Append(queue, new) \/ queue' = queue
    BY <2>1 DEF Arrive, store, rec, ctl
  <2>4. CASE queue' = queue
    BY <1>0, <2>3, <2>4 DEF FreshOnly, StaleAhead, Recording
  <2>5. CASE queue' = Append(queue, new)
    <3> HIDE DEF new
    <3>1. /\ Len(queue') = Len(queue) + 1 /\ queue'[Len(queue) + 1] = new
          /\ \A i \in 1 .. Len(queue) : queue'[i] = queue[i]
      BY <1>0, <2>5
    <3> QED
      BY <1>0, <2>2, <2>3, <3>1 DEF FreshOnly, StaleAhead, Recording
  <2> QED
    BY <2>3, <2>4, <2>5
<1>2. CASE Start
  <2>1. ~stale' /\ initial' = 0
    BY <1>2, Zenon DEF Start
  <2>2. queue' = [i \in DOMAIN queue |-> [queue[i] EXCEPT !.from = "before"]]
    BY <1>2 DEF Start
  <2>3. Len(queue') = Len(queue)
    BY <1>0, <2>2
  <2> QED
    BY <1>0, <2>1, <2>3 DEF FreshOnly, StaleAhead
<1>3. ASSUME Get
      PROVE  /\ Len(queue') = Len(queue) - 1 /\ Got = queue[1] /\ Recording
             /\ \A i \in 1 .. Len(queue') : queue'[i] = queue[i + 1]
             /\ 1 \in 1 .. Len(queue) /\ ~stale
  BY <1>0, <1>3 DEF Get, Got, Recording, FreshOnly
<1>4. CASE Skip
  <2>1. stale' = stale /\ Get /\ initial' = initial + 1
    BY <1>4 DEF Skip
  <2> QED
    BY <1>0, <1>3, <2>1 DEF FreshOnly, StaleAhead
<1>5. ASSUME Keep PROVE FreshOnly' /\ StaleAhead'
  <2>1. Got.from # "before" /\ Get /\ initial' = initial
    BY <1>0, <1>3, <1>5 DEF Keep, StaleAhead
  <2>2. ~stale'
    BY <1>3, <1>5, <2>1, Zenon DEF Keep
  <2> QED
    BY <1>0, <1>3, <2>1, <2>2 DEF FreshOnly, StaleAhead
<1>6. ASSUME Get, Forget PROVE FreshOnly' /\ StaleAhead'
  <2>1. stale' = stale /\ initial' = 0
    BY <1>6 DEF Forget
  <2> QED
    BY <1>0, <1>3, <1>6, <2>1 DEF FreshOnly, StaleAhead
<1>7. CASE KeepOn \/ Finish \/ OutOfRange \/ DistanceError
  BY <1>5, <1>6, <1>7 DEF KeepOn, Finish, OutOfRange, DistanceError
<1>8. CASE \/ MicError \/ TimeoutInRange \/ TimeoutOutOfRange
           \/ Analysed \/ Reinit
  <2>1. pc' \in {"idle", "left"}
    BY <1>8
    DEF MicError, TimeoutInRange, TimeoutOutOfRange, Analysed, Reinit, Return
  <2> QED
    BY <2>1 DEF FreshOnly, StaleAhead, Recording
<1>9. CASE Turn
  <2>1. UNCHANGED <<queue, initial, stale>>
    BY <1>9, TurnKeeps DEF rec
  <2>2. pc' # "recorded" /\ (Recording' => Recording)
    BY <1>9, TurnKeeps
  <2> QED
    BY <1>0, <2>1, <2>2 DEF FreshOnly, StaleAhead
<1>10. CASE UNCHANGED <<queue, store, pc>>
  BY <1>0, <1>10 DEF FreshOnly, StaleAhead, Recording, store, rec
<1> QED
  BY <1>1, <1>2, <1>4, <1>7, <1>8, <1>9, <1>10
  DEF Next, Loop, TimePasses, Press, Link, vars, mic, ctl

-----------------------------------------------------------------------------
(* When a sample is stored at n, the trigger is that sample or stays where *)
(* it is, behind n by less than the ring.                                  *)
LEMMA KeepPlaces ==
  ASSUME IInv, Keep, ~wiped
  PROVE  /\ Counted > 0 => TriggerBehind(table', n, Counted - 1)
         /\ Counted \in 0 .. MARGIN
<1> USE RecorderConstantsOK
<1>1. /\ table \in [0 .. RING - 1 -> {"zero", "sound", "trigger"}]
      /\ n \in 0 .. RING - 1 /\ mmargin \in 0 .. MARGIN - 1
      /\ mmargin > 0 => TriggerBehind(table, n, mmargin)
  BY DEF IInv, TypeOK, StoreType, MarginOpen, TriggerPlaced, Keep, Get, Recording
<1>2. table' = [table EXCEPT ![n] = IF mmargin = 0 /\ Got.loud
                                    THEN "trigger" ELSE "sound"]
  BY DEF Keep
<1>3. CASE mmargin = 0
  BY <1>1, <1>2, <1>3 DEF Counted, TriggerBehind
<1>4. CASE mmargin > 0
  <2> DEFINE place == IF mmargin <= n THEN n - mmargin ELSE n + RING - mmargin
  <2>1. place \in 0 .. RING - 1 /\ place # n
    BY <1>1, <1>4
  <2>2. table'[place] = table[place]
    BY <1>1, <1>2, <2>1
  <2>3. TriggerBehind(table', n, mmargin)
    BY <1>1, <1>4, <2>2 DEF TriggerBehind
  <2>4. Counted = mmargin + 1 /\ Counted - 1 = mmargin
    BY <1>1, <1>4 DEF Counted
  <2> QED
    BY <1>1, <2>3, <2>4
<1> QED
  BY <1>1, <1>3, <1>4

LEMMA PlacedStep == IInv /\ [Next]_vars => TriggerPlaced'
<1> SUFFICES ASSUME IInv, [Next]_vars PROVE TriggerPlaced'
  OBVIOUS
<1> USE RecorderConstantsOK
<1>0. /\ TriggerPlaced /\ mmargin \in 0 .. MARGIN /\ n \in 0 .. RING - 1
      /\ Recording => mmargin < MARGIN
  BY DEF IInv, TypeOK, StoreType, MarginOpen
<1>1. CASE KeepOn
  <2>1. /\ wiped' = wiped /\ n' = After(n) /\ pc' = "turn" /\ Keep
        /\ mmargin' = Counted /\ Counted < MARGIN
    BY <1>1 DEF KeepOn, Keep
  <2>2. SUFFICES ASSUME ~wiped, Counted > 0
                 PROVE  TriggerBehind(table', After(n), Counted)
    BY <2>1 DEF TriggerPlaced
  <2>3. TriggerBehind(table', n, Counted - 1) /\ Counted \in 1 .. MARGIN
    BY <2>1, <2>2, KeepPlaces
  <2> QED
    BY <1>0, <2>3 DEF TriggerBehind, After
<1>2. CASE Finish
  <2>1. /\ wiped' = wiped /\ n' = n /\ pc' = "recorded" /\ Keep
        /\ Counted >= MARGIN /\ Recording
    BY <1>2 DEF Finish, Keep, Get, Recording
  <2>2. ASSUME ~wiped PROVE TriggerBehind(table', n, MARGIN - 1)
    <3>1. Counted = MARGIN
      BY <2>1, <2>2, KeepPlaces
    <3> QED
      BY <2>1, <2>2, <3>1, KeepPlaces
  <2> QED
    BY <2>1, <2>2 DEF TriggerPlaced, Recording
<1>3. CASE TimeoutInRange \/ TimeoutOutOfRange \/ DistanceError \/ MicError
           \/ Analysed \/ Reinit
  <2>1. pc' \in {"idle", "left"}
    BY <1>3
    DEF MicError, TimeoutInRange, TimeoutOutOfRange, DistanceError, Analysed,
        Reinit, Return
  <2> QED
    BY <2>1 DEF TriggerPlaced, Recording
<1>4. CASE Start \/ OutOfRange
  <2>1. mmargin' = 0 /\ pc' \in {"loop", "turn"}
    BY <1>4 DEF Start, OutOfRange, Forget
  <2> QED
    BY <2>1 DEF TriggerPlaced
<1>5. CASE Reconnected
  <2>1. wiped'
    BY <1>5, Zenon DEF Reconnected
  <2> QED
    BY <2>1 DEF TriggerPlaced
<1>6. CASE Turn /\ ~Reconnected
  <2>1. UNCHANGED <<table, wiped>>
    BY <1>6
    DEF Turn, ConnectionTurn, AwaitConnection, Settled, ButtonTurn,
        DistanceTurn, OtherTurn, store
  <2>2. /\ UNCHANGED <<n, mmargin>> /\ pc' # "recorded"
        /\ Recording' => Recording
    BY <1>6, TurnKeeps DEF rec
  <2> QED
    BY <1>0, <2>1, <2>2 DEF TriggerPlaced
<1>7. CASE Skip
  <2>1. /\ UNCHANGED <<table, wiped, n, mmargin>> /\ pc' = "turn"
        /\ Recording
    BY <1>7 DEF Skip, Get, Recording
  <2> QED
    BY <1>0, <2>1 DEF TriggerPlaced
<1>8. CASE UNCHANGED <<store, pc>>
  BY <1>0, <1>8 DEF TriggerPlaced, Recording, store, rec
<1> QED
  BY <1>1, <1>2, <1>3, <1>4, <1>5, <1>6, <1>7, <1>8
  DEF Next, Loop, Arrive, TimePasses, Press, Link, vars, ctl

(* In every reachable state of Recorder the inductive invariant holds. *)
THEOREM Invariance == Spec => []IInv
<1>1. IInv /\ [Next]_vars => IInv'
  BY MicStep, StoreStep, HistoryStep, OutsideStep, ControlStep, FreshStep,
     PlacedStep DEF IInv, TypeOK
<1> QED
  BY <1>1, InitIInv, PTL DEF Spec

(* The index stays inside the ring and each counter below its limit,       *)
(* however often the ring wraps and whatever interrupts the recording.     *)
THEOREM TypeCorrect == Spec => []TypeOK
<1>1. IInv => TypeOK
  BY DEF IInv
<1> QED
  BY <1>1, Invariance, PTL

(* No sample that was waiting in the queues when a recording began is ever *)
(* part of it, provided the skipped samples outnumber the queues' places.  *)
THEOREM OnlyFreshSamples == Spec => []FreshOnly
<1>1. IInv => FreshOnly
  BY DEF IInv
<1> QED
  BY <1>1, Invariance, PTL

(* For every size of the ring and margin, the loud sample that triggered a *)
(* fragment is in it, where the copy puts the middle.                      *)
THEOREM TriggerIsKept == Spec => []TriggerKept
<1>1. IInv => TriggerKept
  <2> SUFFICES ASSUME IInv, pc = "recorded", ~wiped PROVE TriggerKept
    BY DEF TriggerKept
  <2> USE RecorderConstantsOK
  <2>1. n \in 0 .. RING - 1 /\ TriggerBehind(table, n, MARGIN - 1)
    BY DEF IInv, TypeOK, StoreType, TriggerPlaced
  <2> DEFINE first == ((n + 1) \div 2) * 2
             where == IF MARGIN - 1 <= n
                      THEN n - (MARGIN - 1) + (RING + 2) - first
                      ELSE n + RING - (MARGIN - 1) - first
  <2>2. first \in {n, n + 1}
    BY <2>1
  <2>3. /\ where \in RING - MARGIN .. RING - MARGIN + 3
        /\ where \in 0 .. RING - 1
    BY <2>1, <2>2
  <2>4. CopyToSwap[where] = "trigger"
    BY <2>1, <2>2, <2>3 DEF CopyToSwap, TriggerBehind
  <2> QED
    BY <2>3, <2>4 DEF TriggerKept
<1> QED
  BY <1>1, Invariance, PTL
=============================================================================
