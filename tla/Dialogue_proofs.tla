--------------------------- MODULE Dialogue_proofs ---------------------------
(***************************************************************************)
(* Theorems about Dialogue, for every vocabulary, every prefix relation    *)
(* between its words and every number of retries.                          *)
(***************************************************************************)
EXTENDS Dialogue, TLAPS

LEMMA InitIInv == Init => IInv
<1> SUFFICES ASSUME Init PROVE IInv
  OBVIOUS
<1>1. /\ state = "NAME" /\ flag = "NAME" /\ retry = 0 /\ buffer = None
      /\ transactions = 0 /\ volume = 15 /\ loop = "listen"
      /\ said = None /\ answers = 0 /\ sent = None
  BY DEF Init
<1>2. same \in BOOLEAN /\ connected \in BOOLEAN
  BY Zenon DEF Init
<1>3. TypeOK
  BY <1>1, <1>2, DialogueConstantsOK DEF TypeOK
<1> QED
  BY <1>1, <1>3
  DEF IInv, FlagFollowsState, AnswersCounted, WaitingToSend,
      CommandIsConfirmed, Pending, SentWasConfirmed, NoStaleCommand

(* One step, one action after the other.  The actions of a dialogue move   *)
(* state, flag, retry, answers, buffer and said together.                  *)
LEMMA StepIInv == IInv /\ [Next]_vars => IInv'
<1> SUFFICES ASSUME IInv, [Next]_vars PROVE IInv'
  OBVIOUS
<1> USE DialogueConstantsOK
    DEF IInv, TypeOK, FlagFollowsState, AnswersCounted, WaitingToSend,
        CommandIsConfirmed, Pending, SentWasConfirmed, NoStaleCommand,
        Listening, GiveUp, Greet, rest
<1>1. CASE Cancel
  BY <1>1 DEF Cancel
<1>2. CASE ChangeVolume
  <2>1. (volume + 255) % 256 \in 0 .. 255
    OBVIOUS
  <2>2. volume' \in 0 .. 255
    BY <1>2, <2>1 DEF ChangeVolume
  <2> QED
    BY <1>2, <2>2 DEF ChangeVolume
<1>3. ASSUME Listening, Greet PROVE IInv'
  <2>1. ~same' /\ same' \in BOOLEAN
    BY <1>3, Zenon
  <2>2. /\ state' = "COMMAND" /\ flag' = "COMMAND" /\ retry' = 0
        /\ buffer' = None /\ said' = None /\ answers' = 0 /\ sent' = None
        /\ UNCHANGED <<transactions, volume, loop, connected>>
        /\ loop = "listen"
    BY <1>3
  <2> QED
    BY <2>1, <2>2
<1>4. ASSUME CommandDirectly \/ \E w \in Word : WakeUp(w) PROVE IInv'
  <2>1. Listening /\ Greet
    BY ONLY <1>4 DEF CommandDirectly, WakeUp
  <2> QED
    BY ONLY <2>1, <1>3
<1>5. ASSUME NEW w \in Word, FirstWord(w) PROVE IInv'
  BY <1>5 DEF FirstWord
<1>6. ASSUME NEW w \in Word, Correction(w) PROVE IInv'
  <2>1. same' \in BOOLEAN
    BY <1>6, Zenon DEF Correction
  <2>2. /\ state = "RETRY" /\ retry # MAX_RETRIES /\ loop = "listen"
        /\ sent' = None /\ retry' = retry + 1 /\ answers' = answers + 1
        /\ buffer' = w /\ said' = w
        /\ UNCHANGED <<state, flag, transactions, volume, loop, connected>>
    BY <1>6 DEF Correction
  <2> QED
    BY <2>1, <2>2
<1>7. ASSUME NEW w \in Word, SameWord(w) PROVE IInv'
  <2>1. same' /\ same' \in BOOLEAN
    BY <1>7, Zenon DEF SameWord
  <2> QED
    BY <1>7, <2>1 DEF SameWord
<1>8. ASSUME NEW w \in Word, LastWord(w) PROVE IInv'
  BY <1>8 DEF LastWord
<1>9. CASE FirstUnclear
  <2>1. ~same' /\ same' \in BOOLEAN
    BY <1>9, Zenon DEF FirstUnclear
  <2>2. /\ state' = "RETRY" /\ retry' = 0 /\ buffer' = None /\ said' = None
        /\ answers' = answers + 1 /\ sent' = None /\ state = "COMMAND"
        /\ loop = "listen"
        /\ UNCHANGED <<flag, transactions, volume, loop, connected>>
    BY <1>9 DEF FirstUnclear
  <2> QED
    BY <2>1, <2>2
<1>10. CASE Unclear
  <2>1. CASE retry = MAX_RETRIES
    BY <1>10, <2>1 DEF Unclear
  <2>2. CASE retry # MAX_RETRIES
    BY <1>10, <2>2 DEF Unclear
  <2> QED
    BY <2>1, <2>2
<1>11. CASE TimeoutSend
  BY <1>11 DEF TimeoutSend
<1>12. CASE Send
  BY <1>12 DEF Send
<1>13. CASE TimeoutGiveUp
  BY <1>13 DEF TimeoutGiveUp
<1>14. CASE ListenAgain
  BY <1>14 DEF ListenAgain
<1>15. CASE Leave
  BY <1>15 DEF Leave
<1>16. CASE Restart
  <2>1. same' \in BOOLEAN
    BY <1>16, Zenon DEF Restart
  <2>2. /\ state' = "NAME" /\ flag' = "NAME" /\ retry' = 0 /\ buffer' = None
        /\ transactions' = 0 /\ volume' = 15 /\ loop' = "listen"
        /\ said' = None /\ answers' = 0 /\ sent' = None
        /\ UNCHANGED connected
    BY <1>16 DEF Restart
  <2> QED
    BY <2>1, <2>2
<1>17. CASE Connect \/ Disconnect
  <2>1. connected' \in BOOLEAN
    BY <1>17, Zenon DEF Connect, Disconnect
  <2>2. /\ sent' = None
        /\ UNCHANGED <<state, flag, retry, buffer, same, transactions, volume,
                       loop, said, answers>>
    BY <1>17 DEF Connect, Disconnect
  <2> QED
    BY <2>1, <2>2
<1>18. CASE UNCHANGED vars
  BY <1>18 DEF vars
<1> QED
  BY <1>1, <1>2, <1>3, <1>4, <1>5, <1>6, <1>7, <1>8, <1>9, <1>10, <1>11,
     <1>12, <1>13, <1>14, <1>15, <1>16, <1>17, <1>18
  DEF Next, Progress, Heard

(* In every reachable state of the dialogue the inductive invariant holds. *)
THEOREM Invariance == Spec => []IInv
BY InitIInv, StepIInv, PTL DEF Spec

(* Types, the parity and the 8-bit volume. *)
THEOREM TypeCorrect == Spec => []TypeOK
<1>1. IInv => TypeOK
  BY DEF IInv
<1> QED
  BY <1>1, Invariance, PTL

(* The recorder's flag and the state of the dialogue never part. *)
THEOREM ButtonMeansWhatItShould == Spec => []FlagFollowsState
<1>1. IInv => FlagFollowsState
  BY DEF IInv
<1> QED
  BY <1>1, Invariance, PTL

(* A dialogue takes at most MAX_RETRIES + 1 answers: state RETRY has       *)
(* retry + 1 of them behind it and retry never exceeds MAX_RETRIES.        *)
THEOREM DialogueIsBounded == Spec => [](AnswersCounted /\ answers <= MAX_RETRIES + 1)
<1>1. IInv => AnswersCounted /\ answers <= MAX_RETRIES + 1
  BY DialogueConstantsOK DEF IInv, TypeOK, AnswersCounted
<1> QED
  BY <1>1, Invariance, PTL

(* Nothing is sent that the user was not told and did not let stand. *)
THEOREM OnlyConfirmedWords == Spec => []SentWasConfirmed
<1>1. IInv => SentWasConfirmed
  BY DEF IInv
<1> QED
  BY <1>1, Invariance, PTL

(* What a timeout sends or the wait for a central holds is the word the    *)
(* node repeated to the user.                                              *)
THEOREM CommandWasSaid == Spec => []CommandIsConfirmed
<1>1. IInv => CommandIsConfirmed
  BY DEF IInv
<1> QED
  BY <1>1, Invariance, PTL

(* A dialogue never begins with the command of an earlier one.             *)
THEOREM StartsEmpty == Spec => []NoStaleCommand
<1>1. IInv => NoStaleCommand
  BY DEF IInv
<1> QED
  BY <1>1, Invariance, PTL
=============================================================================
