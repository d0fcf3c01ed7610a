------------------------------ MODULE Dialogue ------------------------------
(***************************************************************************)
(* The dialogue of the node: app() in main.c, with get_word() of detect.c  *)
(* as its environment.  The node waits for its name, then for a command,   *)
(* then for corrections of the command, and sends the command over BLE     *)
(* when no correction comes.                                               *)
(*                                                                         *)
(* One action is one pass through the main loop for one status of          *)
(* get_word.  wait_for_connection blocks the loop, so the pass that sends  *)
(* a word is two actions.                                                  *)
(***************************************************************************)
EXTENDS Integers

CONSTANTS
  Word,          \* the words of the database
  NameWord,      \* those that begin with "sheila"
  Begins,        \* pairs <<w, v>>: the letters of v begin with those of w
  None,          \* an empty string
  MAX_RETRIES    \* 3

ASSUME DialogueConstantsOK ==
  /\ NameWord \subseteq Word /\ None \notin Word
  /\ Begins \subseteq Word \X Word /\ \A w \in Word : <<w, w>> \in Begins
  /\ MAX_RETRIES \in Nat

VARIABLES
  state,       \* Meet_state_t
  flag,        \* Recorder_flag_t: what the listen button means
  retry,       \* corrections so far
  buffer,      \* the command that will be sent
  same,        \* same_detected_word: the command was cancelled
  transactions,\* dialogues ended by a timeout, modulo 2: PARITY
  volume,      \* uint8_t
  loop,        \* "listen", "connect" (wait_for_connection), "left" (returned)
  connected,   \* Is_connected()
  \* history
  said,        \* the last word the node repeated to the user, None after
               \* it asked to repeat, gave up or greeted
  answers,     \* words and unrecognised fragments since it was woken
  sent         \* the word sent in the last step, or None

vars == <<state, flag, retry, buffer, same, transactions, volume, loop,
          connected, said, answers, sent>>
rest == <<transactions, volume, loop, connected>>

(* compare(): the first string is exhausted before the two differ. *)
compare(w, v) == <<w, v>> \in Begins

(* Start of app() after its self-checks; main() sets the volume. *)
Init ==
  /\ state = "NAME" /\ flag = "NAME" /\ retry = 0
  /\ buffer = None /\ same = FALSE
  /\ transactions = 0 /\ volume = 15
  /\ loop = "listen" /\ connected \in BOOLEAN
  /\ said = None /\ answers = 0 /\ sent = None

Listening == loop = "listen" /\ sent' = None

(* Mutant: the state is not reset. *)
M_GiveUp == /\ state' = state /\ flag' = "NAME" /\ retry' = 0
            /\ said' = None /\ answers' = 0

(* Nodetect: the dialogue ends without a command. *)
GiveUp == /\ state' = "NAME" /\ flag' = "NAME" /\ retry' = 0
          /\ said' = None /\ answers' = 0

(* Mutant: the command of the last dialogue is not cleared. *)
M_Greet == /\ state' = "COMMAND" /\ flag' = "COMMAND" /\ retry' = 0
           /\ same' = FALSE
           /\ said' = None /\ answers' = 0
           /\ UNCHANGED <<buffer, rest>>

(* Hello or Yes: a dialogue begins. *)
Greet == /\ state' = "COMMAND" /\ flag' = "COMMAND" /\ retry' = 0
         /\ buffer' = None /\ same' = FALSE
         /\ said' = None /\ answers' = 0
         /\ UNCHANGED rest

(* DETECTOR_STATUS_COMMAND_CANCEL: the listen button during a dialogue *)
Cancel ==
  /\ Listening /\ flag = "COMMAND"
  /\ GiveUp
  /\ UNCHANGED <<buffer, same, rest>>

(* Mutant: the volume is decremented without its width. *)
M_ChangeVolume ==
  /\ Listening
  /\ volume' = IF volume - 1 = 4 THEN 0 ELSE volume - 1
  /\ UNCHANGED <<state, flag, retry, buffer, same, transactions, loop,
                 connected, said, answers>>

(* DETECTOR_STATUS_CHANGE_VOLUME: volume is unsigned, so 0 becomes 255 and *)
(* the test for -1 never holds                                             *)
ChangeVolume ==
  /\ Listening
  /\ LET lower == (volume + 255) % 256
     IN  volume' = IF lower = 4 THEN 0 ELSE lower
  /\ UNCHANGED <<state, flag, retry, buffer, same, transactions, loop,
                 connected, said, answers>>

(* DETECTOR_STATUS_COMMAND_DIRECTLY: the listen button outside a dialogue *)
CommandDirectly ==
  /\ Listening /\ flag = "NAME"
  /\ Greet

(* DETECTOR_STATUS_OK *)
WakeUp(w) ==
  /\ Listening /\ state = "NAME" /\ w \in NameWord
  /\ Greet

FirstWord(w) ==
  /\ Listening /\ state = "COMMAND"
  /\ state' = "RETRY"
  /\ buffer' = w /\ said' = w /\ answers' = answers + 1
  /\ UNCHANGED <<flag, retry, same, rest>>

Correction(w) ==       \* another word: Sorry, and the word
  /\ Listening /\ state = "RETRY" /\ retry # MAX_RETRIES
  /\ ~compare(w, buffer)
  /\ same' = FALSE /\ retry' = retry + 1
  /\ buffer' = w /\ said' = w /\ answers' = answers + 1
  /\ UNCHANGED <<state, flag, rest>>

(* Mutant: the repeated word is not counted as an attempt. *)
M_SameWord(w) ==
  /\ Listening /\ state = "RETRY" /\ retry # MAX_RETRIES
  /\ compare(w, buffer)
  /\ same' = TRUE /\ UNCHANGED retry
  /\ buffer' = w /\ said' = None /\ answers' = answers + 1
  /\ UNCHANGED <<state, flag, rest>>

SameWord(w) ==         \* the command again: it is cancelled.  Repeat
  /\ Listening /\ state = "RETRY" /\ retry # MAX_RETRIES
  /\ compare(w, buffer)
  /\ same' = TRUE /\ retry' = retry + 1
  /\ buffer' = w       \* the trailing str_cpy undoes the str_clr
  /\ said' = None /\ answers' = answers + 1
  /\ UNCHANGED <<state, flag, rest>>

(* Mutant: the flag of the recorder is not reset. *)
M_LastWord(w) ==
  /\ Listening /\ state = "RETRY" /\ retry = MAX_RETRIES
  /\ state' = "NAME" /\ retry' = 0 /\ said' = None /\ answers' = 0
  /\ buffer' = w
  /\ UNCHANGED <<flag, same, rest>>

LastWord(w) ==         \* one correction too many
  /\ Listening /\ state = "RETRY" /\ retry = MAX_RETRIES
  /\ GiveUp
  /\ buffer' = w       \* the trailing str_cpy
  /\ UNCHANGED <<same, rest>>

(* DETECTOR_STATUS_CANT_DETECT *)
FirstUnclear ==
  /\ Listening /\ state = "COMMAND"
  /\ state' = "RETRY" /\ retry' = 0 /\ buffer' = None /\ same' = FALSE
  /\ said' = None /\ answers' = answers + 1
  /\ UNCHANGED <<flag, rest>>

(* Mutant: the pending command survives an unrecognised correction. *)
M_Unclear ==
  /\ Listening /\ state = "RETRY"
  /\ IF retry = MAX_RETRIES
     THEN GiveUp
     ELSE /\ retry' = retry + 1 /\ said' = None /\ answers' = answers + 1
          /\ UNCHANGED <<state, flag>>
  /\ UNCHANGED <<buffer, same, rest>>

Unclear ==
  /\ Listening /\ state = "RETRY"
  /\ buffer' = None
  /\ IF retry = MAX_RETRIES
     THEN GiveUp
     ELSE /\ retry' = retry + 1 /\ said' = None /\ answers' = answers + 1
          /\ UNCHANGED <<state, flag>>
  /\ UNCHANGED <<same, rest>>

(* DETECTOR_STATUS_NO_FRAGMENT: outside NAME the recorder has a timeout.   *)
(* A command that was not cancelled is sent; otherwise Nodetect.           *)
Pending == buffer # None /\ ~same

TimeoutSend ==
  /\ Listening /\ state # "NAME" /\ Pending
  /\ loop' = "connect"
  /\ UNCHANGED <<state, flag, retry, buffer, same, transactions, volume,
                 connected, said, answers>>

(* Mutant: the dialogue goes on after the command was sent. *)
M_Send ==
  /\ loop = "connect" /\ connected
  /\ sent' = buffer
  /\ buffer' = None
  /\ loop' = "listen" /\ transactions' = 1 - transactions
  /\ UNCHANGED <<state, flag, retry, said, answers, same, volume, connected>>

Send ==                \* BLE_send_data, BLE_add_word, Ok
  /\ loop = "connect" /\ connected
  /\ sent' = buffer
  /\ buffer' = None
  /\ state' = "NAME" /\ flag' = "NAME" /\ retry' = 0 /\ answers' = 0
  /\ loop' = "listen" /\ transactions' = 1 - transactions
  /\ UNCHANGED <<said, same, volume, connected>>

TimeoutGiveUp ==
  /\ Listening /\ state # "NAME" /\ ~Pending
  /\ GiveUp
  /\ transactions' = 1 - transactions
  /\ UNCHANGED <<buffer, same, volume, loop, connected>>

(* NOISE and BAD_CONFIG at any time, any word but the name and             *)
(* CANT_DETECT outside a dialogue: listen again.                           *)
ListenAgain ==
  /\ Listening
  /\ UNCHANGED <<state, flag, retry, buffer, same, rest, said, answers>>

(* An error, after its panic, or the reset button: app() returns ... *)
Leave ==
  /\ Listening
  /\ loop' = "left"
  /\ UNCHANGED <<state, flag, retry, buffer, same, transactions, volume,
                 connected, said, answers>>

(* ... and main() runs it again from the start. *)
Restart ==
  /\ loop = "left"
  /\ state' = "NAME" /\ flag' = "NAME" /\ retry' = 0
  /\ buffer' = None /\ same' = FALSE
  /\ transactions' = 0 /\ volume' = 15 /\ loop' = "listen"
  /\ said' = None /\ answers' = 0 /\ sent' = None
  /\ UNCHANGED connected

Connect ==             \* a BLE central connects ...
  /\ ~connected
  /\ connected' = TRUE /\ sent' = None
  /\ UNCHANGED <<state, flag, retry, buffer, same, transactions, volume,
                 loop, said, answers>>

Disconnect ==          \* ... or leaves
  /\ connected
  /\ connected' = FALSE /\ sent' = None
  /\ UNCHANGED <<state, flag, retry, buffer, same, transactions, volume,
                 loop, said, answers>>

Heard == \E w \in Word :
  FirstWord(w) \/ Correction(w) \/ SameWord(w) \/ LastWord(w)

(* What ends a dialogue or brings it closer to its end. *)
Progress == \/ Cancel \/ Heard \/ FirstUnclear \/ Unclear
            \/ TimeoutSend \/ TimeoutGiveUp \/ Leave

Next == \/ Progress \/ ChangeVolume \/ CommandDirectly
        \/ \E w \in Word : WakeUp(w)
        \/ Send \/ ListenAgain \/ Restart \/ Connect \/ Disconnect

Spec == Init /\ [][Next]_vars

(***************************************************************************)
(* Properties                                                              *)
(***************************************************************************)

(* Every variable has its type; the parity and the volume stay in range.   *)
TypeOK ==
  /\ state \in {"NAME", "COMMAND", "RETRY"} /\ flag \in {"NAME", "COMMAND"}
  /\ retry \in 0 .. MAX_RETRIES
  /\ buffer \in Word \cup {None} /\ same \in BOOLEAN
  /\ transactions \in {0, 1} /\ volume \in 0 .. 255
  /\ loop \in {"listen", "connect", "left"} /\ connected \in BOOLEAN
  /\ said \in Word \cup {None} /\ answers \in 0 .. (MAX_RETRIES + 1)
  /\ sent \in Word \cup {None}

(* The listen button starts a dialogue exactly when there is none, and     *)
(* cancels exactly the dialogue there is: the nine places that change the  *)
(* state and the recorder's flag keep the two in step.                     *)
FlagFollowsState == (flag = "NAME") <=> (state = "NAME")

(* Every answer of the user is counted: a dialogue takes the command and   *)
(* at most MAX_RETRIES corrections, and a new one starts from zero.        *)
AnswersCounted ==
  /\ state = "RETRY" => answers = retry + 1
  /\ state # "RETRY" => answers = 0 /\ retry = 0

(* While the node waits for a central it has a command to send. *)
WaitingToSend == loop = "connect" => state # "NAME" /\ Pending

(* The command that a timeout would send is the word the node has just     *)
(* repeated to the user.                                                   *)
CommandIsConfirmed == state # "NAME" /\ Pending => said = buffer

(* A word goes out over BLE only if the node told the user this word, the  *)
(* user neither repeated it to cancel it nor said anything else since, and *)
(* the dialogue is then over.                                              *)
SentWasConfirmed == sent # None => sent = said /\ ~same /\ state = "NAME"

(* A dialogue is woken by the name or by the button, never left over: the  *)
(* command of an earlier dialogue is not in the buffer of a new one.       *)
NoStaleCommand == state = "COMMAND" => buffer = None /\ ~same

IInv == /\ TypeOK /\ FlagFollowsState /\ AnswersCounted /\ WaitingToSend
        /\ CommandIsConfirmed /\ SentWasConfirmed /\ NoStaleCommand

(* Fairness: the user, the timeout of the recorder or an error eventually  *)
(* answers, although the volume may be changed and noise be heard any      *)
(* number of times in between; a central connects again and again, and     *)
(* stays for the second that wait_for_connection waits.                    *)
Fairness == /\ WF_vars(Progress) /\ WF_vars(Restart)
            /\ WF_vars(Connect) /\ SF_vars(Send)

FairSpec == Spec /\ Fairness

(* Every dialogue ends: the node listens for its name again. *)
DialogueEnds == state # "NAME" ~> state = "NAME"
=============================================================================
