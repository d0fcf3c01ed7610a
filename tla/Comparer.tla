------------------------------ MODULE Comparer ------------------------------
(***************************************************************************)
(* AI_compare (ai.c) and the part of HDL/AI/Comparer it talks to: a core   *)
(* for each card, the collector of their interrupts, the sticky errors.    *)
(*                                                                         *)
(* AI_compare is a subroutine of the program: it is entered at "compare"   *)
(* and leaves compared with pc = "compared".                               *)
(***************************************************************************)
EXTENDS Disk

CONSTANTS
  SPECTS,    \* AI_SPECTS_AMOUNT = 8 categories
  DIFFS,     \* DIFF_MAX_SPECTS = 8 differences that are counted
  Outcomes   \* what AI_RESULT and the eight sums may show

ASSUME ComparerConstantsOK ==
  /\ SPECTS \in Nat \ {0} /\ DIFFS \in Nat
  /\ \A o \in Outcomes :
       /\ o.result \in Nat /\ Len(o.sums) \in Nat
       /\ \A i \in 1 .. Len(o.sums) : o.sums[i].delta \in Nat

VARIABLES
  core,        \* whether a card's core reads, and what AI_final found last
  bits,        \* i1 to i4 of AI_interrupt
  errs,        \* AI_status
  ai_irq,
  ai_flag,
  compared,    \* what AI_compare returned
  overflowed   \* history: a comparison was left for an overflow

chip     == <<core, bits, errs, ai_irq>>
comparer == <<chip, ai_flag, compared, overflowed>>

Cores == 1 .. CARDS
Reading == {c \in Cores : core[c] = "reading"}
NotCompared == [state |-> "none", decision |-> 0, score |-> 0]

ComparerInit ==
  /\ core = [c \in Cores |-> "idle"] /\ bits = {} /\ errs = {} /\ ai_irq = 0
  /\ ai_flag = "DOWN" /\ compared = NotCompared
  /\ overflowed = FALSE

-----------------------------------------------------------------------------
(* Hardware *)

(* An assumption about time: AI_final waits for 500000 cycles without data *)
(* before it ends a core, the program lowers its flag a few instructions   *)
(* after the start.                                                        *)
FlagIsLowered == pc # "compare_flag"

(* AI_interrupt clears its bits when all are set, and only then. *)
CoreEnds(c, whole) ==
  /\ core[c] = "reading" /\ FlagIsLowered
  /\ core' = [core EXCEPT ![c] = "idle"]
  /\ errs' = IF whole THEN errs ELSE errs \cup {"nde"}
  /\ IF bits \cup {c} = Cores THEN bits' = {} /\ ai_irq' = 1
     ELSE bits' = bits \cup {c} /\ UNCHANGED ai_irq

(* The stream is stopped, so the core will end as well. *)
CoreFails(c, e) ==
  /\ core[c] = "reading" /\ e \notin errs
  /\ errs' = errs \cup {e}
  /\ UNCHANGED <<core, bits, ai_irq>>

ai_isr ==
  /\ ai_irq = 1
  /\ ai_flag' = "UP" /\ ai_irq' = 0
  /\ UNCHANGED <<core, bits, errs, compared, overflowed>>

-----------------------------------------------------------------------------
(* AI_compare *)

(* The last of the registers, AI_REG, starts every core and the errors     *)
(* anew, but not the interrupt's bits.                                     *)
CompareStart ==
  /\ pc = "compare" /\ pc' = "compare_flag"
  /\ core' = [c \in Cores |-> "reading"] /\ errs' = {}
  /\ UNCHANGED <<bits, ai_irq, ai_flag, compared, overflowed>>

(* Mutant: the flag is left as the last comparison left it. *)
M_CompareFlag ==
  /\ pc = "compare_flag" /\ pc' = "compare_wait"
  /\ UNCHANGED comparer

CompareFlag ==
  /\ pc = "compare_flag" /\ pc' = "compare_wait"
  /\ ai_flag' = "DOWN"
  /\ UNCHANGED <<chip, compared, overflowed>>

CompareLook ==
  /\ pc = "compare_wait" /\ ai_flag = "DOWN" /\ pc' = "compare_errors"
  /\ UNCHANGED comparer

(* Mutant: the flag is lowered in the loop. *)
M_CompareAgain ==
  /\ pc = "compare_errors" /\ errs = {} /\ pc' = "compare_wait"
  /\ ai_flag' = "DOWN"
  /\ UNCHANGED <<chip, compared, overflowed>>

CompareAgain ==
  /\ pc = "compare_errors" /\ errs = {} /\ pc' = "compare_wait"
  /\ UNCHANGED comparer

(* Another error than an overflow, the first one the program looks for. *)
ErrorState == IF "crc" \in errs THEN "DISK_ERROR"
              ELSE IF "tmr" \in errs THEN "NO_DISK_DETECT"
              ELSE IF "nde" \in errs THEN "DISK_ERROR"
              ELSE "FIFO_OVERFLOW"

CompareError ==
  /\ pc = "compare_errors" /\ errs # {} /\ pc' = "compared"
  /\ compared' = [NotCompared EXCEPT !.state = ErrorState]
  /\ overflowed' = (overflowed \/ ErrorState = "FIFO_OVERFLOW")
  /\ UNCHANGED <<chip, ai_flag>>

(* The loop over the sums, which ends when there are enough of them. *)
Counted(sums, r) ==
  LET upTo[i \in 0 .. Len(sums)] ==
        IF i = 0 THEN [diff |-> 0, number |-> 0, last |-> 0]
        ELSE LET s == upTo[i - 1]
             IN  IF sums[i].spect # r \/ s.number = DIFFS THEN s
                 ELSE [diff   |-> s.diff + sums[i].delta,
                       number |-> s.number + 1, last |-> sums[i].delta]
  IN  upTo

(* The differences of the decided category, the last of them repeated. *)
count_diffrence(sums, r) ==
  LET counted == Counted(sums, r)[Len(sums)]
  IN  counted.diff + (DIFFS - counted.number) * counted.last

(* A category is numbered by AI_category as its spectra are read. *)
CompareDone(spects) ==
  /\ pc = "compare_wait" /\ ai_flag = "UP" /\ pc' = "compared"
  /\ \E o \in Outcomes :
       /\ o.result < spects \/ o.result >= SPECTS
       /\ compared' =
            IF o.result < SPECTS
            THEN [state |-> "OK", decision |-> o.result,
                  score |-> count_diffrence(o.sums, o.result)]
            ELSE [state |-> "CANT_DETECT", decision |-> 0, score |-> 0]
  /\ UNCHANGED <<chip, ai_flag, overflowed>>

AI_compare(spects) == \/ CompareStart \/ CompareFlag \/ CompareLook
                      \/ CompareAgain \/ CompareError \/ CompareDone(spects)

-----------------------------------------------------------------------------
ComparerType ==
  /\ core \in [Cores -> {"idle", "reading"}] /\ bits \subseteq Cores
  /\ errs \subseteq {"crc", "tmr", "nde", "fifo"} /\ ai_irq \in {0, 1}
  /\ ai_flag \in {"UP", "DOWN"}
  /\ overflowed \in BOOLEAN
  /\ compared \in [state : {"none", "OK", "CANT_DETECT", "DISK_ERROR",
                            "NO_DISK_DETECT", "FIFO_OVERFLOW"},
                   decision : 0 .. SPECTS - 1, score : Nat]
=============================================================================
