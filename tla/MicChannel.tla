----------------------------- MODULE MicChannel -----------------------------
(***************************************************************************)
(* What the software sample queue of the microphone promises to the        *)
(* recorder: while it is intact it is a bounded first-in first-out channel *)
(* that loses no sample its producer (the interrupt handler) has put into  *)
(* it, and whose consumer takes the oldest one.  While it is being         *)
(* (re)initialised, or after samples arrived in the middle of a            *)
(* re-initialisation, nothing is promised.                                 *)
(***************************************************************************)
EXTENDS Naturals, Sequences

CONSTANTS Sample,    \* the values a sample can have
          Capacity   \* STANDARD_QUEUE_SIZE

VARIABLES q,         \* the samples queued, oldest first
          intact,    \* the channel promises something
          taken      \* the sample the consumer took last

vars == <<q, intact, taken>>

Init == q = << >> /\ ~intact /\ taken \in Sample

Put(s) == /\ intact
          /\ Len(q) < Capacity
          /\ q' = Append(q, s)
          /\ UNCHANGED <<intact, taken>>

Take == /\ intact
        /\ q # << >>
        /\ taken' = Head(q)
        /\ q' = Tail(q)
        /\ UNCHANGED intact

(* The consumer starts to initialise the channel again. *)
Break == /\ intact /\ ~intact'
         /\ q' = << >>
         /\ UNCHANGED taken

(* Initialised without interference: an empty channel. *)
Ready == /\ ~intact /\ intact'
         /\ UNCHANGED <<q, taken>>

(* A channel that is not intact may deliver anything. *)
Anything == /\ ~intact
            /\ taken' \in Sample
            /\ UNCHANGED <<q, intact>>

Next == (\E s \in Sample : Put(s)) \/ Take \/ Break \/ Ready \/ Anything

Spec == Init /\ [][Next]_vars
=============================================================================
