------------------------------- MODULE Profile -------------------------------
(***************************************************************************)
(* From a recording to the profile of a word, as get_word goes through it: *)
(* selectLoud (loud.c), Signal_spectrogram (spectrogram.c), Scale_scaleX   *)
(* (scalex.c).  A recording is the set of the positions of its loud        *)
(* samples; what is kept of the data is which samples and which frames     *)
(* reach which line of the profile.                                        *)
(***************************************************************************)
EXTENDS Integers, FiniteSets

CONSTANTS
  RANGE,   \* MAX_RANGE = 23900 samples
  SELECT,  \* SELECT_SIZE = 5120, the margin
  MIN,     \* MIN_SIZE = 11000
  MAX,     \* MAX_SIZE = 18000
  FFT,     \* FFT_SIZE = 512
  WIDTH,   \* 320 samples that a frame becomes
  LINES,   \* PACKET_SIZE = 64 lines of a profile
  FIXED    \* 2^15: FIXED_POINT_POS

ASSUME ProfileConstantsOK ==
  /\ FFT \in Nat \ {0} /\ WIDTH \in 1 .. FFT
  /\ SELECT \in Nat \ {0} /\ MIN \in Nat /\ MAX \in MIN .. RANGE - 2
  /\ RANGE \in Nat /\ LINES \in Nat \ {0} /\ FIXED \in Nat
  /\ 4 <= MIN /\ MAX \div FFT < LINES /\ LINES <= FIXED

NoDetect == -1
NoFragment == [start |-> 0, stop |-> 0]

-----------------------------------------------------------------------------
(* selectLoud: one sample after the other.  quiet is lena, the number of   *)
(* samples since the last loud one; sector counts up to FFT_SIZE.          *)

(* Mutant: the fragment that is given up leaves its beginning. *)
M_Closed(s) == [s EXCEPT !.quiet = NoDetect]

Closed(s) == [s EXCEPT !.quiet = NoDetect, !.start = 0]

Loud(s, n, loud) ==
  IF ~loud THEN s
  ELSE IF s.quiet = NoDetect
       THEN [s EXCEPT !.start = IF n < SELECT THEN 1 ELSE n - SELECT,
                      !.sector = 0, !.quiet = 0]
  ELSE [s EXCEPT !.quiet = 0]

Quiet(s, n) ==
  IF s.quiet = NoDetect THEN s
  ELSE LET t == [s EXCEPT !.quiet = @ + 1]
       IN  IF t.sector # FFT - 1 \/ t.quiet < SELECT THEN t
           ELSE IF n - t.start \in MIN .. MAX THEN [t EXCEPT !.stop = n]
           ELSE Closed(t)

(* The loop is left when stop is set. *)
Sample(s, n, loud) ==
  IF s.stop # 0 THEN s
  ELSE Quiet(Loud([s EXCEPT !.sector = (@ + 1) % FFT], n, loud), n)

Scan(loud) ==
  LET after[n \in 0 .. RANGE] ==
        IF n = 0 THEN [start |-> 0, stop |-> 0, quiet |-> NoDetect, sector |-> 0]
        ELSE Sample(after[n - 1], n - 1, n - 1 \in loud)
  IN  after

selectLoud(loud) ==
  LET s    == Scan(loud)[RANGE]
      stop == IF s.stop = 0 THEN RANGE - 1 ELSE s.stop
  IN  IF s.stop = 0 /\ stop - s.start \notin MIN .. MAX THEN NoFragment
      ELSE [start |-> s.start, stop |-> stop]

(* What is copied to the beginning of the table: a multiple of four. *)
Length(f) == 4 * ((f.stop - f.start) \div 4)

-----------------------------------------------------------------------------
(* Signal_spectrogram: a frame every FFT samples, while the table has room *)
Frames(len) ==
  LET wanted == (len + FFT - 1) \div FFT
      room   == (RANGE + WIDTH - 1) \div WIDTH
  IN  IF wanted <= room THEN wanted ELSE room

-----------------------------------------------------------------------------
(* Scale_scaleX: the lines of the profile that frame n becomes *)

(* Mutant: without the fixed point. *)
M_Lines(frames, n) ==
  LET delta == LINES \div frames
  IN  n * delta .. (n + 1) * delta - 1

Lines(frames, n) ==
  LET delta == (LINES * FIXED) \div frames
  IN  {k \in 0 .. LINES - 1 : k \in (n * delta) \div FIXED
                                    .. ((n + 1) * delta) \div FIXED - 1}

-----------------------------------------------------------------------------
(* What the properties say of a fragment f of a recording, and of the      *)
(* profile that is made of it.                                             *)
Opens(f, loud, s) ==
  /\ s \in loud
  /\ f.start = IF s < SELECT THEN 1 ELSE s - SELECT
  /\ \A t \in loud : t < s => s - t >= SELECT

Ends(f, loud) ==
  \/ f.stop = RANGE - 1
  \/ \A t \in loud : t \notin f.stop - SELECT + 2 .. f.stop

Near(loud, k) == \E t \in loud : t \in k - SELECT - FFT + 2 .. k

Utterance(f, loud) ==
  /\ Ends(f, loud) /\ f.stop - f.start \in MIN .. MAX
  /\ \E s \in loud : /\ Opens(f, loud, s)
                     /\ \A k \in s .. f.stop : Near(loud, k)

Filled(frames) ==
  /\ \A k \in 0 .. LINES - 2 :
       Cardinality({f \in 0 .. frames - 1 : k \in Lines(frames, f)}) = 1
  /\ \A f \in 0 .. frames - 1 : Lines(frames, f) # {}
=============================================================================
