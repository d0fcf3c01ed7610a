---------------------------- MODULE Profile_proofs ----------------------------
(***************************************************************************)
(* What selectLoud and Scale_scaleX compute, for every recording and every *)
(* value of the sizes, and the induction over data that this rests on.     *)
(***************************************************************************)
EXTENDS Profile, FiniteSetTheorems, WellFoundedInduction, TLAPS

(* Induction, with a set in the place of a predicate: the initial segments *)
(* of Nat that end outside the set have no smallest one.                   *)
LEMMA Induction ==
  ASSUME NEW S, 0 \in S, \A n \in Nat : n \in S => n + 1 \in S
  PROVE  \A n \in Nat : n \in S
<1> SUFFICES ASSUME NEW n \in Nat, n \notin S PROVE FALSE
  OBVIOUS
<1> DEFINE T == {0 .. k : k \in Nat \ S}
<1>1. T # {}
  OBVIOUS
<1>2. T \subseteq FiniteSubsetsOf(Nat)
  <2> SUFFICES ASSUME NEW k \in Nat PROVE 0 .. k \in FiniteSubsetsOf(Nat)
    OBVIOUS
  <2>1. IsFiniteSet(0 .. k)
    BY FS_Interval
  <2>2. 0 .. k \subseteq Nat
    OBVIOUS
  <2> QED
    BY <2>1, <2>2 DEF FiniteSubsetsOf
<1>3. PICK t \in T : \A u \in T : ~ (<<u, t>> \in StrictSubsetOrdering(Nat))
  <2> HIDE DEF T
  <2>1. IsWellFoundedOn(StrictSubsetOrdering(Nat), FiniteSubsetsOf(Nat))
    BY FS_StrictSubsetOrderingWellFounded
  <2> QED
    BY <1>1, <1>2, <2>1, WFMin, Zenon
<1>4. PICK m \in Nat : m \notin S /\ t = 0 .. m
  OBVIOUS
<1>5. m - 1 \in Nat /\ m - 1 \notin S
  BY <1>4
<1>6. 0 .. m - 1 \in T
  BY <1>5
<1>7. <<0 .. m - 1, t>> \in StrictSubsetOrdering(Nat)
  <2>1. /\ 0 .. m - 1 \subseteq 0 .. m /\ m \in 0 .. m /\ m \notin 0 .. m - 1
        /\ 0 .. m \subseteq Nat
    BY <1>4, <1>5
  <2>2. 0 .. m - 1 # 0 .. m
    BY <2>1
  <2> QED
    BY <1>4, <2>1, <2>2 DEF StrictSubsetOrdering
<1> QED
  BY <1>3, <1>6, <1>7

(* Induction up to a bound. *)
LEMMA InductionTo ==
  ASSUME NEW N \in Nat, NEW S, 0 \in S,
         \A n \in 1 .. N : n - 1 \in S => n \in S
  PROVE  \A n \in 0 .. N : n \in S
<1> DEFINE T == S \cup {n \in Nat : n > N}
<1>1. 0 \in T
  OBVIOUS
<1>2. ASSUME NEW n \in Nat, n \in T PROVE n + 1 \in T
  <2>1. CASE n + 1 > N
    BY <2>1
  <2>2. CASE n + 1 <= N
    <3>1. n + 1 \in 1 .. N /\ (n + 1) - 1 = n /\ n \in S
      BY <1>2, <2>2
    <3> QED
      BY <3>1
  <2> QED
    BY <2>1, <2>2
<1>3. \A n \in Nat : n \in T
  <2> HIDE DEF T
  <2> QED
    BY <1>1, <1>2, Induction
<1> QED
  BY <1>3

-----------------------------------------------------------------------------
(* A recursive function exists when its body leaves the set of its values  *)
(* nowhere; g is the one of the body F that begins with v.                 *)
Recurs(g, N, v, F) ==
  /\ g[0] = v
  /\ \A n \in 1 .. N : g[n] = F[<<n, g[n - 1]>>]

LEMMA Recursion ==
  ASSUME NEW V, NEW v \in V, NEW N \in Nat, NEW F \in [Nat \X V -> V]
  PROVE  \E g \in [0 .. N -> V] : Recurs(g, N, v, F)
<1> USE DEF Recurs
<1> DEFINE G(m) == {g \in [0 .. m -> V] : Recurs(g, m, v, F)}
           S == {m \in Nat : G(m) # {}}
<1>1. 0 \in S
  <2>1. [i \in 0 .. 0 |-> v] \in G(0)
    OBVIOUS
  <2> QED
    BY <2>1
<1>2. ASSUME NEW m \in Nat, m \in S PROVE m + 1 \in S
  <2>1. PICK g \in G(m) : TRUE
    BY <1>2
  <2> DEFINE w == F[<<m + 1, g[m]>>]
             h == [i \in 0 .. m + 1 |-> IF i = m + 1 THEN w ELSE g[i]]
  <2>2. w \in V
    BY <2>1
  <2>3. h \in [0 .. m + 1 -> V]
    BY <2>1, <2>2
  <2>4. h[0] = v
    BY <2>1
  <2>5. ASSUME NEW n \in 1 .. m + 1 PROVE h[n] = F[<<n, h[n - 1]>>]
    <3>1. CASE n = m + 1
      <4>1. /\ n - 1 = m /\ n \in 0 .. m + 1
            /\ m \in 0 .. m + 1 /\ m # m + 1
        BY <3>1
      <4>2. h[n] = w /\ h[m] = g[m]
        BY <3>1, <4>1
      <4> QED
        BY <3>1, <4>1, <4>2
    <3>2. CASE n # m + 1
      <4>1. /\ n \in 1 .. m /\ n \in 0 .. m + 1
            /\ n - 1 \in 0 .. m + 1 /\ n - 1 # m + 1
        BY <3>2
      <4>2. h[n] = g[n] /\ h[n - 1] = g[n - 1]
        BY <3>2, <4>1
      <4> QED
        BY <2>1, <4>1, <4>2
    <3> QED
      BY <3>1, <3>2
  <2> HIDE DEF h
  <2>6. h \in G(m + 1)
    BY <2>3, <2>4, <2>5
  <2> HIDE DEF G
  <2>7. G(m + 1) # {} /\ m + 1 \in Nat
    BY <2>6
  <2> QED
    BY <2>7
<1>3. N \in S
  <2> HIDE DEF S
  <2> QED
    BY <1>1, <1>2, Induction
<1> QED
  BY <1>3

-----------------------------------------------------------------------------
(* selectLoud *)
Begin == [start |-> 0, stop |-> 0, quiet |-> NoDetect, sector |-> 0]
States == [start : Int, stop : Int, quiet : Int, sector : Int]

State(b, e, q, c) == [start |-> b, stop |-> e, quiet |-> q, sector |-> c]

LEMMA StateFields ==
  ASSUME NEW s \in States
  PROVE  s = State(s.start, s.stop, s.quiet, s.sector)
BY DEF States, State

LEMMA FieldsOf ==
  ASSUME NEW b, NEW e, NEW q, NEW c
  PROVE  /\ State(b, e, q, c).start = b /\ State(b, e, q, c).stop = e
         /\ State(b, e, q, c).quiet = q /\ State(b, e, q, c).sector = c
BY DEF State

LEMMA ClosedIs ==
  ASSUME NEW b, NEW e, NEW q, NEW c
  PROVE  Closed(State(b, e, q, c)) = State(0, e, NoDetect, c)
<1>1. Closed(State(b, e, q, c)) =
        [[State(b, e, q, c) EXCEPT !.quiet = NoDetect] EXCEPT !.start = 0]
  BY DEF Closed, State
<1>2. /\ [State(b, e, q, c) EXCEPT !.quiet = NoDetect]
           = State(b, e, NoDetect, c)
      /\ [State(b, e, NoDetect, c) EXCEPT !.start = 0]
           = State(0, e, NoDetect, c)
  BY DEF State
<1> QED
  BY ONLY <1>1, <1>2

LEMMA LoudIs ==
  ASSUME NEW b, NEW e, NEW q, NEW c, NEW n, NEW loud
  PROVE  Loud(State(b, e, q, c), n, n \in loud) =
           IF n \notin loud THEN State(b, e, q, c)
           ELSE IF q = NoDetect
                THEN State(IF n < SELECT THEN 1 ELSE n - SELECT, e, 0, 0)
           ELSE State(b, e, 0, c)
<1> DEFINE s == State(b, e, q, c)
           x == IF n < SELECT THEN 1 ELSE n - SELECT
<1>1. s.quiet = q
  BY FieldsOf
<1>2. /\ [s EXCEPT !.quiet = 0] = State(b, e, 0, c)
      /\ [s EXCEPT !.start = x, !.sector = 0, !.quiet = 0] = State(x, e, 0, 0)
  <2>1. [s EXCEPT !.quiet = 0] = State(b, e, 0, c)
    BY DEF State
  <2>2. [s EXCEPT !.start = x, !.sector = 0, !.quiet = 0] =
          [[[s EXCEPT !.start = x] EXCEPT !.sector = 0] EXCEPT !.quiet = 0]
    BY DEF State
  <2>3. /\ [s EXCEPT !.start = x] = State(x, e, q, c)
        /\ [State(x, e, q, c) EXCEPT !.sector = 0] = State(x, e, q, 0)
        /\ [State(x, e, q, 0) EXCEPT !.quiet = 0] = State(x, e, 0, 0)
    BY DEF State
  <2> HIDE DEF s, x
  <2> QED
    BY ONLY <2>1, <2>2, <2>3
<1>3. Loud(s, n, n \in loud) =
        IF n \notin loud THEN s
        ELSE IF s.quiet = NoDetect
             THEN [s EXCEPT !.start = x, !.sector = 0, !.quiet = 0]
        ELSE [s EXCEPT !.quiet = 0]
  BY DEF Loud
<1> HIDE DEF s, x
<1>4. Loud(s, n, n \in loud) =
        IF n \notin loud THEN s
        ELSE IF q = NoDetect THEN State(x, e, 0, 0)
        ELSE State(b, e, 0, c)
  BY ONLY <1>1, <1>2, <1>3
<1> QED
  BY <1>4 DEF s, x

LEMMA QuietIs ==
  ASSUME NEW b, NEW e, NEW q, NEW c, NEW n
  PROVE  Quiet(State(b, e, q, c), n) =
           IF q = NoDetect THEN State(b, e, q, c)
           ELSE IF c # FFT - 1 \/ q + 1 < SELECT THEN State(b, e, q + 1, c)
           ELSE IF n - b \in MIN .. MAX THEN State(b, n, q + 1, c)
           ELSE State(0, e, NoDetect, c)
<1> DEFINE s == State(b, e, q, c)
           t == State(b, e, q + 1, c)
<1>1. s.quiet = q /\ t.start = b /\ t.quiet = q + 1 /\ t.sector = c
  BY FieldsOf
<1>2. /\ [s EXCEPT !.quiet = s.quiet + 1] = t
      /\ [t EXCEPT !.stop = n] = State(b, n, q + 1, c)
      /\ Closed(t) = State(0, e, NoDetect, c)
  <2>1. [s EXCEPT !.quiet = q + 1] = t
    BY DEF State
  <2>2. [t EXCEPT !.stop = n] = State(b, n, q + 1, c)
    BY DEF State
  <2>3. Closed(t) = State(0, e, NoDetect, c)
    BY ClosedIs
  <2> HIDE DEF s, t
  <2> QED
    BY ONLY <1>1, <2>1, <2>2, <2>3
<1>3. Quiet(s, n) =
        IF s.quiet = NoDetect THEN s
        ELSE IF t.sector # FFT - 1 \/ t.quiet < SELECT THEN t
        ELSE IF n - t.start \in MIN .. MAX THEN [t EXCEPT !.stop = n]
        ELSE Closed(t)
  <2> HIDE DEF s, t
  <2> QED
    BY <1>2 DEF Quiet
<1> HIDE DEF s, t
<1>4. Quiet(s, n) =
        IF q = NoDetect THEN s
        ELSE IF c # FFT - 1 \/ q + 1 < SELECT THEN t
        ELSE IF n - b \in MIN .. MAX THEN State(b, n, q + 1, c)
        ELSE State(0, e, NoDetect, c)
  BY ONLY <1>1, <1>2, <1>3
<1> QED
  BY <1>4 DEF s, t

(* The state s after sample n of a recording. *)
Taken(s, n, loud) == Sample(s, n, n \in loud)

LEMMA SampleIs ==
  ASSUME NEW b, NEW e, NEW q, NEW c, NEW n, NEW loud
  PROVE  Taken(State(b, e, q, c), n, loud) =
           IF e # 0 THEN State(b, e, q, c)
           ELSE Quiet(Loud(State(b, e, q, (c + 1) % FFT), n, n \in loud), n)
<1> DEFINE s == State(b, e, q, c)
           t == State(b, e, q, (c + 1) % FFT)
<1>1. s.stop = e /\ s.sector = c /\ [s EXCEPT !.sector = (c + 1) % FFT] = t
  BY DEF State
<1>2. Taken(s, n, loud) =
        IF s.stop # 0 THEN s
        ELSE Quiet(Loud([s EXCEPT !.sector = (s.sector + 1) % FFT],
                        n, n \in loud), n)
  BY DEF Sample, Taken
<1> HIDE DEF s, t
<1>3. Taken(s, n, loud) =
        IF e # 0 THEN s ELSE Quiet(Loud(t, n, n \in loud), n)
  BY ONLY <1>1, <1>2
<1> QED
  BY <1>3 DEF s, t

(* One sample, in the cases of the code: it is quiet, it is the first loud *)
(* one, or one of more; then no utterance is going on, or it goes on, or   *)
(* it is complete, or it is given up.                                      *)
Counts(b, q, c, n, loud, b1, q1, c1) ==
  \/ n \notin loud /\ b1 = b /\ q1 = q /\ c1 = (c + 1) % FFT
  \/ /\ n \in loud /\ q = NoDetect /\ q1 = 0 /\ c1 = 0
     /\ b1 = IF n < SELECT THEN 1 ELSE n - SELECT
  \/ n \in loud /\ q # NoDetect /\ q1 = 0 /\ b1 = b /\ c1 = (c + 1) % FFT

Outcome(b, q, c, n) ==
  IF q = NoDetect THEN State(b, 0, q, c)
  ELSE IF c # FFT - 1 \/ q + 1 < SELECT THEN State(b, 0, q + 1, c)
  ELSE IF n - b \in MIN .. MAX THEN State(b, n, q + 1, c)
  ELSE State(0, 0, NoDetect, c)

LEMMA SampleCases ==
  ASSUME NEW b \in Int, NEW q \in Int, NEW c \in Int, NEW n \in Int, NEW loud
  PROVE  \E b1 \in Int, q1 \in Int, c1 \in Int :
           /\ Counts(b, q, c, n, loud, b1, q1, c1)
           /\ Taken(State(b, 0, q, c), n, loud) = Outcome(b1, q1, c1, n)
<1> USE ProfileConstantsOK
<1> DEFINE d == (c + 1) % FFT
           x == IF n < SELECT THEN 1 ELSE n - SELECT
           S == Taken(State(b, 0, q, c), n, loud)
<1>1. d \in Int /\ x \in Int /\ 0 \in Int
  OBVIOUS
<1>2. S = Quiet(Loud(State(b, 0, q, d), n, n \in loud), n)
  BY SampleIs
<1>3. Loud(State(b, 0, q, d), n, n \in loud) =
        IF n \notin loud THEN State(b, 0, q, d)
        ELSE IF q = NoDetect THEN State(x, 0, 0, 0)
        ELSE State(b, 0, 0, d)
  BY LoudIs
<1> HIDE DEF d, x, S
<1>4. CASE n \notin loud
  <2>1. S = Quiet(State(b, 0, q, d), n)
    BY <1>2, <1>3, <1>4
  <2>2. Quiet(State(b, 0, q, d), n) = Outcome(b, q, d, n)
    BY QuietIs DEF Outcome
  <2> QED
    BY <1>1, <1>4, <2>1, <2>2 DEF d, S, Counts
<1>5. CASE n \in loud /\ q = NoDetect
  <2>1. S = Quiet(State(x, 0, 0, 0), n)
    BY <1>2, <1>3, <1>5
  <2>2. Quiet(State(x, 0, 0, 0), n) = Outcome(x, 0, 0, n)
    BY QuietIs DEF Outcome
  <2> QED
    BY <1>1, <1>5, <2>1, <2>2 DEF x, S, Counts
<1>6. CASE n \in loud /\ q # NoDetect
  <2>1. S = Quiet(State(b, 0, 0, d), n)
    BY <1>2, <1>3, <1>6
  <2>2. Quiet(State(b, 0, 0, d), n) = Outcome(b, 0, d, n)
    BY QuietIs DEF Outcome
  <2> QED
    BY <1>1, <1>6, <2>1, <2>2 DEF d, S, Counts
<1> QED
  BY <1>4, <1>5, <1>6

LEMMA SampleType ==
  ASSUME NEW s \in States, NEW n \in Int, NEW loud
  PROVE  Taken(s, n, loud) \in States
<1>1. PICK b \in Int, e \in Int, q \in Int, c \in Int : s = State(b, e, q, c)
  BY StateFields DEF States
<1>2. \A x, y, z, w \in Int : State(x, y, z, w) \in States
  BY DEF State, States
<1>3. CASE e # 0
  BY <1>1, <1>3, SampleIs
<1>4. CASE e = 0
  <2>1. PICK b1 \in Int, q1 \in Int, c1 \in Int :
          Taken(State(b, 0, q, c), n, loud) = Outcome(b1, q1, c1, n)
    BY SampleCases
  <2>2. 0 \in Int /\ q1 + 1 \in Int /\ NoDetect \in Int
    BY DEF NoDetect
  <2> QED
    BY <1>1, <1>2, <1>4, <2>1, <2>2 DEF Outcome
<1> QED
  BY <1>3, <1>4

(* The states that the scan of a recording goes through. *)
LEMMA ScanSteps ==
  ASSUME NEW loud
  PROVE  /\ Scan(loud)[0] = Begin
         /\ \A n \in 1 .. RANGE :
              Scan(loud)[n] = Taken(Scan(loud)[n - 1], n - 1, loud)
<1> USE ProfileConstantsOK
<1> DEFINE F == [p \in Nat \X States |->
                   Taken(p[2], p[1] - 1, loud)]
<1>1. F \in [Nat \X States -> States]
  BY SampleType
<1>2. Begin \in States
  BY DEF Begin, States, NoDetect
<1>3. PICK g \in [0 .. RANGE -> States] : Recurs(g, RANGE, Begin, F)
  <2> HIDE DEF F
  <2> QED
    BY <1>1, <1>2, Recursion
<1>4. g = [n \in 0 .. RANGE |->
             IF n = 0 THEN Begin ELSE Taken(g[n - 1], n - 1, loud)]
  <2>1. ASSUME NEW n \in 1 .. RANGE
        PROVE  g[n] = Taken(g[n - 1], n - 1, loud)
    <3>1. <<n, g[n - 1]>> \in Nat \X States
      OBVIOUS
    <3> QED
      BY <1>3, <3>1 DEF Recurs
  <2>2. g[0] = Begin
    BY <1>3 DEF Recurs
  <2> QED
    BY <2>1, <2>2
<1>5. Scan(loud) = [n \in 0 .. RANGE |->
                      IF n = 0 THEN Begin
                      ELSE Taken(Scan(loud)[n - 1], n - 1, loud)]
  BY <1>4, Zenon DEF Scan, Begin, Taken
<1> QED
  BY <1>5

(* What holds of the state (b, e, q, c) before sample n: nobody speaks, and *)
(* a margin before n was quiet; or an utterance goes on, whose last loud    *)
(* sample was q samples ago; or one is complete.                            *)
Waits(b, q, loud, n) ==
  /\ q = NoDetect /\ b = 0
  /\ \A t \in loud : t < n => n - t >= SELECT

Spoken(b, loud, n) ==
  \E o \in loud : /\ o < n /\ Opens([start |-> b], loud, o)
                  /\ \A k \in o .. n - 1 : Near(loud, k)

Speaks(b, q, c, loud, n) ==
  /\ q \in Nat \ {0} /\ n - q \in loud
  /\ \A t \in loud : t < n => t <= n - q
  /\ q >= SELECT => c >= q - SELECT
  /\ Spoken(b, loud, n)

Complete(b, e, loud, n) ==
  /\ e \in 1 .. n - 1 /\ e - b \in MIN .. MAX /\ Spoken(b, loud, e + 1)
  /\ \A t \in loud : t \notin e - SELECT + 2 .. e

Scanned(b, e, q, c, loud, n) ==
  /\ b \in 0 .. RANGE - 1 /\ c \in 0 .. FFT - 1
  /\ \/ e = 0 /\ Waits(b, q, loud, n)
     \/ /\ e = 0 /\ Speaks(b, q, c, loud, n)
        /\ q >= SELECT => c # FFT - 1
     \/ Complete(b, e, loud, n)

LEMMA OpenedRange ==
  ASSUME NEW b, NEW loud \in SUBSET (0 .. RANGE - 1), NEW o \in loud,
         Opens([start |-> b], loud, o)
  PROVE  b \in 0 .. RANGE - 1
BY ProfileConstantsOK DEF Opens

LEMMA Counter ==
  ASSUME NEW c \in 0 .. FFT - 1
  PROVE  (c + 1) % FFT = IF c = FFT - 1 THEN 0 ELSE c + 1
<1> USE ProfileConstantsOK
<1>1. CASE c = FFT - 1
  BY <1>1
<1>2. CASE c # FFT - 1
  BY <1>2
<1> QED
  BY <1>1, <1>2

(* A sample while nobody speaks. *)
LEMMA WaitsStep ==
  ASSUME NEW loud \in SUBSET (0 .. RANGE - 1), NEW n \in 0 .. RANGE - 1,
         NEW b, NEW q \in Int, NEW c \in 0 .. FFT - 1,
         Waits(b, q, loud, n), 
         NEW b1 \in Int, NEW q1 \in Int, NEW c1 \in Int,
         Counts(b, q, c, n, loud, b1, q1, c1)
  PROVE  /\ c1 \in 0 .. FFT - 1 /\ b1 \in 0 .. RANGE - 1
         /\ \/ Waits(b1, q1, loud, n + 1)
            \/ q1 # NoDetect /\ Speaks(b1, q1 + 1, c1, loud, n + 1)
<1> USE ProfileConstantsOK
<1>1. (c + 1) % FFT \in 0 .. FFT - 1
  BY Counter
<1>2. CASE n \notin loud
  <2>1. b1 = b /\ q1 = q /\ c1 \in 0 .. FFT - 1
    BY <1>1, <1>2 DEF Counts
  <2>2. Waits(b1, q1, loud, n + 1)
    <3>1. ASSUME NEW t \in loud, t < n + 1 PROVE (n + 1) - t >= SELECT
      <4>1. t < n /\ t \in Int
        BY <1>2, <3>1
      <4> QED
        BY <4>1 DEF Waits
    <3> QED
      BY <2>1, <3>1 DEF Waits
  <2> QED
    BY <2>1, <2>2 DEF Waits
<1>3. CASE n \in loud
  <2>1. b1 = (IF n < SELECT THEN 1 ELSE n - SELECT) /\ q1 = 0 /\ c1 = 0
    BY <1>3 DEF Counts, Waits
  <2>2. Opens([start |-> b1], loud, n)
    BY <1>3, <2>1 DEF Opens, Waits
  <2>3. \A k \in n .. (n + 1) - 1 : Near(loud, k)
    <3>1. n \in n - SELECT - FFT + 2 .. n
      OBVIOUS
    <3> QED
      BY <1>3, <3>1 DEF Near
  <2>4. Speaks(b1, q1 + 1, c1, loud, n + 1)
    BY <1>3, <2>1, <2>2, <2>3 DEF Speaks, Spoken
  <2> QED
    BY <1>3, <2>1, <2>2, <2>4, OpenedRange DEF NoDetect
<1> QED
  BY <1>2, <1>3

(* A sample of an utterance. *)
LEMMA SpeaksStep ==
  ASSUME NEW loud \in SUBSET (0 .. RANGE - 1), NEW n \in 0 .. RANGE - 1,
         NEW b \in 0 .. RANGE - 1, NEW q \in Int, NEW c \in 0 .. FFT - 1,
         Speaks(b, q, c, loud, n), q >= SELECT => c # FFT - 1,
         NEW b1 \in Int, NEW q1 \in Int, NEW c1 \in Int,
         Counts(b, q, c, n, loud, b1, q1, c1)
  PROVE  /\ c1 \in 0 .. FFT - 1 /\ b1 = b
         /\ q1 # NoDetect /\ Speaks(b1, q1 + 1, c1, loud, n + 1)
<1> USE ProfileConstantsOK
<1>1. /\ q1 = IF n \in loud THEN 0 ELSE q
      /\ b1 = b /\ c1 = IF c = FFT - 1 THEN 0 ELSE c + 1
      /\ q \in Nat \ {0}
  BY Counter DEF Counts, Speaks, NoDetect
<1>2. Near(loud, n)
  <2>1. CASE n \in loud
    <3>1. n \in n - SELECT - FFT + 2 .. n
      OBVIOUS
    <3> QED
      BY <2>1, <3>1 DEF Near
  <2>2. CASE n \notin loud
    <3>1. n - q \in n - SELECT - FFT + 2 .. n
      BY <1>1 DEF Speaks
    <3> QED
      BY <3>1 DEF Near, Speaks
  <2> QED
    BY <2>1, <2>2
<1>3. Spoken(b1, loud, n + 1)
  <2>1. PICK o \in loud : /\ o < n /\ Opens([start |-> b], loud, o)
                          /\ \A k \in o .. n - 1 : Near(loud, k)
    BY DEF Speaks, Spoken
  <2>2. o < n + 1 /\ \A k \in o .. (n + 1) - 1 : Near(loud, k)
    BY <1>2, <2>1
  <2> QED
    BY <1>1, <2>1, <2>2 DEF Spoken
<1>4. q1 + 1 \in Nat \ {0} /\ (n + 1) - (q1 + 1) \in loud
  BY <1>1 DEF Speaks
<1>5. ASSUME NEW t \in loud, t < n + 1 PROVE t <= (n + 1) - (q1 + 1)
  <2>1. CASE n \in loud
    BY <1>1, <1>5, <2>1
  <2>2. CASE n \notin loud
    <3>1. t < n
      BY <1>5, <2>2
    <3> QED
      BY <1>1, <2>2, <3>1 DEF Speaks
  <2> QED
    BY <2>1, <2>2
<1>6. q1 + 1 >= SELECT => c1 >= (q1 + 1) - SELECT
  BY <1>1 DEF Speaks
<1> QED
  BY <1>1, <1>3, <1>4, <1>5, <1>6 DEF Speaks, NoDetect

(* What is made of the state after the sample: the utterance goes on, is   *)
(* complete or is given up.                                                *)
LEMMA OutcomeScanned ==
  ASSUME NEW loud \in SUBSET (0 .. RANGE - 1), NEW n \in 0 .. RANGE - 1,
         NEW b \in 0 .. RANGE - 1, NEW q \in Int, NEW c \in 0 .. FFT - 1,
         \/ Waits(b, q, loud, n + 1)
         \/ q # NoDetect /\ Speaks(b, q + 1, c, loud, n + 1)
  PROVE  \E b1 \in Int, e1 \in Int, q1 \in Int, c1 \in Int :
           /\ Outcome(b, q, c, n) = State(b1, e1, q1, c1)
           /\ Scanned(b1, e1, q1, c1, loud, n + 1)
<1> USE ProfileConstantsOK
<1>1. CASE Waits(b, q, loud, n + 1)
  <2>1. Outcome(b, q, c, n) = State(b, 0, q, c)
    BY <1>1 DEF Outcome, Waits
  <2>2. Scanned(b, 0, q, c, loud, n + 1)
    BY <1>1 DEF Scanned
  <2> QED
    BY <2>1, <2>2
<1>2. CASE q # NoDetect /\ Speaks(b, q + 1, c, loud, n + 1)
  <2>1. CASE c # FFT - 1 \/ q + 1 < SELECT
    <3>1. Outcome(b, q, c, n) = State(b, 0, q + 1, c)
      BY <1>2, <2>1 DEF Outcome
    <3>2. Scanned(b, 0, q + 1, c, loud, n + 1)
      BY <1>2, <2>1 DEF Scanned
    <3> QED
      BY <3>1, <3>2
  <2>2. CASE c = FFT - 1 /\ q + 1 >= SELECT /\ n - b \in MIN .. MAX
    <3>1. Outcome(b, q, c, n) = State(b, n, q + 1, c)
      BY <1>2, <2>2 DEF Outcome
    <3>2. ASSUME NEW t \in loud PROVE t \notin n - SELECT + 2 .. n
      <4>1. t < n + 1 => t <= (n + 1) - (q + 1)
        BY <1>2 DEF Speaks
      <4> QED
        BY <2>2, <4>1
    <3>3. Complete(b, n, loud, n + 1)
      BY <1>2, <2>2, <3>2 DEF Complete, Speaks
    <3> QED
      BY <3>1, <3>3 DEF Scanned
  <2>3. CASE c = FFT - 1 /\ q + 1 >= SELECT /\ n - b \notin MIN .. MAX
    <3>1. Outcome(b, q, c, n) = State(0, 0, NoDetect, c)
      BY <1>2, <2>3 DEF Outcome
    <3>2. ASSUME NEW t \in loud, t < n + 1 PROVE (n + 1) - t >= SELECT
      <4>1. t <= (n + 1) - (q + 1)
        BY <1>2, <3>2 DEF Speaks
      <4> QED
        BY <2>3, <4>1
    <3>3. Waits(0, NoDetect, loud, n + 1)
      BY <3>2 DEF Waits
    <3>4. 0 \in 0 .. RANGE - 1 /\ NoDetect \in Int
      BY DEF NoDetect
    <3> QED
      BY <3>1, <3>3, <3>4 DEF Scanned
  <2> QED
    BY <2>1, <2>2, <2>3
<1> QED
  BY <1>1, <1>2

LEMMA SampleScanned ==
  ASSUME NEW loud \in SUBSET (0 .. RANGE - 1), NEW n \in 0 .. RANGE - 1,
         NEW b \in Int, NEW e \in Int, NEW q \in Int, NEW c \in Int,
         Scanned(b, e, q, c, loud, n)
  PROVE  \E b1 \in Int, e1 \in Int, q1 \in Int, c1 \in Int :
           /\ Taken(State(b, e, q, c), n, loud) = State(b1, e1, q1, c1)
           /\ Scanned(b1, e1, q1, c1, loud, n + 1)
<1> USE ProfileConstantsOK
<1>1. CASE e # 0
  <2>1. Complete(b, e, loud, n + 1)
    BY <1>1 DEF Scanned, Complete
  <2>2. Scanned(b, e, q, c, loud, n + 1)
    BY <2>1 DEF Scanned
  <2> QED
    BY <1>1, <2>2, SampleIs
<1>2. CASE e = 0
  <2>1. PICK b1 \in Int, q1 \in Int, c1 \in Int :
           /\ Counts(b, q, c, n, loud, b1, q1, c1)
           /\ Taken(State(b, 0, q, c), n, loud) = Outcome(b1, q1, c1, n)
    BY SampleCases
  <2>2. b \in 0 .. RANGE - 1 /\ c \in 0 .. FFT - 1
    BY DEF Scanned
  <2>3. /\ c1 \in 0 .. FFT - 1 /\ b1 \in 0 .. RANGE - 1
        /\ \/ Waits(b1, q1, loud, n + 1)
           \/ q1 # NoDetect /\ Speaks(b1, q1 + 1, c1, loud, n + 1)
    <3>1. CASE Waits(b, q, loud, n)
      BY <2>1, <2>2, <3>1, WaitsStep
    <3>2. CASE Speaks(b, q, c, loud, n) /\ (q >= SELECT => c # FFT - 1)
      BY <2>1, <2>2, <3>2, SpeaksStep
    <3> QED
      BY <1>2, <3>1, <3>2 DEF Scanned, Complete
  <2>4. PICK b2 \in Int, e2 \in Int, q2 \in Int, c2 \in Int :
           /\ Outcome(b1, q1, c1, n) = State(b2, e2, q2, c2)
           /\ Scanned(b2, e2, q2, c2, loud, n + 1)
    BY <2>3, OutcomeScanned
  <2> QED
    BY <1>2, <2>1, <2>4
<1> QED
  BY <1>1, <1>2

LEMMA AllScanned ==
  ASSUME NEW loud \in SUBSET (0 .. RANGE - 1)
  PROVE  \E b \in Int, e \in Int, q \in Int, c \in Int :
           /\ Scan(loud)[RANGE] = State(b, e, q, c)
           /\ Scanned(b, e, q, c, loud, RANGE)
<1> USE ProfileConstantsOK
<1> DEFINE S == {n \in 0 .. RANGE :
                   \E b \in Int, e \in Int, q \in Int, c \in Int :
                     /\ Scan(loud)[n] = State(b, e, q, c)
                     /\ Scanned(b, e, q, c, loud, n)}
<1>1. 0 \in S
  <2>1. Waits(0, NoDetect, loud, 0)
    BY DEF Waits
  <2>2. Scanned(0, 0, NoDetect, 0, loud, 0)
    BY <2>1 DEF Scanned
  <2>3. Scan(loud)[0] = State(0, 0, NoDetect, 0) /\ NoDetect \in Int
    BY ScanSteps DEF Begin, State, NoDetect
  <2>4. 0 \in 0 .. RANGE /\ 0 \in Int
    OBVIOUS
  <2> QED
    BY <2>2, <2>3, <2>4
<1>2. ASSUME NEW n \in 1 .. RANGE, n - 1 \in S PROVE n \in S
  <2>1. PICK b \in Int, e \in Int, q \in Int, c \in Int :
          /\ Scan(loud)[n - 1] = State(b, e, q, c)
          /\ Scanned(b, e, q, c, loud, n - 1)
    BY <1>2
  <2>2. n - 1 \in 0 .. RANGE - 1 /\ (n - 1) + 1 = n /\ n \in 0 .. RANGE
    OBVIOUS
  <2>3. PICK b1 \in Int, e1 \in Int, q1 \in Int, c1 \in Int :
          /\ Taken(State(b, e, q, c), n - 1, loud) = State(b1, e1, q1, c1)
          /\ Scanned(b1, e1, q1, c1, loud, (n - 1) + 1)
    BY <2>1, <2>2, SampleScanned
  <2>4. Scan(loud)[n] = State(b1, e1, q1, c1)
    BY <2>1, <2>3, ScanSteps
  <2> QED
    BY <2>2, <2>3, <2>4
<1>3. RANGE \in S
  <2> HIDE DEF S
  <2> QED
    BY <1>1, <1>2, InductionTo
<1> QED
  BY <1>3

(* For every recording, what selectLoud chooses is one utterance, whole,   *)
(* or it says that there is none.                                          *)
THEOREM SelectsUtterance ==
  ASSUME NEW loud \in SUBSET (0 .. RANGE - 1), selectLoud(loud) # NoFragment
  PROVE  Utterance(selectLoud(loud), loud)
<1> USE ProfileConstantsOK
<1> DEFINE f == selectLoud(loud)
<1>1. PICK b \in Int, e \in Int, q \in Int, c \in Int :
        /\ Scan(loud)[RANGE] = State(b, e, q, c)
        /\ Scanned(b, e, q, c, loud, RANGE)
  BY AllScanned
<1>2. /\ Scan(loud)[RANGE].start = b /\ Scan(loud)[RANGE].stop = e
  BY <1>1, FieldsOf
<1>3. CASE e # 0
  <2>1. f = [start |-> b, stop |-> e]
    BY <1>2, <1>3 DEF selectLoud
  <2>2. Complete(b, e, loud, RANGE)
    BY <1>1, <1>3 DEF Scanned
  <2>3. PICK o \in loud : /\ o < e + 1 /\ Opens([start |-> b], loud, o)
                          /\ \A k \in o .. (e + 1) - 1 : Near(loud, k)
    BY <2>2 DEF Complete, Spoken
  <2> QED
    BY <2>1, <2>2, <2>3 DEF Utterance, Ends, Opens, Complete
<1>4. CASE e = 0
  <2>1. f = [start |-> b, stop |-> RANGE - 1] /\ RANGE - 1 - b \in MIN .. MAX
    BY <1>2, <1>4 DEF selectLoud
  <2>2. Speaks(b, q, c, loud, RANGE)
    <3>1. b # 0
      BY <2>1
    <3> QED
      BY <1>1, <1>4, <3>1 DEF Scanned, Waits, Complete
  <2>3. PICK o \in loud : /\ o < RANGE /\ Opens([start |-> b], loud, o)
                          /\ \A k \in o .. RANGE - 1 : Near(loud, k)
    BY <2>2 DEF Speaks, Spoken
  <2> QED
    BY <2>1, <2>3 DEF Utterance, Ends, Opens
<1> QED
  BY <1>3, <1>4

LEMMA FragmentType ==
  ASSUME NEW loud \in SUBSET (0 .. RANGE - 1)
  PROVE  selectLoud(loud) \in [start : 0 .. RANGE - 1, stop : 0 .. RANGE - 1]
<1> USE ProfileConstantsOK
<1>1. PICK b \in Int, e \in Int, q \in Int, c \in Int :
        /\ Scan(loud)[RANGE] = State(b, e, q, c)
        /\ Scanned(b, e, q, c, loud, RANGE)
  BY AllScanned
<1>2. /\ Scan(loud)[RANGE].start = b /\ Scan(loud)[RANGE].stop = e
  BY <1>1, FieldsOf
<1>3. b \in 0 .. RANGE - 1 /\ e \in 0 .. RANGE - 1
  BY <1>1 DEF Scanned, Complete
<1> QED
  BY <1>2, <1>3 DEF selectLoud, NoFragment

-----------------------------------------------------------------------------
(* Signal_spectrogram and Scale_scaleX *)
LEMMA Quotient ==
  ASSUME NEW a \in Nat, NEW b \in Nat \ {0}
  PROVE  /\ a \div b \in Nat
         /\ b * (a \div b) <= a /\ a < b * (a \div b) + b
<1>1. a \div b \in Int /\ a \div b >= 0
  OBVIOUS
<1>2. a % b < b /\ a % b >= 0 /\ a % b \in Int
  OBVIOUS
<1>3. a = b * (a \div b) + (a % b)
  BY Z3
<1> QED
  BY <1>1, <1>2, <1>3

LEMMA Product ==
  ASSUME NEW a \in Nat, NEW x \in Nat, NEW y \in Nat
  PROVE  /\ a * x \in Nat /\ a * (x + 1) = a * x + a
         /\ x <= y => a * x <= a * y
         /\ a * x < a * y => x < y
<1>1. a * x \in Nat /\ a * y \in Nat /\ a * (x + 1) = a * x + a
  OBVIOUS
<1>2. x <= y => a * x <= a * y
  OBVIOUS
<1>3. y <= x => a * y <= a * x
  OBVIOUS
<1> QED
  BY <1>1, <1>2, <1>3

(* The quotient is the only number between these products. *)
LEMMA IsQuotient ==
  ASSUME NEW a \in Nat, NEW b \in Nat \ {0}, NEW x \in Nat,
         b * x <= a, a < b * x + b
  PROVE  a \div b = x
<1> DEFINE y == a \div b
<1>1. y \in Nat /\ b * y <= a /\ a < b * y + b
  BY Quotient
<1> HIDE DEF y
<1>2. /\ b * (x + 1) = b * x + b /\ b * (y + 1) = b * y + b
      /\ b * x \in Nat /\ b * y \in Nat
  BY <1>1, Product
<1>3. b * x < b * (y + 1) /\ b * y < b * (x + 1)
  BY <1>1, <1>2
<1>4. x < y + 1 /\ y < x + 1
  BY <1>1, <1>3, Product, x + 1 \in Nat, y + 1 \in Nat
<1> QED
  BY <1>1, <1>4 DEF y

LEMMA FramesBound ==
  ASSUME NEW d \in MIN .. MAX
  PROVE  Frames(4 * (d \div 4)) \in 1 .. LINES
<1> USE ProfileConstantsOK
<1> DEFINE len    == 4 * (d \div 4)
           wanted == (len + FFT - 1) \div FFT
           room   == (RANGE + WIDTH - 1) \div WIDTH
           Q      == MAX \div FFT
<1>1. len \in Nat /\ 4 <= len /\ len <= MAX
  OBVIOUS
<1> HIDE DEF len
<1>2. /\ wanted \in Nat /\ FFT * wanted <= len + FFT - 1
      /\ len + FFT - 1 < FFT * wanted + FFT
  BY <1>1, Quotient, len + FFT - 1 \in Nat
<1>3. Q \in Nat /\ MAX < FFT * Q + FFT /\ Q < LINES
  BY Quotient, MAX \in Nat
<1>4. /\ room \in Nat /\ RANGE + WIDTH - 1 < WIDTH * room + WIDTH
  BY Quotient, RANGE + WIDTH - 1 \in Nat, WIDTH \in Nat \ {0}
<1> HIDE DEF wanted, room, Q
<1>5. wanted >= 1
  <2>1. wanted = 0 => FFT * wanted = 0
    BY <1>2
  <2> QED
    BY <1>1, <1>2, <2>1
<1>6. room >= 1
  <2>1. room = 0 => WIDTH * room = 0
    BY <1>4
  <2> QED
    BY <1>4, <2>1
<1>7. wanted <= Q + 1
  <2>1. /\ FFT * (Q + 1) = FFT * Q + FFT /\ FFT * Q \in Nat
        /\ FFT * (Q + 2) = FFT * (Q + 1) + FFT
    <3>1. Q + 1 \in Nat /\ (Q + 1) + 1 = Q + 2
      BY <1>3
    <3> QED
      BY <1>3, <3>1, Product
  <2>2. FFT * wanted \in Nat
    BY <1>2, Product
  <2>3. FFT * wanted < FFT * (Q + 2)
    BY <1>1, <1>2, <1>3, <2>1, <2>2
  <2>4. wanted < Q + 2
    BY <1>2, <1>3, <2>3, Product, Q + 2 \in Nat
  <2> QED
    BY <1>2, <1>3, <2>4
<1>8. Frames(len) = IF wanted <= room THEN wanted ELSE room
  BY DEF Frames, wanted, room
<1>9. Frames(len) \in 1 .. LINES
  BY <1>2, <1>3, <1>4, <1>5, <1>6, <1>7, <1>8
<1> QED
  BY <1>9 DEF len

LEMMA QuotientBounds ==
  ASSUME NEW a \in Nat, NEW b \in Nat \ {0}, NEW k \in Nat
  PROVE  /\ a \div b <= k <=> a < b * (k + 1)
         /\ k <= a \div b <=> b * k <= a
<1> DEFINE x == a \div b
<1>1. x \in Nat /\ b * x <= a /\ a < b * x + b
  BY Quotient
<1> HIDE DEF x
<1>2. /\ b * (x + 1) = b * x + b /\ b * (k + 1) = b * k + b
      /\ b * x \in Nat /\ b * k \in Nat
  BY <1>1, Product
<1>3. x <= k => b * x <= b * k
  BY <1>1, Product
<1>4. k <= x => b * k <= b * x
  BY <1>1, Product
<1>5. x + 1 <= k => b * (x + 1) <= b * k
  BY <1>1, Product, x + 1 \in Nat
<1>6. k + 1 <= x => b * (k + 1) <= b * x
  BY <1>1, Product, k + 1 \in Nat
<1> QED
  BY <1>1, <1>2, <1>3, <1>4, <1>5, <1>6 DEF x

(* The fixed-point step: never less than a line, and what the roundings    *)
(* lose in all frames together is less than a line.                        *)
LEMMA StepBounds ==
  ASSUME NEW frames \in 1 .. LINES
  PROVE  LET delta == (LINES * FIXED) \div frames
         IN  /\ delta \in Nat \ {0} /\ FIXED <= delta
             /\ frames * delta <= FIXED * LINES
             /\ FIXED * (LINES - 1) <= frames * delta
<1> USE ProfileConstantsOK
<1> DEFINE D == (LINES * FIXED) \div frames
<1>1. /\ LINES * FIXED = FIXED * LINES /\ FIXED * LINES \in Nat
      /\ FIXED * (LINES - 1) = FIXED * LINES - FIXED
  OBVIOUS
<1>2. D \in Nat /\ frames * D <= FIXED * LINES
      /\ FIXED * LINES < frames * D + frames
  BY <1>1, Quotient
<1> HIDE DEF D
<1>3. frames * FIXED <= FIXED * LINES
  <2>1. FIXED * frames <= FIXED * LINES /\ FIXED * frames = frames * FIXED
    BY Product, frames \in Nat, LINES \in Nat
  <2> QED
    BY <2>1
<1>4. FIXED < D + 1
  <2>1. frames * (D + 1) = frames * D + frames
    BY <1>2, Product
  <2>2. frames * D \in Nat /\ frames * FIXED \in Nat
    BY <1>2, Product
  <2>3. frames * FIXED < frames * (D + 1)
    BY <1>1, <1>2, <1>3, <2>1, <2>2
  <2> QED
    BY <1>2, <2>3, Product, D + 1 \in Nat, FIXED \in Nat, frames \in Nat
<1>5. frames * D \in Nat
  BY <1>2, Product
<1>6. FIXED * (LINES - 1) <= frames * D
  BY <1>1, <1>2, <1>5
<1> QED
  BY <1>2, <1>4, <1>6 DEF D

(* Every line but the last belongs to exactly one frame, and every frame   *)
(* has a line, for every number of frames up to that of the lines.         *)
THEOREM FillsEveryLine ==
  ASSUME NEW frames \in 1 .. LINES
  PROVE  Filled(frames)
<1> USE ProfileConstantsOK
<1> DEFINE D == (LINES * FIXED) \div frames
<1>1. /\ D \in Nat \ {0} /\ FIXED <= D
      /\ frames * D <= FIXED * LINES /\ FIXED * (LINES - 1) <= frames * D
  BY StepBounds
<1>2. \A f : Lines(frames, f) = {k \in 0 .. LINES - 1 :
               k \in (f * D) \div FIXED .. ((f + 1) * D) \div FIXED - 1}
  BY DEF Lines
<1> HIDE DEF D
<1>3. ASSUME NEW f \in 0 .. frames - 1
      PROVE  /\ f * D \in Nat /\ (f + 1) * D = f * D + D
             /\ (f + 1) * D <= FIXED * LINES
  <2>1. D * f \in Nat /\ D * (f + 1) = D * f + D
    BY <1>1, Product
  <2>2. D * (f + 1) <= D * frames
    BY <1>1, Product, f + 1 \in Nat, frames \in Nat, f + 1 <= frames
  <2>3. D * f = f * D /\ D * (f + 1) = (f + 1) * D /\ D * frames = frames * D
    BY <1>1
  <2>4. FIXED * LINES \in Nat /\ frames * D \in Nat
    BY <1>1
  <2> QED
    BY <1>1, <2>1, <2>2, <2>3, <2>4
<1>4. ASSUME NEW f \in 0 .. frames - 1 PROVE Lines(frames, f) # {}
  <2> DEFINE k == (f * D) \div FIXED
             l == ((f + 1) * D) \div FIXED
  <2>1. k \in Nat /\ FIXED * k <= f * D
    BY <1>3, Quotient, f * D \in Nat, FIXED \in Nat \ {0}
  <2> HIDE DEF k
  <2>2. FIXED * (k + 1) = FIXED * k + FIXED /\ FIXED * k \in Nat
    BY <2>1, Product
  <2>3. FIXED * (k + 1) <= (f + 1) * D
    BY <1>1, <1>3, <2>1, <2>2
  <2>4. k + 1 <= l
    BY <1>1, <1>3, <2>1, <2>3, QuotientBounds, k + 1 \in Nat,
       (f + 1) * D \in Nat, FIXED \in Nat \ {0}
  <2>5. k + 1 <= LINES
    <3>1. FIXED * (k + 1) < FIXED * LINES + FIXED
      BY <1>1, <1>3, <2>3, <2>2
    <3>2. FIXED * (LINES + 1) = FIXED * LINES + FIXED
      BY Product, LINES \in Nat
    <3>3. k + 1 < LINES + 1
      BY <2>1, <3>1, <3>2, Product, k + 1 \in Nat, LINES + 1 \in Nat
    <3> QED
      BY <2>1, <3>3
  <2>6. l \in Int
    BY <1>1, <1>3
  <2> HIDE DEF l
  <2>7. k \in 0 .. LINES - 1 /\ k \in k .. l - 1
    BY <2>1, <2>4, <2>5, <2>6
  <2> QED
    BY <1>2, <2>7 DEF k, l
<1>5. ASSUME NEW k \in 0 .. LINES - 2
      PROVE  Cardinality({f \in 0 .. frames - 1 : k \in Lines(frames, f)}) = 1
  <2> DEFINE a == FIXED * (k + 1)
             m == (a - 1) \div D
  <2>1. a \in Nat \ {0} /\ a <= frames * D
    <3>1. FIXED * (k + 1) = FIXED * k + FIXED /\ FIXED * k \in Nat
      BY Product, k \in Nat
    <3>2. FIXED * (k + 1) <= FIXED * (LINES - 1)
      BY Product, k + 1 \in Nat, LINES - 1 \in Nat, k + 1 <= LINES - 1
    <3>3. FIXED * (LINES - 1) \in Nat /\ frames * D \in Nat
      BY <1>1
    <3> QED
      BY <1>1, <3>1, <3>2, <3>3
  <2>2. ASSUME NEW f \in 0 .. frames - 1
        PROVE  k \in Lines(frames, f) <=> f * D < a /\ a <= (f + 1) * D
    <3> DEFINE l == (f * D) \div FIXED
               h == ((f + 1) * D) \div FIXED
    <3>1. l <= k <=> f * D < a
      BY <1>3, QuotientBounds, k \in Nat
    <3>2. k + 1 <= h <=> a <= (f + 1) * D
      BY <1>1, <1>3, QuotientBounds, k + 1 \in Nat, (f + 1) * D \in Nat
    <3>3. l \in Int /\ h \in Int /\ k \in 0 .. LINES - 1
      BY <1>1, <1>3
    <3>4. k \in Lines(frames, f) <=> k \in l .. h - 1
      BY <1>2, <3>3
    <3> HIDE DEF l, h
    <3>5. k \in l .. h - 1 <=> l <= k /\ k + 1 <= h
      BY <3>3
    <3> QED
      BY <3>1, <3>2, <3>4, <3>5
  <2> HIDE DEF a
  <2>3. m \in Nat /\ D * m <= a - 1 /\ a - 1 < D * m + D
    BY <1>1, <2>1, Quotient, a - 1 \in Nat
  <2>4. m \in 0 .. frames - 1
    <3>1. D * m < D * frames
      BY <1>1, <2>1, <2>3, D * m \in Int, D * frames = frames * D,
         frames * D \in Int
    <3> QED
      BY <1>1, <2>3, <3>1, Product, frames \in Nat
  <2>5. ASSUME NEW f \in 0 .. frames - 1
        PROVE  k \in Lines(frames, f) <=> f = m
    <3>1. /\ D * f = f * D /\ f * D \in Int /\ D * m \in Int
          /\ (f + 1) * D = f * D + D
      BY <1>1, <1>3, <2>3
    <3>2. ASSUME f * D < a, a <= (f + 1) * D PROVE f = m
      <4>1. D * f <= a - 1 /\ a - 1 < D * f + D
        BY <1>1, <2>1, <3>1, <3>2
      <4> QED
        BY <1>1, <2>1, <4>1, IsQuotient, a - 1 \in Nat
    <3>3. f = m => f * D < a /\ a <= (f + 1) * D
      <4> HIDE DEF m
      <4> QED
        BY <1>1, <2>1, <2>3, <3>1
    <3> QED
      BY <2>2, <3>2, <3>3
  <2>6. {f \in 0 .. frames - 1 : k \in Lines(frames, f)} = {m}
    <3> HIDE DEF m
    <3> QED
      BY <2>4, <2>5
  <2> QED
    BY <2>6, FS_Singleton
<1> QED
  BY <1>4, <1>5 DEF Filled
=============================================================================
