---------------------------- MODULE MCRecognition ----------------------------
(* Two bases of one or two categories; lists with too many bases or        *)
(* categories, too few names, names without an end, other items behind     *)
(* the names; a file that begins inside a block of 16 sectors.             *)
EXTENDS Recognition

B(s) == [kind |-> "B", spects |-> s, valid |-> TRUE]
L(b, d) == [kind |-> "L", spects |-> 0, valid |-> TRUE, ends |-> TRUE,
            of |-> [base |-> b, decision |-> d]]

Proper == <<B(2), B(1), L(1, 0), L(1, 1), L(2, 0)>>

Card(items) == [directory |-> TRUE, addr |-> 16, header |-> TRUE,
                csum |-> TRUE, items |-> items]

MCCards ==
  {Card(Proper), Card(<<B(1), L(1, 0), B(1), L(2, 0)>>),
   Card(<<B(1), L(1, 0), L(1, 1)>>), Card(<<B(2), B(2)>>),
   Card(<<B(1), B(1), B(1), L(1, 0), L(2, 0), L(3, 0)>>), Card(<< >>),
   Card(<<[B(1) EXCEPT !.valid = FALSE]>>),
   Card(<<B(1), [L(1, 0) EXCEPT !.ends = FALSE]>>),
   [Card(Proper) EXCEPT !.csum = FALSE], [Card(Proper) EXCEPT !.header = FALSE],
   [Card(Proper) EXCEPT !.directory = FALSE], [Card(Proper) EXCEPT !.addr = 17]}

Sum(s, d) == [spect |-> s, delta |-> d]
Shown(r, s) == [result |-> r, sums |-> s]
MCOutcomes ==
  {Shown(0, <<Sum(0, 1), Sum(0, 2)>>), Shown(0, <<Sum(0, 1), Sum(1, 2)>>),
   Shown(1, <<Sum(1, 1), Sum(0, 1)>>), Shown(15, << >>)}

MCRecordings ==
  LET At == {0, 5, 11, 19, 25, 34, 45}
  IN  {r \in SUBSET At : Cardinality(r) <= 3}
=============================================================================
