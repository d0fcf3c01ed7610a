----------------------------- MODULE MCPlayback -----------------------------
(* Banks of two words; a directory with a name that begins with another    *)
(* one and a name that fills its field; recordings of one to four parts,   *)
(* so that a bank is used again.  Parts of a file are two apart.           *)
EXTENDS Playback

File(nm, a, l) ==
  [name |-> nm, terminated |-> TRUE, addr |-> a, len |-> l]
Full(nm) == [name |-> nm, terminated |-> FALSE, addr |-> 1, len |-> 1]

CONSTANTS o, k

OK == <<o, k>>
O  == <<o>>
MCNames == {OK, O, <<k>>}

Listed(h, c, e, f) == [header |-> h, csum |-> c, ends |-> e, files |-> f]
Files == <<File(OK, 1, 7), File(O, 8, 5)>>

MCCards ==
  {Listed("proper", TRUE, TRUE, Files),
   Listed("proper", TRUE, TRUE, <<File(O, 2, 6), File(OK, 8, 2)>>),
   Listed("proper", FALSE, TRUE, Files),
   Listed("proper", TRUE, FALSE, <<File(O, 1, 0)>>),
   Listed("proper", TRUE, TRUE, <<Full(OK)>>)}
    \cup {Listed(h, TRUE, TRUE, Files) : h \in {"foreign", "newer", "other"}}
=============================================================================
