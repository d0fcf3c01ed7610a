----------------------------- MODULE MCDialogue -----------------------------
(* A vocabulary with the name, two unrelated words and one that begins with *)
(* another, which the database may contain although today's does not.       *)
EXTENDS Dialogue

CONSTANTS sheila, on, one, stop

Vocabulary == {sheila, on, one, stop}
Names      == {sheila}
Beginnings == {<<w, w>> : w \in Vocabulary} \cup {<<on, one>>}
=============================================================================
