------------------------------ MODULE MCButton ------------------------------
(* A press is recognised when its count reaches four (the third pressed    *)
(* sample in a row), long at eight: room for a second edge, a volume       *)
(* change, a Consume and a restart within one press.                       *)
EXTENDS Button
=============================================================================
