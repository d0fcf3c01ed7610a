----------------------------- MODULE MCMicQueue -----------------------------
(* Small instances of MicQueue.  The raw samples: 0xFFFFF0 is reduced to    *)
(* 0xFFFF, the value of a disconnected line; 0x400000 is an ordinary one.   *)
EXTENDS MicQueue

RawSamples == {16777200, 4194304}
=============================================================================
