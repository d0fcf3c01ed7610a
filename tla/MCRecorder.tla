----------------------------- MODULE MCRecorder -----------------------------
(* A ring of six samples that ends four samples after the first loud one:   *)
(* it wraps before and during a fragment.  One sample is under way and one  *)
(* is skipped, the least the assumption allows.                             *)
EXTENDS Recorder
=============================================================================
