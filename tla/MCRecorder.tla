----------------------------- MODULE MCRecorder -----------------------------
(***************************************************************************)
(* Model-checking instances of Recorder.                                   *)
(***************************************************************************)
EXTENDS Recorder, TLC

CONSTANTS p1, p2

ProducerSymmetry == Permutations({p1, p2})
=============================================================================
