---------------------------- MODULE MCAviRecorder -----------------------------
(* Rings of a few cells; the bounds are in the configuration.              *)
EXTENDS AviRecorder
=============================================================================
