----------------------------- MODULE MCEmuThread ------------------------------
(* The two threads need no bound: their states are finite.                 *)
EXTENDS EmuThread
=============================================================================
