--------------------------- MODULE MCStateRecorder ----------------------------
(* Small instances of the state recorder.                                  *)
EXTENDS StateRecorder

Settings(history, frames, time, timed, pause) ==
  [history |-> history, framesBetween |-> frames, timeBetween |-> time,
   timed |-> timed, pauseOnLoad |-> pause]

(* Rings of four slots, by frames, by time and with a wider spacing, so    *)
(* that settings may change without a restart.                             *)
MCSameSize ==
  {Settings(4, 1, 1, FALSE, "temporary"), Settings(4, 1, 1, TRUE, "none"),
   Settings(8, 1, 2, TRUE, "full")}
=============================================================================
