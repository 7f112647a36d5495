----------------------------- MODULE MCSoundRing ------------------------------
(* The normal speed and a low one.                                         *)
EXTENDS SoundRing

MCSpeeds == {[slow |-> FALSE, factor |-> 2], [slow |-> TRUE, factor |-> 2]}
=============================================================================
