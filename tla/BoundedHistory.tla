---------------------------- MODULE BoundedHistory ----------------------------
(***************************************************************************)
(* What a rewind recorder promises: the most recent snapshots of a run, in *)
(* the order they were taken, and a cursor that moves among them.  Playing *)
(* on from an earlier snapshot forgets the later ones.  A snapshot is the  *)
(* frame it was taken at.                                                  *)
(***************************************************************************)
EXTENDS Integers, Sequences

VARIABLES
  hist,       \* the snapshots, oldest first
  cur,        \* the position of the last snapshot taken or loaded
  rewound,    \* a snapshot has been loaded and the run not resumed since
  capacity,   \* how many snapshots are kept
  frame       \* the frame the run is at

vars == <<hist, cur, rewound, capacity, frame>>

Newest(s, n) == SubSeq(s, IF Len(s) > n THEN Len(s) - n + 1 ELSE 1, Len(s))

Init ==
  /\ hist = <<>> /\ cur = 0 /\ rewound = FALSE
  /\ capacity \in Nat /\ frame \in Nat

(* The run goes on, or is taken elsewhere by something else.               *)
Play ==
  /\ frame' \in Nat
  /\ UNCHANGED <<hist, cur, rewound, capacity>>

Record ==
  /\ ~rewound
  /\ hist' = Newest(Append(hist, frame), capacity)
  /\ cur' = Len(hist')
  /\ frame' \in Nat
  /\ UNCHANGED <<rewound, capacity>>

LoadAt(i) ==
  /\ i \in 1 .. Len(hist)
  /\ cur' = i
  /\ frame' = hist[i]
  /\ rewound' = TRUE
  /\ UNCHANGED <<hist, capacity>>

(* Back in time, or to the last snapshot once more; and the other way.     *)
Previous == LoadAt(cur - 1) \/ LoadAt(cur)

Following == LoadAt(cur) \/ LoadAt(cur + 1)

Resume ==
  /\ rewound
  /\ hist' = SubSeq(hist, 1, cur)
  /\ rewound' = FALSE
  /\ frame' \in Nat
  /\ UNCHANGED <<cur, capacity>>

Restart ==
  /\ hist' = <<>> /\ cur' = 0 /\ rewound' = FALSE
  /\ capacity' \in Nat
  /\ UNCHANGED frame

Next == Play \/ Record \/ Previous \/ Following \/ Resume \/ Restart

Spec == Init /\ [][Next]_vars

=============================================================================
