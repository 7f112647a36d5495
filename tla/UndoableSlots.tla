----------------------------- MODULE UndoableSlots -----------------------------
(***************************************************************************)
(* What the undo of savestates promises: after a savestate was saved over, *)
(* one command brings back what its file held before, and the next one     *)
(* takes that back again.                                                  *)
(***************************************************************************)
CONSTANTS
  Names,      \* the files of slots
  Contents,   \* what they may hold
  NoFile,     \* the content of a file that does not exist
  Damaged,    \* that of a file written only in part
  NoUndo

VARIABLES
  slots,      \* what each file holds
  undo        \* NoUndo, or a file and what an undo puts into it

vars == <<slots, undo>>

Offer(n, c) == IF c = NoFile THEN NoUndo ELSE [name |-> n, content |-> c]

(* Saving over a file offers what it held; saving a new one offers nothing.*)
Save ==
  \E n \in Names, c \in Contents \ {NoFile} :
    /\ slots' = [slots EXCEPT ![n] = c]
    /\ undo' = Offer(n, slots[n])

(* The new content could not be written: the old one is only on offer.     *)
LoseSave ==
  \E n \in Names :
    /\ slots' = [slots EXCEPT ![n] = NoFile]
    /\ IF slots[n] = NoFile THEN undo' \in {undo, NoUndo}
                            ELSE undo' = Offer(n, slots[n])

(* Someone writes a file past the undo.                                    *)
WriteThrough ==
  \E n \in Names, c \in Contents \ {NoFile} :
    /\ slots' = [slots EXCEPT ![n] = c]
    /\ undo' \in {undo, NoUndo}

UndoRedo ==
  /\ undo # NoUndo
  /\ slots' = [slots EXCEPT ![undo.name] = undo.content]
  /\ undo' = Offer(undo.name, slots[undo.name])

Forget == undo' = NoUndo /\ UNCHANGED slots

(* The process ends within a save or an exchange.                          *)
EndsWithin ==
  \E n \in Names :
    /\ slots' \in {slots, [slots EXCEPT ![n] = NoFile],
                    [slots EXCEPT ![n] = Damaged]}
    /\ undo' = NoUndo

Init == slots \in [Names -> Contents] /\ undo = NoUndo

Next == Save \/ LoseSave \/ WriteThrough \/ UndoRedo \/ Forget \/ EndsWithin

Spec == Init /\ [][Next]_vars
=============================================================================
