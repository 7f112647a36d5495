----------------------------- MODULE MCSaveSlots ------------------------------
(* Small instances of the savestate slots.                                 *)
EXTENDS SaveSlotsProperties, TLC

CONSTANTS nes, gba, tape, now, then, newer, user

MCOneGame == {nes}
MCGames == {nes, gba}
MCGba == {gba}
MCNone == {}
MCTape == {tape}
MCNow == {now}
MCMachines == {now, then}
MCNewer == {newer}
MCUser == {user}

MCAll == {"written", "cut", "unopened"}
MCWritten == {"written"}
MCFails == {"written", "unopened"}
MCTaken == {"taken"}
MCAnyVerdict == {"taken", "unfit", "refused"}
MCUnfit == {"taken", "unfit"}
MCSaving == {"saving"}
MCCut == {"saving", "swapping"}

Empty == [f \in Files |-> NoFile]
MCEmpty == {Empty}

(* Nothing, or a savestate of a newer version in the first slot of a game. *)
MCGiven ==
  {Empty,
   [Empty EXCEPT
      ![SlotOf(nes, NoBinding, 0, "slot")] =
        [game |-> nes, machine |-> now, chunks |-> newer]]}

(* Bound on the files that exist at once.                                 *)
CONSTANT MaxFiles
MCFewFiles == Cardinality({f \in Files : Exists(files, f)}) <= MaxFiles

MCSymmetry == Permutations(MCMachines)
=============================================================================
