------------------------------ MODULE MCMovie -------------------------------
(* Small instance of the movie engine.                                     *)
EXTENDS MovieProperties

MCInputs == {"-", "A"}
MCCommands == {"power"}
MCSeeds == {"s0", "s1"}
MCGuids == {"g0", "g1", "new"}
MCNames == {"m.fm2"}

MCNever == -1

MCTruncateOnly == {"TRUNCATE"}
MCRecordModes == {"TRUNCATE", "OVERWRITE", "INSERT"}
MCSettings ==
  {[close |-> FALSE, full |-> TRUE], [close |-> TRUE, full |-> FALSE]}

Rec(input) == [commands |-> {}, in |-> input]

ForeignMovie(kind, seed, records, project) ==
  [kind |-> kind, seed |-> seed, guid |-> "g1", records |-> records,
   rerecordCount |-> IF seed = "s1" THEN 1 ELSE 0, tasProject |-> project]

MCMovies ==
  {ForeignMovie("clean", "s1", <<Rec("A"), Rec("-")>>, FALSE),
   ForeignMovie("clean", "s1", <<Rec("A")>>, TRUE),
   ForeignMovie("battery", "s0", <<[commands |-> {"power"}, in |-> "A"]>>, FALSE),
   ForeignMovie("state", "s0", <<Rec("A")>>, FALSE),
   ForeignMovie("unfit", "s0", <<Rec("A")>>, FALSE)}

MCSyncMovies == {md \in MCMovies : ~md.tasProject /\ md.kind # "unfit"}

(* The savestate a faithful emulator makes at a frame of a movie, extra    *)
(* being the input it was given after the end.                             *)
StateOf(md, frame, extra) ==
  LET h == [i \in 1 .. Len(md.records) |->
              Executed(PlayedCommands(md.records[i]), md.records[i].in)]
             \o [i \in 1 .. Len(extra) |-> Executed(<<>>, extra[i])]
  IN  [machine |-> [boot |-> [kind |-> md.kind, tag |-> StartTag(md)],
                    hist |-> SubSeq(h, 1, frame), pend |-> <<>>],
       frame |-> frame, movie |-> md, legacy |-> FALSE]

MCStates ==
  LET md == ForeignMovie("clean", "s1", <<Rec("A"), Rec("-")>>, FALSE)
      branch == [md EXCEPT !.records[2] = Rec("A")]
      short == [md EXCEPT !.records = <<Rec("A")>>]
      battery == ForeignMovie("battery", "s0", <<[commands |-> {"power"}, in |-> "A"]>>, FALSE)
  IN  {StateOf(md, 1, <<>>), StateOf(md, 3, <<"A">>), StateOf(branch, 2, <<>>),
       StateOf(short, 2, <<"A">>), StateOf(battery, 1, <<>>)}
      \cup {[machine |-> Started("clean", "s0"), frame |-> 1,
             movie |-> Garbled, legacy |-> TRUE],
            [machine |-> FreeMachine, frame |-> NoFrame,
             movie |-> NoMovie, legacy |-> FALSE]}

(* The savestates of the instance are those of faithful emulators.         *)
ASSUME MCStatesAssumption == FaithfulStates
=============================================================================
