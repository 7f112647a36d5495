--------------------------- MODULE SoundRingProofs ----------------------------
(***************************************************************************)
(* The ring of samples for every size, callback, frame and set of speeds:  *)
(* its types, its cursors, when it is overrun, and that it is a queue.     *)
(***************************************************************************)
EXTENDS SoundRing, RingArithmetic

(* Written one for one, a sample is written once.                          *)
OneIsOne == mode.kind = "one" => mode.n = 1

Kept == TypeOK /\ OneIsOne /\ CursorsAgree

LEMMA NextTyped == sample \in Samples => NextSample \in Samples
  BY SoundAssumption, Quotient DEF Samples, NextSample

(* What writing a sample n times keeps.                                    *)
LEMMA PutKeeps ==
  ASSUME Kept, NEW n \in Nat, Put(n)
  PROVE  /\ s_Buffer' \in [Cells -> Samples]
         /\ s_BufferRead' \in Cells /\ s_BufferWrite' \in Cells
         /\ s_BufferIn' \in Nat
         /\ open => s_BufferWrite' = (s_BufferRead' + s_BufferIn') % SndSize
<1>1. /\ SndSize \in Nat \ {0} /\ s_BufferRead \in Nat
      /\ s_BufferWrite \in Nat /\ s_BufferIn \in Nat /\ n \in Nat
  BY SoundAssumption DEF Kept, TypeOK, Cells
<1>2. s_Buffer' \in [Cells -> Samples]
  BY NextTyped DEF Put, Kept, TypeOK
<1>3. s_BufferWrite' \in Cells
  <2>1. s_BufferWrite + n \in Nat
    BY <1>1
  <2> QED BY <1>1, <2>1, Quotient DEF Put, Cells
<1>4. ASSUME open
      PROVE  s_BufferWrite' = (s_BufferRead' + s_BufferIn') % SndSize
  <2> DEFINE x == s_BufferRead + s_BufferIn
  <2>1. s_BufferWrite' = ((x % SndSize) + n) % SndSize
    BY <1>4 DEF Put, Kept, CursorsAgree
  <2>2. x \in Nat /\ x + n = s_BufferRead' + s_BufferIn'
    BY <1>1 DEF Put
  <2> HIDE DEF x
  <2>3. ((x % SndSize) + n) % SndSize = (x + n) % SndSize
    BY <1>1, <2>2, ModSum
  <2> QED BY <2>1, <2>2, <2>3
<1>5. s_BufferIn' \in Nat /\ s_BufferRead' \in Cells
  BY <1>1 DEF Put, Kept, TypeOK
<1> QED BY <1>2, <1>3, <1>4, <1>5

(* What playing keeps.                                                     *)
LEMMA PlayKeeps ==
  ASSUME Kept, Play
  PROVE  /\ s_Buffer' \in [Cells -> Samples]
         /\ s_BufferRead' \in Cells /\ s_BufferWrite' \in Cells
         /\ s_BufferIn' \in Nat
         /\ open => s_BufferWrite' = (s_BufferRead' + s_BufferIn') % SndSize
<1>1. /\ SndSize \in Nat \ {0} /\ s_BufferRead \in Nat
      /\ s_BufferIn \in Nat /\ Played \in 0 .. s_BufferIn
  BY SoundAssumption DEF Kept, TypeOK, Cells, Played
<1>2. s_BufferRead' \in Cells
  <2>1. s_BufferRead + Played \in Nat
    BY <1>1
  <2> QED BY <1>1, <2>1, Quotient DEF Play, Cells
<1>3. ASSUME open
      PROVE  s_BufferWrite' = (s_BufferRead' + s_BufferIn') % SndSize
  <2> DEFINE x == s_BufferRead + Played
             y == s_BufferIn - Played
  <2>1. x \in Nat /\ y \in Nat /\ x + y = s_BufferRead + s_BufferIn
    BY <1>1
  <2>2. s_BufferRead' = x % SndSize /\ s_BufferIn' = y
    BY DEF Play
  <2>3. s_BufferWrite' = (x + y) % SndSize
    BY <1>3, <2>1 DEF Play, Kept, CursorsAgree
  <2> HIDE DEF x, y
  <2> QED BY <1>1, <2>1, <2>2, <2>3, ModSum
<1> QED BY <1>1, <1>2, <1>3 DEF Play, Kept, TypeOK

(* The modes that WriteSound chooses.                                      *)
LEMMA ChosenTyped ==
  ASSUME TypeOK
  PROVE  Chosen \in Modes /\ (Chosen.kind = "one" => Chosen.n = 1)
<1>1. speed \in [slow : BOOLEAN, factor : Nat \ {0}]
  BY SoundAssumption DEF TypeOK
<1>2. Dup \in Nat /\ Skip \in Nat
  BY <1>1 DEF Dup, Skip
<1> QED BY <1>2 DEF Chosen, Modes

LEMMA WriteOneKeeps ==
  ASSUME Kept, count > 0, WriteOne
  PROVE  /\ s_Buffer' \in [Cells -> Samples]
         /\ s_BufferRead' \in Cells /\ s_BufferWrite' \in Cells
         /\ s_BufferIn' \in Nat /\ skipCounter' \in Nat
         /\ count' \in Nat /\ sample' \in Samples
         /\ open => s_BufferWrite' = (s_BufferRead' + s_BufferIn') % SndSize
<1>1. mode.n \in Nat /\ Unit \in Nat /\ skipCounter \in Nat /\ count \in Nat
  BY SoundAssumption DEF Kept, TypeOK, Modes
<1>2. count' \in Nat /\ sample' \in Samples
  BY <1>1, NextTyped DEF WriteOne, Kept, TypeOK
<1>3. skipCounter' \in Nat
  BY <1>1 DEF WriteOne
<1>4. CASE UNCHANGED ringVars
  BY <1>2, <1>3, <1>4 DEF ringVars, Kept, TypeOK, CursorsAgree
<1>5. CASE \E n \in Nat : Put(n)
  BY <1>2, <1>3, <1>5, PutKeeps
<1> QED BY <1>1, <1>4, <1>5 DEF WriteOne

LEMMA KeptInit == Init => Kept
<1> SUFFICES ASSUME Init
             PROVE  Kept
  OBVIOUS
<1>1. 0 \in Cells /\ Silence \in Samples
  BY SoundAssumption DEF Cells, Samples, Silence
<1>2. TypeOK
  BY <1>1 DEF Init, TypeOK, Modes
<1> QED BY <1>2 DEF Init, Kept, OneIsOne, CursorsAgree

LEMMA KeptStep == Kept /\ [Next]_vars => Kept'
<1> SUFFICES ASSUME Kept, [Next]_vars
             PROVE  Kept'
  OBVIOUS
<1> USE DEF Kept, TypeOK, OneIsOne, CursorsAgree
<1>1. CASE BeginWrite
  BY <1>1, ChosenTyped, SoundAssumption DEF BeginWrite, ringVars, controls
<1>2. CASE LockAudio
  BY <1>2 DEF LockAudio, ringVars, controls
<1>3. CASE WriteSample
  BY <1>3, WriteOneKeeps DEF WriteSample, ringVars, controls
<1>4. CASE UnlockAudio
  BY <1>4 DEF UnlockAudio, ringVars, controls
<1>5. CASE RoomAgain
  BY <1>5 DEF RoomAgain, ringVars, controls
<1>6. CASE GiveUp
  BY <1>6 DEF GiveUp, ringVars, controls
<1>7. CASE FillAudio
  <2>1. fillInit' \in BOOLEAN
    BY <1>7 DEF FillAudio, FilledOnce
  <2>2. CASE UNCHANGED ringVars
    BY <1>7, <2>1, <2>2 DEF FillAudio, ringVars, controls
  <2>3. CASE Play
    BY <1>7, <2>1, <2>3, PlayKeeps DEF FillAudio, controls
  <2> QED BY <1>7, <2>2, <2>3 DEF FillAudio
<1>8. CASE InitSound
  <2>1. 0 \in Cells /\ Silence \in Samples /\ 0 = (0 + 0) % SndSize
    BY SoundAssumption DEF Cells, Samples, Silence
  <2> QED BY <1>8, <2>1 DEF InitSound, controls
<1>9. CASE KillSound
  <2>1. Silence \in Samples
    BY SoundAssumption DEF Samples, Silence
  <2> QED BY <1>9, <2>1 DEF KillSound, controls
<1>10. CASE SetSpeed
  BY <1>10 DEF SetSpeed, ringVars
<1>11. CASE TogglePause
  BY <1>11 DEF TogglePause, ringVars
<1>12. CASE UNCHANGED vars
  BY <1>12 DEF vars, ringVars, controls
<1> QED
  BY <1>1, <1>2, <1>3, <1>4, <1>5, <1>6, <1>7, <1>8, <1>9, <1>10, <1>11,
     <1>12 DEF Next, WriteStep, GuiStep

LEMMA AlwaysKept == Spec => []Kept
  BY KeptInit, KeptStep, PTL DEF Spec

-----------------------------------------------------------------------------
(* Types: the cursors stay in the ring and the count does not go below     *)
(* zero, whatever the callback asks for.                                   *)
THEOREM SoundTyped == Spec => []TypeOK
<1>1. Kept => TypeOK BY DEF Kept
<1> QED BY <1>1, AlwaysKept, PTL

(* The cursors of the two threads and the count agree while the device is  *)
(* open (WriteSound, fillaudio), even in a ring that was overrun.          *)
THEOREM SoundCursorsAgree == Spec => []CursorsAgree
<1>1. Kept => CursorsAgree BY DEF Kept
<1> QED BY <1>1, AlwaysKept, PTL

(* Above the lowest speeds, where samples are repeated, the ring is never  *)
(* overrun, though WriteSound tests for a ring that is exactly full.       *)
THEOREM SoundOverrunOnlyWhenSlow == Spec => OverrunOnlyWhenSlow
<1>1. Kept /\ [Next]_vars =>
        [s_BufferIn <= SndSize /\ s_BufferIn' > SndSize =>
           mode.kind = "dup"]_vars
  <2> SUFFICES ASSUME Kept, Next, s_BufferIn <= SndSize, s_BufferIn' > SndSize
               PROVE  mode.kind = "dup"
    OBVIOUS
  <2>1. SndSize \in Nat \ {0} /\ s_BufferIn \in Nat /\ mode \in Modes
    BY SoundAssumption DEF Kept, TypeOK
  <2>2. ~(s_BufferIn' <= s_BufferIn)
    BY <2>1, KeptStep DEF Kept, TypeOK
  <2>3. WriteSample
    <3>1. s_BufferIn' # s_BufferIn /\ s_BufferIn' # 0
      BY <2>1, <2>2
    <3>2. ~Play
      BY <2>1, <2>2, SoundAssumption DEF Play, Played
    <3> QED
      BY <3>1, <3>2
      DEF Next, WriteStep, GuiStep, BeginWrite, LockAudio, UnlockAudio,
          RoomAgain, GiveUp, FillAudio, InitSound, KillSound, SetSpeed,
          TogglePause, ringVars
  <2>4. s_BufferIn # SndSize /\ WriteOne
    BY <2>1, <2>2, <2>3 DEF WriteSample, ringVars
  <2>5. ASSUME mode.kind # "dup"
        PROVE  s_BufferIn' <= s_BufferIn + 1
    BY <2>1, <2>4, <2>5 DEF WriteOne, Put, Modes, Kept, OneIsOne, ringVars
  <2> QED BY <2>1, <2>4, <2>5, KeptStep DEF Kept, TypeOK
<1> QED BY <1>1, AlwaysKept, PTL DEF Spec, OverrunOnlyWhenSlow

-----------------------------------------------------------------------------
(* What the ring holds, in the words of RingArithmetic.                    *)
LEMMA HeldContent ==
  Held = Content(s_Buffer, SndSize, s_BufferRead, s_BufferIn)
  BY DEF Held, Content, Cell

RingTyped ==
  /\ SndSize \in Nat \ {0}
  /\ s_BufferRead \in 0 .. SndSize - 1 /\ s_BufferIn \in Nat
  /\ s_Buffer \in [0 .. SndSize - 1 -> Nat]

LEMMA RingTypes == TypeOK => RingTyped
<1> SUFFICES ASSUME TypeOK
             PROVE  s_Buffer \in [Cells -> Nat] /\ SndSize \in Nat \ {0}
  BY DEF TypeOK, Cells, RingTyped
<1>1. Samples \subseteq Nat
  BY SoundAssumption DEF Samples
<1> QED BY <1>1, SoundAssumption DEF TypeOK

(* A sample written n times, into as much room, is held n times more.      *)
LEMMA PutAppends ==
  ASSUME Kept, TypeOK', open, NEW n \in Nat, Put(n), sample' = NextSample,
         s_BufferIn' <= SndSize
  PROVE  Held' = Held \o [i \in 1 .. n |-> sample']
<1> DEFINE R == s_BufferRead
           m == s_BufferIn
<1>1. /\ SndSize \in Nat \ {0} /\ R \in 0 .. SndSize - 1 /\ m \in Nat
      /\ s_Buffer \in [0 .. SndSize - 1 -> Nat]
      /\ s_Buffer' \in [0 .. SndSize - 1 -> Nat]
  <2>1. (TypeOK => RingTyped)'
    BY RingTypes, PTL
  <2> QED BY <2>1, RingTypes DEF Kept, RingTyped
<1>2. R' = R /\ m' = m + n /\ m' \in Nat /\ m + n <= SndSize /\ sample' \in Nat
  <2>1. sample' \in Nat
    BY SoundAssumption DEF TypeOK, Samples
  <2> QED BY <1>1, <2>1 DEF Put
<1>3. ASSUME NEW k \in Nat
      PROVE  (s_BufferWrite + k) % SndSize = Cell(SndSize, R, m + k + 1)
  <2>1. s_BufferWrite = (R + m) % SndSize
    BY DEF Kept, CursorsAgree
  <2> QED BY <1>1, <2>1, CellFrom
<1>4. ASSUME NEW i \in 1 .. m
      PROVE  s_Buffer'[Cell(SndSize, R, i)] = s_Buffer[Cell(SndSize, R, i)]
  <2>1. Cell(SndSize, R, i) \in Cells
    BY <1>1, CellInRing, SMTT(30) DEF Cells
  <2>2. ASSUME NEW k \in 0 .. n - 1
        PROVE  Cell(SndSize, R, i) # (s_BufferWrite + k) % SndSize
    <3>1. k + 1 \in 1 .. n /\ m + (k + 1) = m + k + 1 /\ k \in Nat
      BY <1>1
    <3>2. Cell(SndSize, R, i) # Cell(SndSize, R, m + (k + 1))
      BY <1>1, <1>2, <3>1, CellsApart
    <3> QED BY <1>3, <3>1, <3>2
  <2> QED BY <2>1, <2>2 DEF Put
<1>5. ASSUME NEW i \in m + 1 .. m'
      PROVE  s_Buffer'[Cell(SndSize, R, i)] = sample'
  <2> DEFINE k == i - m - 1
  <2>1. /\ k \in 0 .. n - 1 /\ k \in Nat /\ m + k + 1 = i
        /\ i \in Nat \ {0}
    BY <1>1, <1>2
  <2>2. Cell(SndSize, R, i) = (s_BufferWrite + k) % SndSize
    BY <1>3, <2>1
  <2>3. Cell(SndSize, R, i) \in Cells
    BY <1>1, <2>1, CellInRing DEF Cells
  <2> QED BY <2>1, <2>2, <2>3 DEF Put
<1>6. Appended(Content(s_Buffer', SndSize, R, m'),
               Content(s_Buffer, SndSize, R, m), sample', n)
  <2>1. /\ SamePlaces(s_Buffer, s_Buffer', SndSize, R, m)
        /\ NewPlaces(s_Buffer', SndSize, R, m, m', sample')
    BY <1>4, <1>5 DEF SamePlaces, NewPlaces
  <2>2. m + n <= m' /\ m' <= m + n
    BY <1>1, <1>2
  <2> HIDE DEF m, R
  <2> QED BY <1>1, <1>2, <2>1, <2>2, ContentPush
<1>7. Held' = Content(s_Buffer', SndSize, R', m')
  <2>1. (Held = Content(s_Buffer, SndSize, s_BufferRead, s_BufferIn))'
    BY HeldContent, PTL
  <2> QED BY <2>1
<1> QED BY <1>2, <1>6, <1>7, HeldContent DEF Appended, Repeat

(* Samples played are taken from the front.                                *)
LEMMA PlayTakes ==
  ASSUME Kept, Play
  PROVE  /\ Played \in 0 .. s_BufferIn /\ Played <= CallbackLen
         /\ Held' = SubSeq(Held, Played + 1, s_BufferIn)
<1>1. /\ SndSize \in Nat \ {0}
      /\ s_BufferRead \in 0 .. SndSize - 1 /\ s_BufferIn \in Nat
      /\ s_Buffer \in [0 .. SndSize - 1 -> Nat]
  BY RingTypes DEF Kept, RingTyped
<1>2. Played \in 0 .. s_BufferIn /\ Played <= CallbackLen
  BY <1>1, SoundAssumption DEF Played
<1>3. Held' = Content(s_Buffer', SndSize, s_BufferRead', s_BufferIn')
  <2>1. (Held = Content(s_Buffer, SndSize, s_BufferRead, s_BufferIn))'
    BY HeldContent, PTL
  <2> QED BY <2>1
<1>4. Held' = Content(s_Buffer, SndSize, (s_BufferRead + Played) % SndSize,
                      s_BufferIn - Played)
  BY <1>3 DEF Play
<1> QED BY <1>1, <1>2, <1>4, ContentPop, HeldContent

(* Nothing appended.                                                       *)
LEMMA HeldKept ==
  ASSUME Kept, UNCHANGED ringVars
  PROVE  Held' = Held \o [i \in 1 .. 0 |-> sample']
<1>1. Held \in Seq(Nat)
  BY RingTypes, ContentSeq, HeldContent DEF Kept, RingTyped
<1>2. Held' = Held
  BY DEF Held, ringVars
<1>3. [i \in 1 .. 0 |-> sample'] = << >>
  OBVIOUS
<1> QED BY <1>1, <1>2, <1>3, ConcatEmptySeq

(* The ring is a queue: as long as it is not overrun, a step appends the   *)
(* sample just produced or takes samples from the front (WriteSound,       *)
(* fillaudio).                                                             *)
THEOREM SoundFirstInFirstOut == Spec => FirstInFirstOut
<1> DEFINE Appends ==
             \E n \in 0 .. FrameLen * SndSize :
               Held' = Held \o [i \in 1 .. n |-> sample']
           Takes ==
             \E n \in 1 .. CallbackLen :
               n <= s_BufferIn /\ Held' = SubSeq(Held, n + 1, s_BufferIn)
<1>1. SndSize \in Nat \ {0} /\ FrameLen * SndSize \in Nat
      /\ SndSize <= FrameLen * SndSize
  <2>1. SndSize \in Nat \ {0} /\ FrameLen \in Nat \ {0}
    BY SoundAssumption
  <2>2. FrameLen - 1 \in Nat
    BY <2>1
  <2>3. (FrameLen - 1) * SndSize \in Nat
    BY <2>1, <2>2, SMTT(30)
  <2>4. FrameLen * SndSize = (FrameLen - 1) * SndSize + SndSize
    BY <2>1, SMTT(30)
  <2> QED BY <2>1, <2>3, <2>4
<1>2. Kept /\ Kept' /\ [Next]_vars =>
        [open /\ open' /\ s_BufferIn <= SndSize /\ s_BufferIn' <= SndSize =>
           Appends \/ Takes]_vars
  <2> SUFFICES ASSUME Kept, Kept', Next, open, open',
                      s_BufferIn <= SndSize, s_BufferIn' <= SndSize
               PROVE  Appends \/ Takes
    OBVIOUS
  <2>1. CASE UNCHANGED ringVars
    <3>1. 0 \in 0 .. FrameLen * SndSize
      BY <1>1
    <3> QED BY <2>1, <3>1, HeldKept
  <2>2. ASSUME NEW n \in Nat, Put(n), sample' = NextSample
        PROVE  Appends
    <3>1. n <= SndSize
      BY <1>1, <2>2 DEF Put, Kept, TypeOK
    <3>2. n \in 0 .. FrameLen * SndSize
      BY <1>1, <3>1
    <3>3. Held' = Held \o [i \in 1 .. n |-> sample']
      BY <2>2, PutAppends DEF Kept
    <3> QED BY <3>2, <3>3
  <2>3. CASE Play
    <3>1. /\ Played \in 0 .. s_BufferIn /\ Played <= CallbackLen
          /\ Held' = SubSeq(Held, Played + 1, s_BufferIn)
      BY <2>3, PlayTakes DEF Kept
    <3>2. CASE Played = 0
      <4>1. s_BufferRead \in 0 .. SndSize - 1 /\ s_BufferIn \in Nat
        BY DEF Kept, TypeOK, Cells
      <4>2. s_BufferRead % SndSize = s_BufferRead
        BY <1>1, <4>1, SMTT(30)
      <4>3. UNCHANGED ringVars
        BY <2>3, <3>2, <4>1, <4>2 DEF Play, ringVars
      <4> QED BY <2>1, <4>3
    <3>3. CASE Played # 0
      <4>1. Played \in 1 .. CallbackLen /\ Played <= s_BufferIn
        BY <3>1, <3>3, SoundAssumption DEF Kept, TypeOK
      <4> QED BY <3>1, <4>1
    <3> QED BY <3>2, <3>3
  <2>4. CASE WriteSample
    <3>1. UNCHANGED ringVars \/ WriteOne
      BY <2>4 DEF WriteSample
    <3>2. ASSUME WriteOne
          PROVE  UNCHANGED ringVars \/ \E n \in Nat : Put(n) /\ sample' = NextSample
      <4>1. mode.n \in Nat /\ 1 \in Nat
        BY DEF Kept, TypeOK, Modes
      <4> QED BY <3>2, <4>1 DEF WriteOne
    <3> QED BY <2>1, <2>2, <3>1, <3>2
  <2>5. CASE FillAudio
    BY <2>1, <2>3, <2>5 DEF FillAudio
  <2>6. CASE ~WriteSample /\ ~FillAudio
    <3>1. UNCHANGED ringVars
      BY <2>6 DEF Next, WriteStep, GuiStep, BeginWrite, LockAudio, UnlockAudio,
                  RoomAgain, GiveUp, InitSound, KillSound, SetSpeed, TogglePause
    <3> QED BY <2>1, <3>1
  <2> QED BY <2>4, <2>5, <2>6
<1> QED BY <1>2, AlwaysKept, PTL DEF Spec, FirstInFirstOut

=============================================================================
