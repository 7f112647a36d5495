------------------------------ MODULE SoundRing -------------------------------
(***************************************************************************)
(* The ring of sound samples between the emulator thread, which writes the *)
(* samples of a frame (WriteSound), and the callback of the audio device,  *)
(* which plays them (fillaudio), in sdl-sound.cpp.  WriteSound holds the   *)
(* lock of the audio device, without which the callback does not run,      *)
(* except while it waits for a full ring.                                  *)
(*                                                                         *)
(* A sample is a number that tells it from its neighbours in the ring.     *)
(* Volume, mute and the noise gate change how a sample sounds, not which   *)
(* one is played, and are left out.  The turbo mode writes nothing.        *)
(***************************************************************************)
EXTENDS Naturals, Sequences

CONSTANTS
  SndSize,       \* s_BufferSize
  CallbackLen,   \* the samples that the device asks for at once
  FrameLen,      \* the samples of a frame
  Unit,          \* the 1000 of the overflow mode
  Speeds,        \* emulation speeds, as WriteSound rounds them
  SampleIds,     \* bound on the numbers of samples
  MaxIn          \* bound on the count of a ring that was overrun

(* A speed is [slow |-> FALSE, factor |-> (int)(g_fpsScale * Unit)] or     *)
(* [slow |-> TRUE, factor |-> (int)(1 / g_fpsScale)].                      *)
ASSUME SoundAssumption ==
  /\ SndSize \in Nat \ {0} /\ CallbackLen \in Nat \ {0}
  /\ FrameLen \in Nat \ {0} /\ Unit \in Nat \ {0}
  /\ SampleIds \in Nat \ {0} /\ MaxIn \in Nat
  /\ Speeds # {} /\ Speeds \subseteq [slow : BOOLEAN, factor : Nat \ {0}]

VARIABLES
  open,                                  \* the device is open, with its ring
  s_Buffer, s_BufferRead, s_BufferWrite, s_BufferIn,
  fillInit,                              \* not yet filled to a quarter
  skipCounter,
  speed, paused,                         \* g_fpsScale, EmulationPaused
  emu,                                   \* where WriteSound is
  mode, count,                           \* how it writes, and what is left
  sample                                 \* history: the last one produced

ringVars == <<s_Buffer, s_BufferRead, s_BufferWrite, s_BufferIn>>
controls == <<speed, paused>>
vars == <<open, ringVars, fillInit, skipCounter, controls, emu, mode, count,
          sample>>

Cells == 0 .. SndSize - 1
Samples == 0 .. SampleIds - 1
Silence == 0

Size25 == SndSize \div 4
Size50 == SndSize \div 2
Size75 == (3 * SndSize) \div 4

(* A sample is written dup times over, or one for one, or one of them for  *)
(* every skip units counted.                                               *)
Modes == [kind : {"dup", "one", "skip"}, n : Nat]

-----------------------------------------------------------------------------
(* WriteSound.                                                             *)

Dup ==
  IF s_BufferIn < Size50 THEN speed.factor + 1
  ELSE IF s_BufferIn > Size75 THEN speed.factor - 1
  ELSE speed.factor

Skip == IF s_BufferIn >= Size50 THEN speed.factor + 1 ELSE speed.factor

Chosen ==
  IF speed.slow
  THEN IF Dup > 1 THEN [kind |-> "dup", n |-> Dup] ELSE [kind |-> "one", n |-> 1]
  ELSE IF Skip <= Unit THEN [kind |-> "one", n |-> 1]
                       ELSE [kind |-> "skip", n |-> Skip]

(* The mode is chosen before the lock is taken.                            *)
BeginWrite ==
  /\ emu = "idle"
  /\ open /\ ~paused
  /\ s_BufferIn <= MaxIn
  /\ mode' = Chosen
  /\ count' = FrameLen
  /\ skipCounter' = IF Chosen.kind = "one" THEN 0 ELSE skipCounter
  /\ emu' = "lock"
  /\ UNCHANGED <<open, ringVars, fillInit, controls, sample>>

LockAudio ==
  /\ emu = "lock"
  /\ emu' = "write"
  /\ UNCHANGED <<open, ringVars, fillInit, skipCounter, controls, mode, count,
                 sample>>

NextSample == (sample + 1) % SampleIds

(* Mutant of the next definition: one of the n is stored.                  *)
PutOnce(n) ==
  /\ s_Buffer' = [s_Buffer EXCEPT ![s_BufferWrite] = NextSample]
  /\ s_BufferWrite' = (s_BufferWrite + n) % SndSize
  /\ s_BufferIn' = s_BufferIn + n
  /\ UNCHANGED s_BufferRead

(* The next sample goes into the ring n times.                             *)
Put(n) ==
  /\ s_Buffer' = [i \in Cells |->
                    IF \E k \in 0 .. n - 1 : i = (s_BufferWrite + k) % SndSize
                    THEN NextSample ELSE s_Buffer[i]]
  /\ s_BufferWrite' = (s_BufferWrite + n) % SndSize
  /\ s_BufferIn' = s_BufferIn + n
  /\ UNCHANGED s_BufferRead

WriteOne ==
  /\ IF mode.kind # "skip"
     THEN Put(mode.n) /\ UNCHANGED skipCounter
     ELSE IF skipCounter >= mode.n
     THEN Put(1) /\ skipCounter' = skipCounter - mode.n + Unit
     ELSE UNCHANGED ringVars /\ skipCounter' = skipCounter + Unit
  /\ count' = count - 1
  /\ sample' = NextSample

(* Mutant of the next definition: a full ring is written to.               *)
WriteUnchecked ==
  /\ emu = "write"
  /\ count > 0
  /\ WriteOne /\ UNCHANGED emu
  /\ UNCHANGED <<open, fillInit, controls, mode>>

(* A sample is written, or the ring is found to be full.                   *)
WriteSample ==
  /\ emu = "write"
  /\ count > 0
  /\ IF s_BufferIn = SndSize
     THEN emu' = "full" /\ UNCHANGED <<ringVars, skipCounter, count, sample>>
     ELSE WriteOne /\ UNCHANGED emu
  /\ UNCHANGED <<open, fillInit, controls, mode>>

UnlockAudio ==
  /\ emu = "write"
  /\ count = 0
  /\ emu' = "idle"
  /\ UNCHANGED <<open, ringVars, fillInit, skipCounter, controls, mode, count,
                 sample>>

RoomAgain ==
  /\ emu = "full"
  /\ s_BufferIn # SndSize
  /\ emu' = "lock"
  /\ UNCHANGED <<open, ringVars, fillInit, skipCounter, controls, mode, count,
                 sample>>

(* Mutant of the next definition: it waits for as long as it takes.        *)
NeverGiveUp == FALSE /\ UNCHANGED vars

(* The waits of the call add up to a second: the rest of the frame is      *)
(* lost, even where the last of them has brought room.                     *)
GiveUp ==
  /\ emu = "full"
  /\ emu' = "idle"
  /\ UNCHANGED <<open, ringVars, fillInit, skipCounter, controls, mode, count,
                 sample>>

-----------------------------------------------------------------------------
(* The callback of the device.                                             *)

FilledOnce == ~fillInit \/ s_BufferIn > Size25

Played == IF s_BufferIn < CallbackLen THEN s_BufferIn ELSE CallbackLen

(* Mutant of the next definition: it plays on past what there is.          *)
PlayOn ==
  /\ s_BufferRead' = (s_BufferRead + CallbackLen) % SndSize
  /\ s_BufferIn' = s_BufferIn - CallbackLen
  /\ UNCHANGED <<s_Buffer, s_BufferWrite>>

(* Mutant of the next definition: the count is reset, not decremented.     *)
PlayAll ==
  /\ s_BufferRead' = (s_BufferRead + Played) % SndSize
  /\ s_BufferIn' = 0
  /\ UNCHANGED <<s_Buffer, s_BufferWrite>>

(* Past the samples that there are it repeats the last one.                *)
Play ==
  /\ s_BufferRead' = (s_BufferRead + Played) % SndSize
  /\ s_BufferIn' = s_BufferIn - Played
  /\ UNCHANGED <<s_Buffer, s_BufferWrite>>

FillAudio ==
  /\ open /\ emu # "write"
  /\ fillInit' = ~FilledOnce
  /\ IF paused \/ ~FilledOnce THEN UNCHANGED ringVars ELSE Play
  /\ UNCHANGED <<open, skipCounter, controls, emu, mode, count, sample>>

-----------------------------------------------------------------------------
(* The GUI thread; sound is opened and closed between frames.              *)

InitSound ==
  /\ emu = "idle" /\ ~open
  /\ open' = TRUE
  /\ fillInit' = TRUE
  /\ s_Buffer' = [i \in Cells |-> Silence]
  /\ s_BufferRead' = 0 /\ s_BufferWrite' = 0 /\ s_BufferIn' = 0
  /\ UNCHANGED <<skipCounter, controls, emu, mode, count, sample>>

KillSound ==
  /\ emu = "idle" /\ open
  /\ open' = FALSE
  /\ s_Buffer' = [i \in Cells |-> Silence]
  /\ s_BufferIn' = 0
  /\ UNCHANGED <<s_BufferRead, s_BufferWrite, fillInit, skipCounter, controls,
                 emu, mode, count, sample>>

SetSpeed ==
  /\ speed' \in Speeds \ {speed}
  /\ UNCHANGED <<open, ringVars, fillInit, skipCounter, paused, emu, mode,
                 count, sample>>

TogglePause ==
  /\ paused' = ~paused
  /\ UNCHANGED <<open, ringVars, fillInit, skipCounter, speed, emu, mode,
                 count, sample>>

-----------------------------------------------------------------------------
Init ==
  /\ open = FALSE
  /\ s_Buffer = [i \in Cells |-> Silence]
  /\ s_BufferRead = 0 /\ s_BufferWrite = 0 /\ s_BufferIn = 0
  /\ fillInit = TRUE
  /\ skipCounter = 0
  /\ speed \in Speeds /\ paused = FALSE
  /\ emu = "idle" /\ mode = [kind |-> "one", n |-> 1] /\ count = 0
  /\ sample = Silence

WriteStep ==
  LockAudio \/ WriteSample \/ UnlockAudio \/ RoomAgain \/ GiveUp

GuiStep == InitSound \/ KillSound \/ SetSpeed \/ TogglePause

Next == BeginWrite \/ WriteStep \/ FillAudio \/ GuiStep

(* The emulator thread is scheduled, and its second comes to an end.  The  *)
(* device may stop asking for samples.                                     *)
Fairness == WF_vars(WriteStep)

Spec == Init /\ [][Next]_vars /\ Fairness

-----------------------------------------------------------------------------
(* Type invariant.                                                         *)
TypeOK ==
  /\ open \in BOOLEAN /\ fillInit \in BOOLEAN /\ paused \in BOOLEAN
  /\ s_Buffer \in [Cells -> Samples]
  /\ s_BufferRead \in Cells /\ s_BufferWrite \in Cells
  /\ s_BufferIn \in Nat /\ skipCounter \in Nat /\ count \in Nat
  /\ speed \in Speeds /\ mode \in Modes /\ sample \in Samples
  /\ emu \in {"idle", "lock", "write", "full"}

(* The two cursors and the count, each kept by another thread, agree while *)
(* the device is open, even after the ring has been overrun.               *)
CursorsAgree == open => s_BufferWrite = (s_BufferRead + s_BufferIn) % SndSize

Held == [i \in 1 .. s_BufferIn |-> s_Buffer[(s_BufferRead + i - 1) % SndSize]]

(* What is played is what was written, once each and in its order: a step  *)
(* appends to the samples held or takes from their front.  Written over    *)
(* its size the ring has lost that order.                                  *)
FirstInFirstOut ==
  [][open /\ open' /\ s_BufferIn <= SndSize /\ s_BufferIn' <= SndSize =>
       \/ \E n \in 0 .. FrameLen * SndSize :
            Held' = Held \o [i \in 1 .. n |-> sample']
       \/ \E n \in 1 .. CallbackLen :
            n <= s_BufferIn /\ Held' = SubSeq(Held, n + 1, s_BufferIn)]_vars

(* Only samples that are written several times over, below full speed, can *)
(* overrun the ring: its test for a full ring is for equality.  Otherwise  *)
(* GetWriteSound, a difference of unsigned numbers, is "the amount of free *)
(* space in the audio buffer" that its comment says it is.                 *)
OverrunOnlyWhenSlow ==
  [][s_BufferIn <= SndSize /\ s_BufferIn' > SndSize => mode.kind = "dup"]_vars

(* A frame comes to its end whatever the device does, while the emulator   *)
(* thread holds the mutex that the GUI waits for.                          *)
WriteEnds == (emu # "idle") ~> (emu = "idle")

=============================================================================
