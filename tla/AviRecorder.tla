----------------------------- MODULE AviRecorder -----------------------------
(***************************************************************************)
(* The AVI recorder of the Qt driver: the emulator thread puts the picture *)
(* and the sound of each frame into two rings (AviRecord.cpp), the disk    *)
(* thread takes them out and encodes them (AviRecordDiskThread.cpp), the   *)
(* GUI thread starts and stops both (ConsoleRecording.cpp).                *)
(*                                                                         *)
(* A picture is a number of cells, each of them the frame it belongs to,   *)
(* and the sound of a frame is one sample.  A frame here is one that is    *)
(* neither paused nor skipped.  The emulator and GUI threads exclude each  *)
(* other by the mutex of EmuThread: the GUI thread acts between frames,    *)
(* and no frame begins while it waits in aviRecordStop.  A start that      *)
(* fails changes nothing here and has no action.                           *)
(***************************************************************************)
EXTENDS Naturals, Sequences

CONSTANTS
  FrameSizes,      \* the sizes of picture that the video settings choose from
  VideoSize,       \* vbufSize of an open recording
  AudioSize,       \* abufSize of an open recording
  AudioChunkSize,
  StopTimesOut,    \* whether encoding may take longer than a stop waits
  MaxFrames        \* bound on the frames of a recording

ASSUME RecorderAssumption ==
  /\ VideoSize \in Nat \ {0} /\ AudioSize \in Nat \ {0}
  /\ AudioChunkSize \in Nat \ {0}
  /\ FrameSizes # {} /\ FrameSizes \subseteq 1 .. VideoSize
  /\ StopTimesOut \in BOOLEAN
  /\ MaxFrames \in Nat

VARIABLES
  recordEnable, recordAudio,
  allocated,                   \* the buffers exist, and their sizes are not 0
  rawVideoBuf, vbufHead, vbufTail,
  rawAudioBuf, abufHead, abufTail,
  frameSize,                   \* ncol * nrow
  emu, numPixels,              \* where the emulator thread is in a frame
  disk, interrupted, wanted,   \* the disk thread, and its numPixels
  localRecordAudio,
  videoOut,                    \* the picture being put together
  gui,
  added, written,              \* history: what went into and out of the rings
  overfilled, resized, timedOut   \* history: see below

videoVars == <<rawVideoBuf, vbufHead, vbufTail>>
audioVars == <<rawAudioBuf, abufHead, abufTail>>
settings == <<recordAudio, frameSize>>
emuVars == <<emu, numPixels>>
diskVars == <<disk, interrupted, wanted, localRecordAudio, videoOut>>
exempt == <<overfilled, resized, timedOut>>
history == <<added, written, exempt>>
vars == <<recordEnable, allocated, videoVars, audioVars, settings, emuVars,
          diskVars, gui, history>>

vbufSize == IF allocated THEN VideoSize ELSE 0
abufSize == IF allocated THEN AudioSize ELSE 0

Blank == 0
EmptyRing(n) == [i \in 0 .. n - 1 |-> Blank]
NoStreams == [video |-> << >>, audio |-> << >>]

(* The cells of a ring from tail to head.                                  *)
Pending(buf, size, tail, head) ==
  LET n == IF head >= tail THEN head - tail ELSE head + size - tail
  IN  [i \in 1 .. n |-> buf[(tail + i - 1) % size]]

PendingVideo == Pending(rawVideoBuf, VideoSize, vbufTail, vbufHead)
PendingAudio == Pending(rawAudioBuf, AudioSize, abufTail, abufHead)

AudioAvailable ==
  IF abufHead >= abufTail THEN abufHead - abufTail
                          ELSE abufHead - abufTail + abufSize

-----------------------------------------------------------------------------
(* The emulator thread: aviRecordAddFrame and aviRecordAddAudioFrame.      *)

InFrame == emu \in {"room", "copy", "publish", "sound", "again"}

Recorded == IF added.video = << >> THEN 0 ELSE added.video[Len(added.video)]

BeginFrame ==
  /\ emu = "idle" /\ gui = "events"
  /\ recordEnable
  /\ Recorded < MaxFrames
  /\ numPixels' = frameSize
  /\ emu' = "room"
  /\ UNCHANGED <<recordEnable, allocated, videoVars, audioVars, settings,
                 diskVars, gui, history>>

(* Mutant of the next definition: a ring that is empty has no room.        *)
RoomUnlessEmpty(n) ==
  IF vbufTail >= vbufHead THEN n + vbufHead <= vbufTail
                          ELSE n + vbufHead <= vbufTail + vbufSize

(* Mutant of the next definition: the room is that of the whole ring.      *)
RoomUnchecked(n) == n <= vbufSize

(* vbufTail - vbufHead, and vbufSize more if that is not positive.         *)
HasRoom(n) ==
  IF vbufTail > vbufHead THEN n + vbufHead <= vbufTail
                         ELSE n + vbufHead <= vbufTail + vbufSize

(* The end of the loop that waits for room.                                *)
FindRoom ==
  /\ emu = "room"
  /\ HasRoom(numPixels)
  /\ emu' = "copy"
  /\ UNCHANGED <<recordEnable, allocated, videoVars, audioVars, settings,
                 numPixels, diskVars, gui, history>>

CopyPicture ==
  /\ emu = "copy"
  /\ IF allocated
     THEN /\ rawVideoBuf' =
               [i \in 0 .. VideoSize - 1 |->
                  IF \E k \in 0 .. numPixels - 1 : i = (vbufHead + k) % VideoSize
                  THEN Recorded + 1 ELSE rawVideoBuf[i]]
          /\ emu' = "publish"
     ELSE emu' = "crashed" /\ UNCHANGED rawVideoBuf
  /\ UNCHANGED <<recordEnable, allocated, vbufHead, vbufTail, audioVars,
                 settings, numPixels, diskVars, gui, history>>

(* Mutant of the next definition: the head does not wrap.                  *)
PublishUnwrapped ==
  /\ emu = "publish"
  /\ vbufHead' = vbufHead + numPixels
  /\ added' = [added EXCEPT !.video =
                 @ \o [i \in 1 .. numPixels |-> Recorded + 1]]
  /\ overfilled' = overfilled
  /\ emu' = "sound"
  /\ UNCHANGED <<recordEnable, allocated, rawVideoBuf, vbufTail, audioVars,
                 settings, numPixels, diskVars, gui, written, resized,
                 timedOut>>

(* A head that meets the tail has filled the ring exactly: it looks empty. *)
PublishPicture ==
  /\ emu = "publish"
  /\ vbufHead' = (vbufHead + numPixels) % VideoSize
  /\ added' = [added EXCEPT !.video =
                 @ \o [i \in 1 .. numPixels |-> Recorded + 1]]
  /\ overfilled' = (overfilled \/ vbufHead' = vbufTail)
  /\ emu' = "sound"
  /\ UNCHANGED <<recordEnable, allocated, rawVideoBuf, vbufTail, audioVars,
                 settings, numPixels, diskVars, gui, written, resized,
                 timedOut>>

NextHead == (abufHead + 1) % AudioSize

PutSample ==
  /\ NextHead # abufTail
  /\ rawAudioBuf' = [rawAudioBuf EXCEPT ![abufHead] = Recorded]
  /\ abufHead' = NextHead
  /\ added' = [added EXCEPT !.audio = Append(@, Recorded)]

(* The sound of the frame; where the ring is full it is tried once more,   *)
(* a millisecond later, and then dropped.                                  *)
AddSound ==
  /\ emu = "sound"
  /\ IF ~recordEnable \/ ~recordAudio
     THEN emu' = "idle" /\ UNCHANGED <<audioVars, added>>
     ELSE IF ~allocated
     THEN emu' = "crashed" /\ UNCHANGED <<audioVars, added>>
     ELSE \/ emu' = "idle" /\ PutSample /\ UNCHANGED abufTail
          \/ /\ NextHead = abufTail
             /\ emu' = "again" /\ UNCHANGED <<audioVars, added>>
  /\ UNCHANGED <<recordEnable, allocated, videoVars, settings, numPixels,
                 diskVars, gui, written, exempt>>

AddSoundAgain ==
  /\ emu = "again"
  /\ IF ~allocated
     THEN emu' = "crashed" /\ UNCHANGED <<audioVars, added>>
     ELSE /\ emu' = "idle"
          /\ \/ PutSample /\ UNCHANGED abufTail
             \/ NextHead = abufTail /\ UNCHANGED <<audioVars, added>>
  /\ UNCHANGED <<recordEnable, allocated, videoVars, settings, numPixels,
                 diskVars, gui, written, exempt>>

-----------------------------------------------------------------------------
(* The disk thread: AviRecordDiskThread_t::run.                            *)

diskUnchanged == <<settings, emuVars, gui, exempt>>

(* Mutant of the next definition: the size is read once and for all.       *)
DiskBeginOnce ==
  /\ disk = "begin"
  /\ wanted' = IF wanted = 0 THEN frameSize ELSE wanted
  /\ localRecordAudio' = recordAudio
  /\ disk' = "test"
  /\ UNCHANGED <<recordEnable, allocated, videoVars, audioVars, interrupted,
                 videoOut, added, written, diskUnchanged>>

(* The thread fixes the size of the pictures, and whether there is sound.  *)
DiskBegin ==
  /\ disk = "begin"
  /\ wanted' = frameSize
  /\ localRecordAudio' = recordAudio
  /\ disk' = "test"
  /\ UNCHANGED <<recordEnable, allocated, videoVars, audioVars, interrupted,
                 videoOut, added, written, diskUnchanged>>

TestInterruption ==
  /\ disk = "test"
  /\ disk' = IF interrupted THEN "flush" ELSE "drain"
  /\ UNCHANGED <<recordEnable, allocated, videoVars, audioVars, interrupted,
                 wanted, localRecordAudio, videoOut, added, written,
                 diskUnchanged>>

DrainCell ==
  /\ disk = "drain"
  /\ Len(videoOut) < wanted
  /\ vbufTail # vbufHead
  /\ videoOut' = Append(videoOut, rawVideoBuf[vbufTail])
  /\ vbufTail' = (vbufTail + 1) % vbufSize
  /\ UNCHANGED <<recordEnable, allocated, rawVideoBuf, vbufHead, audioVars,
                 disk, interrupted, wanted, localRecordAudio, added, written,
                 diskUnchanged>>

(* The picture is not complete: a millisecond passes.                      *)
SleepForCells ==
  /\ disk = "drain"
  /\ Len(videoOut) < wanted
  /\ vbufTail = vbufHead
  /\ disk' = "test"
  /\ UNCHANGED <<recordEnable, allocated, videoVars, audioVars, interrupted,
                 wanted, localRecordAudio, videoOut, added, written,
                 diskUnchanged>>

EncodePicture ==
  /\ disk = "drain"
  /\ Len(videoOut) >= wanted
  /\ written' = [written EXCEPT !.video = @ \o videoOut]
  /\ videoOut' = << >>
  /\ disk' = "sound"
  /\ UNCHANGED <<recordEnable, allocated, videoVars, audioVars, interrupted,
                 wanted, localRecordAudio, added, diskUnchanged>>

(* The first n samples of the ring go to the file.                         *)
WriteSamples(n) ==
  /\ written' = [written EXCEPT !.audio = @ \o SubSeq(PendingAudio, 1, n)]
  /\ abufTail' = (abufTail + n) % AudioSize
  /\ UNCHANGED <<rawAudioBuf, abufHead>>

(* A chunk of sound after a picture, if there is a whole one.              *)
WriteChunk ==
  /\ disk = "sound"
  /\ IF localRecordAudio /\ AudioAvailable >= AudioChunkSize
     THEN WriteSamples(AudioChunkSize)
     ELSE UNCHANGED <<audioVars, written>>
  /\ disk' = "test"
  /\ UNCHANGED <<recordEnable, allocated, videoVars, interrupted, wanted,
                 localRecordAudio, videoOut, added, diskUnchanged>>

(* After the interruption the rest of the sound is written, and the        *)
(* pictures that are still in the ring are not.                            *)
FlushSound ==
  /\ disk = "flush"
  /\ IF localRecordAudio /\ AudioAvailable > 0
     THEN WriteSamples(AudioAvailable)
     ELSE UNCHANGED <<audioVars, written>>
  /\ disk' = "close"
  /\ UNCHANGED <<recordEnable, allocated, videoVars, interrupted, wanted,
                 localRecordAudio, videoOut, added, diskUnchanged>>

(* aviRecordClose; closing the file lies between its first line and the    *)
(* rest.                                                                   *)
DisableRecord ==
  /\ disk = "close"
  /\ recordEnable' = FALSE
  /\ disk' = "free"
  /\ UNCHANGED <<allocated, videoVars, audioVars, interrupted, wanted,
                 localRecordAudio, videoOut, added, written, diskUnchanged>>

FreeBuffers ==
  /\ disk = "free"
  /\ allocated' = FALSE
  /\ vbufTail' = 0 /\ abufTail' = 0
  /\ rawVideoBuf' = EmptyRing(VideoSize)
  /\ rawAudioBuf' = EmptyRing(AudioSize)
  /\ disk' = "ending"
  /\ UNCHANGED <<recordEnable, vbufHead, abufHead, interrupted, wanted,
                 localRecordAudio, videoOut, added, written, diskUnchanged>>

EndThread ==
  /\ disk = "ending"
  /\ disk' = "off"
  /\ videoOut' = << >>
  /\ UNCHANGED <<recordEnable, allocated, videoVars, audioVars, interrupted,
                 wanted, localRecordAudio, added, written, diskUnchanged>>

-----------------------------------------------------------------------------
(* The GUI thread.                                                         *)

(* aviRecordOpenFile under the mutex, and QThread::start, which does       *)
(* nothing to a thread that is still running.  If the thread of an earlier *)
(* recording has ended, nothing of it is left.                             *)
Start ==
  /\ gui = "events" /\ emu = "idle"
  /\ ~recordEnable
  /\ recordEnable' = TRUE /\ allocated' = TRUE
  /\ rawVideoBuf' = EmptyRing(VideoSize) /\ vbufHead' = 0 /\ vbufTail' = 0
  /\ rawAudioBuf' = EmptyRing(AudioSize) /\ abufHead' = 0 /\ abufTail' = 0
  /\ IF disk = "off"
     THEN disk' = "begin" /\ interrupted' = FALSE /\ timedOut' = FALSE
     ELSE UNCHANGED <<disk, interrupted, timedOut>>
  /\ added' = NoStreams /\ written' = NoStreams
  /\ overfilled' = FALSE /\ resized' = FALSE
  /\ UNCHANGED <<settings, emuVars, wanted, localRecordAudio, videoOut, gui>>

Interrupt == interrupted' = (interrupted \/ disk # "off")

(* Mutant of the next definition: the thread is stopped within a frame.    *)
StopUnlocked ==
  /\ gui = "events"
  /\ recordEnable
  /\ Interrupt
  /\ gui' = "stopping"
  /\ UNCHANGED <<recordEnable, allocated, videoVars, audioVars, settings,
                 emuVars, disk, wanted, localRecordAudio, videoOut, history>>

(* aviRecordStop takes the mutex and waits for the disk thread.            *)
Stop ==
  /\ gui = "events" /\ emu = "idle"
  /\ recordEnable
  /\ Interrupt
  /\ gui' = "stopping"
  /\ UNCHANGED <<recordEnable, allocated, videoVars, audioVars, settings,
                 emuVars, disk, wanted, localRecordAudio, videoOut, history>>

(* closeApp, when the emulator thread has ended.                           *)
CloseApp ==
  /\ gui = "events" /\ emu = "idle"
  /\ Interrupt
  /\ gui' = "closing"
  /\ UNCHANGED <<recordEnable, allocated, videoVars, audioVars, settings,
                 emuVars, disk, wanted, localRecordAudio, videoOut, history>>

Return ==
  /\ gui \in {"stopping", "closing"}
  /\ gui' = IF gui = "stopping" THEN "events" ELSE "closed"
  /\ UNCHANGED <<recordEnable, allocated, videoVars, audioVars, settings,
                 emuVars, diskVars, added, written, overfilled, resized>>

Joined ==
  /\ disk = "off"
  /\ Return
  /\ UNCHANGED timedOut

(* wait(10000) returns without the thread, which nothing looks at.         *)
WaitTimesOut ==
  /\ StopTimesOut
  /\ disk # "off"
  /\ Return
  /\ timedOut' = TRUE

(* The video settings change the size of the picture, at any time.         *)
ChangeSize ==
  /\ gui = "events"
  /\ frameSize' \in FrameSizes \ {frameSize}
  /\ resized' = (resized \/ disk # "off")
  /\ UNCHANGED <<recordEnable, recordAudio, allocated, videoVars, audioVars,
                 emuVars, diskVars, gui, added, written, overfilled, timedOut>>

SetAudioEnable ==
  /\ gui = "events"
  /\ recordAudio' = ~recordAudio
  /\ UNCHANGED <<recordEnable, frameSize, allocated, videoVars, audioVars,
                 emuVars, diskVars, gui, history>>

-----------------------------------------------------------------------------
Init ==
  /\ recordEnable = FALSE /\ recordAudio = TRUE /\ allocated = FALSE
  /\ rawVideoBuf = EmptyRing(VideoSize) /\ vbufHead = 0 /\ vbufTail = 0
  /\ rawAudioBuf = EmptyRing(AudioSize) /\ abufHead = 0 /\ abufTail = 0
  /\ frameSize \in FrameSizes
  /\ emu = "idle" /\ numPixels = 0
  /\ disk = "off" /\ interrupted = FALSE /\ wanted = 0
  /\ localRecordAudio = FALSE /\ videoOut = << >>
  /\ gui = "events"
  /\ added = NoStreams /\ written = NoStreams
  /\ overfilled = FALSE /\ resized = FALSE /\ timedOut = FALSE

FrameStep ==
  FindRoom \/ CopyPicture \/ PublishPicture \/ AddSound \/ AddSoundAgain

DiskStep ==
  \/ DiskBegin \/ TestInterruption \/ DrainCell \/ SleepForCells
  \/ EncodePicture \/ WriteChunk \/ FlushSound
  \/ DisableRecord \/ FreeBuffers \/ EndThread

GuiStep ==
  \/ Start \/ Stop \/ CloseApp \/ Joined \/ WaitTimesOut
  \/ ChangeSize \/ SetAudioEnable

(* The process ends by closing, or by an access to a ring that was freed.  *)
Running == gui # "closed" /\ emu # "crashed"

Ended == ~Running /\ UNCHANGED vars

Next ==
  \/ Running /\ (BeginFrame \/ FrameStep \/ DiskStep \/ GuiStep)
  \/ Ended

(* A thread that is in a frame, or has been started, is scheduled; the     *)
(* encoder returns.                                                        *)
Fairness == WF_vars(Running /\ FrameStep) /\ WF_vars(Running /\ DiskStep)

Spec == Init /\ [][Next]_vars /\ Fairness

-----------------------------------------------------------------------------
(* Type invariant; the indices of an open recording are in its rings.      *)
TypeOK ==
  /\ recordEnable \in BOOLEAN /\ recordAudio \in BOOLEAN
  /\ allocated \in BOOLEAN
  /\ rawVideoBuf \in [0 .. VideoSize - 1 -> Nat]
  /\ vbufHead \in 0 .. VideoSize - 1 /\ vbufTail \in 0 .. VideoSize - 1
  /\ rawAudioBuf \in [0 .. AudioSize - 1 -> Nat]
  /\ abufHead \in 0 .. AudioSize - 1 /\ abufTail \in 0 .. AudioSize - 1
  /\ frameSize \in FrameSizes /\ numPixels \in FrameSizes \cup {0}
  /\ wanted \in FrameSizes \cup {0}
  /\ emu \in {"idle", "room", "copy", "publish", "sound", "again", "crashed"}
  /\ disk \in {"off", "begin", "test", "drain", "sound", "flush", "close",
               "free", "ending"}
  /\ gui \in {"events", "stopping", "closing", "closed"}
  /\ interrupted \in BOOLEAN /\ localRecordAudio \in BOOLEAN
  /\ videoOut \in Seq(Nat)
  /\ added \in [video : Seq(Nat), audio : Seq(Nat)]
  /\ written \in [video : Seq(Nat), audio : Seq(Nat)]
  /\ overfilled \in BOOLEAN /\ resized \in BOOLEAN /\ timedOut \in BOOLEAN

(* What the emulator thread puts into the rings is written to the file in  *)
(* its order, or is still in the rings: nothing is lost between the two    *)
(* threads, overwritten before it is read or read twice, whatever sizes    *)
(* the pictures have.  A video ring that is filled exactly is taken for an *)
(* empty one, and loses what it holds.                                     *)
NothingLost ==
  allocated /\ ~timedOut =>
    /\ added.audio = written.audio \o PendingAudio
    /\ ~overfilled => added.video = written.video \o videoOut \o PendingVideo

(* A picture in the file is one whole frame, although the two threads read *)
(* its size each by itself and at different times: the emulator thread for *)
(* every frame, the disk thread when it has begun.  A size that changes    *)
(* during the recording cuts the cells into other pictures.                *)
PicturesWhole ==
  allocated /\ ~timedOut /\ ~overfilled /\ ~resized =>
    /\ Len(written.video) % frameSize = 0
    /\ \A i \in DOMAIN written.video :
         written.video[i] = (i - 1) \div frameSize + 1

(* Unless a stop has run out of time and its thread goes on beside the     *)
(* next recording, a frame that is recorded finds its rings until it has   *)
(* used them, and every recording a thread that empties them.              *)
Served ==
  ~timedOut =>
    /\ emu # "crashed"
    /\ InFrame => allocated
    /\ recordEnable => disk \notin {"off", "free", "ending"}

(* A frame that waits for room in a ring, with the mutex, does not wait    *)
(* for ever: the emulator and with it the GUI go on.                       *)
FrameEnds == InFrame ~> (emu = "idle" \/ timedOut)

=============================================================================
