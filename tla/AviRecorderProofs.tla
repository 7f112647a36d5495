--------------------------- MODULE AviRecorderProofs ---------------------------
(***************************************************************************)
(* The AVI recorder for rings, pictures and chunks of any size: its types, *)
(* that the rings outlive their users, and that nothing is lost in them.   *)
(***************************************************************************)
EXTENDS AviRecorder, RingArithmetic

DiskHasBuffers == disk \notin {"off", "ending"} => allocated

NoPicture == disk = "off" => videoOut = << >>

(* What the three threads know of each other, as long as no stop has run   *)
(* out of time.                                                            *)
InStep ==
  ~timedOut =>
    /\ gui = "events" /\ disk # "off" => ~interrupted
    /\ disk \in {"flush", "close", "free", "ending"} => interrupted
    /\ recordEnable <=>
         disk \in {"begin", "test", "drain", "sound", "flush", "close"}
    /\ allocated <=> disk \notin {"off", "ending"}
    /\ InFrame =>
         gui = "events" /\ disk \in {"begin", "test", "drain", "sound"}
    /\ emu # "crashed"

Kept == TypeOK /\ DiskHasBuffers /\ NoPicture /\ InStep

-----------------------------------------------------------------------------
(* Types.                                                                  *)

LEMMA SizesTyped ==
  /\ VideoSize \in Nat \ {0} /\ AudioSize \in Nat \ {0}
  /\ AudioChunkSize \in Nat \ {0} /\ FrameSizes \subseteq Nat
  BY RecorderAssumption

LEMMA RecordedTyped ==
  ASSUME TypeOK
  PROVE  Recorded \in Nat
<1>1. added.video \in Seq(Nat)
  BY DEF TypeOK
<1>2. CASE added.video # << >>
  <2>1. Len(added.video) \in 1 .. Len(added.video)
    BY <1>1, <1>2, EmptySeq
  <2> QED BY <1>1, <2>1, ElementOfSeq DEF Recorded
<1> QED BY <1>2 DEF Recorded

LEMMA EmptyTyped ==
  /\ EmptyRing(VideoSize) \in [0 .. VideoSize - 1 -> Nat]
  /\ EmptyRing(AudioSize) \in [0 .. AudioSize - 1 -> Nat]
  /\ 0 \in 0 .. VideoSize - 1 /\ 0 \in 0 .. AudioSize - 1
  /\ NoStreams \in [video : Seq(Nat), audio : Seq(Nat)]
  BY SizesTyped DEF EmptyRing, Blank, NoStreams

LEMMA PutSampleTyped ==
  ASSUME TypeOK, PutSample, UNCHANGED abufTail
  PROVE  /\ rawAudioBuf' \in [0 .. AudioSize - 1 -> Nat]
         /\ abufHead' \in 0 .. AudioSize - 1 /\ abufTail' \in 0 .. AudioSize - 1
         /\ added' \in [video : Seq(Nat), audio : Seq(Nat)]
<1>1. Recorded \in Nat /\ AudioSize \in Nat \ {0} /\ abufHead + 1 \in Nat
  <2>1. abufHead \in 0 .. AudioSize - 1
    BY DEF TypeOK
  <2> QED BY <2>1, RecordedTyped, SizesTyped
<1>2. abufHead' \in 0 .. AudioSize - 1
  BY <1>1, Quotient DEF PutSample, NextHead
<1>3. added' \in [video : Seq(Nat), audio : Seq(Nat)]
  <2>1. added.audio \in Seq(Nat)
    BY DEF TypeOK
  <2>2. Append(added.audio, Recorded) \in Seq(Nat)
    BY <1>1, <2>1, AppendProperties
  <2> QED BY <2>2 DEF PutSample, TypeOK
<1> QED BY <1>1, <1>2, <1>3 DEF PutSample, TypeOK

LEMMA PublishTyped ==
  ASSUME TypeOK, PublishPicture
  PROVE  /\ vbufHead' \in 0 .. VideoSize - 1
         /\ added' \in [video : Seq(Nat), audio : Seq(Nat)]
<1>1. /\ Recorded + 1 \in Nat /\ VideoSize \in Nat \ {0}
      /\ numPixels \in Nat /\ vbufHead + numPixels \in Nat
  <2>1. vbufHead \in 0 .. VideoSize - 1 /\ numPixels \in FrameSizes \cup {0}
    BY DEF TypeOK
  <2> QED BY <2>1, RecordedTyped, SizesTyped
<1>2. vbufHead' \in 0 .. VideoSize - 1
  BY <1>1, Quotient DEF PublishPicture
<1> DEFINE more == [i \in 1 .. numPixels |-> Recorded + 1]
<1>3. more \in Seq(Nat)
  BY <1>1
<1> HIDE DEF more
<1>4. added.video \in Seq(Nat)
  BY DEF TypeOK
<1>5. added.video \o more \in Seq(Nat)
  BY <1>3, <1>4, ConcatProperties
<1> QED BY <1>2, <1>5 DEF PublishPicture, TypeOK, more

(* The samples that are pending are those that AudioAvailable counts.      *)
LEMMA AudioPending ==
  ASSUME TypeOK, allocated
  PROVE  /\ AudioAvailable = Distance(AudioSize, abufTail, abufHead)
         /\ AudioAvailable \in Nat
         /\ PendingAudio = Content(rawAudioBuf, AudioSize, abufTail, AudioAvailable)
<1>1. /\ AudioSize \in Nat \ {0}
      /\ abufTail \in 0 .. AudioSize - 1 /\ abufHead \in 0 .. AudioSize - 1
  BY SizesTyped DEF TypeOK
<1>2. AudioAvailable = Distance(AudioSize, abufTail, abufHead)
  BY <1>1 DEF AudioAvailable, Distance, abufSize
<1>3. AudioAvailable \in Nat
  BY <1>1, <1>2, HeadOf
<1> QED BY <1>2, <1>3 DEF PendingAudio, Pending, Content, Cell, Distance

LEMMA WriteSamplesTyped ==
  ASSUME TypeOK, allocated, NEW n \in 0 .. AudioAvailable, WriteSamples(n)
  PROVE  /\ rawAudioBuf' \in [0 .. AudioSize - 1 -> Nat]
         /\ abufHead' \in 0 .. AudioSize - 1 /\ abufTail' \in 0 .. AudioSize - 1
         /\ written' \in [video : Seq(Nat), audio : Seq(Nat)]
<1>1. /\ AudioSize \in Nat \ {0} /\ abufTail \in 0 .. AudioSize - 1
      /\ rawAudioBuf \in [0 .. AudioSize - 1 -> Nat]
      /\ AudioAvailable \in Nat /\ n \in Nat /\ abufTail + n \in Nat
  <2>1. /\ abufTail \in 0 .. AudioSize - 1
        /\ rawAudioBuf \in [0 .. AudioSize - 1 -> Nat]
    BY DEF TypeOK
  <2>2. AudioAvailable \in Nat
    BY AudioPending
  <2> QED BY <2>1, <2>2, SizesTyped
<1>2. abufTail' \in 0 .. AudioSize - 1
  BY <1>1, Quotient DEF WriteSamples
<1>3. PendingAudio \in Seq(Nat) /\ Len(PendingAudio) = AudioAvailable
  BY <1>1, AudioPending, ContentSeq
<1>4. SubSeq(PendingAudio, 1, n) \in Seq(Nat)
  <2>1. \A i \in 1 .. n : PendingAudio[i] \in Nat
    BY <1>1, <1>3, ElementOfSeq
  <2> QED BY <1>1, <1>3, <2>1, SubSeqProperties
<1>5. written.audio \in Seq(Nat)
  BY DEF TypeOK
<1>6. written.audio \o SubSeq(PendingAudio, 1, n) \in Seq(Nat)
  BY <1>4, <1>5, ConcatProperties
<1> QED BY <1>2, <1>6 DEF WriteSamples, TypeOK

LEMMA DrainTyped ==
  ASSUME Kept, DrainCell
  PROVE  videoOut' \in Seq(Nat) /\ vbufTail' \in 0 .. VideoSize - 1
<1>1. /\ VideoSize \in Nat \ {0} /\ vbufSize = VideoSize
      /\ vbufTail \in 0 .. VideoSize - 1 /\ vbufTail + 1 \in Nat
      /\ videoOut \in Seq(Nat) /\ rawVideoBuf[vbufTail] \in Nat
  BY SizesTyped DEF Kept, TypeOK, DiskHasBuffers, DrainCell, vbufSize
<1>2. vbufTail' \in 0 .. VideoSize - 1
  BY <1>1, Quotient DEF DrainCell
<1> QED BY <1>1, <1>2, AppendProperties DEF DrainCell

LEMMA EncodeTyped ==
  ASSUME TypeOK, EncodePicture
  PROVE  written' \in [video : Seq(Nat), audio : Seq(Nat)]
<1>1. written.video \in Seq(Nat) /\ videoOut \in Seq(Nat)
  BY DEF TypeOK
<1>2. written.video \o videoOut \in Seq(Nat)
  BY <1>1, ConcatProperties
<1> QED BY <1>2 DEF EncodePicture, TypeOK

LEMMA FrameTyped ==
  ASSUME TypeOK, BeginFrame \/ FrameStep
  PROVE  TypeOK'
<1> USE DEF TypeOK, settings, emuVars, diskVars, history, exempt, videoVars, audioVars
<1>1. CASE BeginFrame
  BY <1>1 DEF BeginFrame
<1>2. CASE FindRoom
  BY <1>2 DEF FindRoom
<1>3. CASE CopyPicture
  <2>1. Recorded + 1 \in Nat
    BY RecordedTyped
  <2>2. rawVideoBuf' \in [0 .. VideoSize - 1 -> Nat]
    BY <1>3, <2>1 DEF CopyPicture
  <2>3. emu' \in {"publish", "crashed"}
    BY <1>3 DEF CopyPicture
  <2> QED BY <1>3, <2>2, <2>3 DEF CopyPicture
<1>4. CASE PublishPicture
  <2>1. /\ vbufHead' \in 0 .. VideoSize - 1
        /\ added' \in [video : Seq(Nat), audio : Seq(Nat)]
    BY <1>4, PublishTyped
  <2>2. overfilled' \in BOOLEAN /\ emu' = "sound"
    BY <1>4 DEF PublishPicture
  <2> QED BY <1>4, <2>1, <2>2, SMTT(30) DEF PublishPicture
<1>5. CASE AddSound
  BY <1>5, PutSampleTyped, SMTT(30) DEF AddSound
<1>6. CASE AddSoundAgain
  <2>1. CASE UNCHANGED <<audioVars, added>>
    BY <1>6, <2>1 DEF AddSoundAgain
  <2>2. CASE PutSample /\ UNCHANGED abufTail
    <3>1. /\ rawAudioBuf' \in [0 .. AudioSize - 1 -> Nat]
          /\ abufHead' \in 0 .. AudioSize - 1
          /\ abufTail' \in 0 .. AudioSize - 1
          /\ added' \in [video : Seq(Nat), audio : Seq(Nat)]
      BY <2>2, PutSampleTyped
    <3>2. emu' \in {"idle", "crashed"}
      BY <1>6 DEF AddSoundAgain
    <3> QED BY <1>6, <3>1, <3>2 DEF AddSoundAgain
  <2> QED BY <1>6, <2>1, <2>2 DEF AddSoundAgain
<1> QED BY <1>1, <1>2, <1>3, <1>4, <1>5, <1>6 DEF FrameStep

LEMMA DiskTyped ==
  ASSUME Kept, DiskStep
  PROVE  TypeOK'
<1> USE DEF TypeOK, settings, emuVars, diskVars, history, exempt, videoVars, audioVars,
            diskUnchanged, exempt
<1>0. TypeOK
  BY DEF Kept
<1>1. CASE DiskBegin
  BY <1>0, <1>1 DEF DiskBegin
<1>2. CASE TestInterruption
  BY <1>0, <1>2 DEF TestInterruption
<1>3. CASE DrainCell
  BY <1>0, <1>3, DrainTyped, SMTT(30) DEF DrainCell
<1>4. CASE SleepForCells
  BY <1>0, <1>4 DEF SleepForCells
<1>5. CASE EncodePicture
  BY <1>0, <1>5, EncodeTyped, SMTT(30) DEF EncodePicture
<1>6. CASE WriteChunk
  <2>1. allocated
    BY <1>6 DEF WriteChunk, Kept, DiskHasBuffers
  <2>2. CASE UNCHANGED <<audioVars, written>>
    BY <1>0, <1>6, <2>2 DEF WriteChunk
  <2>3. CASE AudioAvailable >= AudioChunkSize /\ WriteSamples(AudioChunkSize)
    <3>1. AudioChunkSize \in 0 .. AudioAvailable
      BY <1>0, <2>1, <2>3, AudioPending, SizesTyped
    <3>2. /\ rawAudioBuf' \in [0 .. AudioSize - 1 -> Nat]
          /\ abufHead' \in 0 .. AudioSize - 1
          /\ abufTail' \in 0 .. AudioSize - 1
          /\ written' \in [video : Seq(Nat), audio : Seq(Nat)]
      BY <1>0, <2>1, <2>3, <3>1, WriteSamplesTyped
    <3> QED BY <1>0, <1>6, <3>2 DEF WriteChunk
  <2> QED BY <1>6, <2>2, <2>3 DEF WriteChunk
<1>7. CASE FlushSound
  <2>1. allocated
    BY <1>7 DEF FlushSound, Kept, DiskHasBuffers
  <2>2. CASE UNCHANGED <<audioVars, written>>
    BY <1>0, <1>7, <2>2 DEF FlushSound
  <2>3. CASE WriteSamples(AudioAvailable)
    <3>1. AudioAvailable \in 0 .. AudioAvailable
      BY <1>0, <2>1, AudioPending
    <3>2. /\ rawAudioBuf' \in [0 .. AudioSize - 1 -> Nat]
          /\ abufHead' \in 0 .. AudioSize - 1
          /\ abufTail' \in 0 .. AudioSize - 1
          /\ written' \in [video : Seq(Nat), audio : Seq(Nat)]
      BY <1>0, <2>1, <2>3, <3>1, WriteSamplesTyped
    <3> QED BY <1>0, <1>7, <3>2 DEF FlushSound
  <2> QED BY <1>7, <2>2, <2>3 DEF FlushSound
<1>8. CASE DisableRecord
  <2>1. recordEnable' \in BOOLEAN /\ disk' = "free"
    BY <1>8 DEF DisableRecord
  <2> QED BY <1>0, <1>8, <2>1 DEF DisableRecord
<1>9. CASE FreeBuffers
  <2>1. /\ allocated' \in BOOLEAN /\ disk' = "ending"
        /\ rawVideoBuf' \in [0 .. VideoSize - 1 -> Nat]
        /\ rawAudioBuf' \in [0 .. AudioSize - 1 -> Nat]
        /\ vbufTail' \in 0 .. VideoSize - 1
        /\ abufTail' \in 0 .. AudioSize - 1
    BY <1>9, EmptyTyped DEF FreeBuffers
  <2> QED BY <1>0, <1>9, <2>1 DEF FreeBuffers
<1>10. CASE EndThread
  BY <1>0, <1>10 DEF EndThread
<1> QED
  BY <1>1, <1>2, <1>3, <1>4, <1>5, <1>6, <1>7, <1>8, <1>9, <1>10
  DEF DiskStep

LEMMA GuiTyped ==
  ASSUME TypeOK, GuiStep
  PROVE  TypeOK'
<1> USE DEF TypeOK, settings, emuVars, diskVars, history, exempt, videoVars, audioVars
<1>1. CASE Start
  BY <1>1, EmptyTyped, ZenonT(60) DEF Start
<1>2. CASE Stop
  BY <1>2 DEF Stop, Interrupt
<1>3. CASE CloseApp
  BY <1>3 DEF CloseApp, Interrupt
<1>4. CASE Joined
  BY <1>4 DEF Joined, Return
<1>5. CASE WaitTimesOut
  BY <1>5 DEF WaitTimesOut, Return
<1>6. CASE ChangeSize
  BY <1>6 DEF ChangeSize
<1>7. CASE SetAudioEnable
  BY <1>7 DEF SetAudioEnable
<1> QED BY <1>1, <1>2, <1>3, <1>4, <1>5, <1>6, <1>7 DEF GuiStep

(* The invariant of the threads.                                           *)
LEMMA InStepKept ==
  ASSUME Kept, Running, BeginFrame \/ FrameStep \/ DiskStep \/ GuiStep
  PROVE  DiskHasBuffers' /\ NoPicture' /\ InStep'
<1> USE DEF Kept, TypeOK, DiskHasBuffers, NoPicture, InStep, InFrame, Running,
            settings, emuVars, diskVars, history, exempt, diskUnchanged, exempt
<1>1. CASE BeginFrame
  BY <1>1 DEF BeginFrame
<1>2. CASE FindRoom
  BY <1>2 DEF FindRoom
<1>3. CASE CopyPicture
  BY <1>3 DEF CopyPicture
<1>4. CASE PublishPicture
  BY <1>4 DEF PublishPicture
<1>5. CASE AddSound
  BY <1>5 DEF AddSound
<1>6. CASE AddSoundAgain
  BY <1>6 DEF AddSoundAgain
<1>7. CASE DiskBegin
  BY <1>7 DEF DiskBegin
<1>8. CASE TestInterruption
  BY <1>8 DEF TestInterruption
<1>9. CASE DrainCell
  BY <1>9 DEF DrainCell
<1>10. CASE SleepForCells
  BY <1>10 DEF SleepForCells
<1>11. CASE EncodePicture
  BY <1>11 DEF EncodePicture
<1>12. CASE WriteChunk
  BY <1>12 DEF WriteChunk
<1>13. CASE FlushSound
  BY <1>13 DEF FlushSound
<1>14. CASE DisableRecord
  BY <1>14 DEF DisableRecord
<1>15. CASE FreeBuffers
  BY <1>15 DEF FreeBuffers
<1>16. CASE EndThread
  BY <1>16 DEF EndThread
<1>17. CASE Start
  BY <1>17 DEF Start
<1>18. CASE Stop
  BY <1>18 DEF Stop, Interrupt
<1>19. CASE CloseApp
  BY <1>19 DEF CloseApp, Interrupt
<1>20. CASE Joined
  BY <1>20 DEF Joined, Return
<1>21. CASE WaitTimesOut
  BY <1>21 DEF WaitTimesOut, Return
<1>22. CASE ChangeSize
  BY <1>22 DEF ChangeSize
<1>23. CASE SetAudioEnable
  BY <1>23 DEF SetAudioEnable
<1> QED
  BY <1>1, <1>2, <1>3, <1>4, <1>5, <1>6, <1>7, <1>8, <1>9, <1>10, <1>11, <1>12,
     <1>13, <1>14, <1>15, <1>16, <1>17, <1>18, <1>19, <1>20, <1>21, <1>22, <1>23
  DEF FrameStep, DiskStep, GuiStep

LEMMA KeptInit == Init => Kept
<1> SUFFICES ASSUME Init
             PROVE  Kept
  OBVIOUS
<1>1. TypeOK
  <2>1. /\ rawVideoBuf \in [0 .. VideoSize - 1 -> Nat]
        /\ rawAudioBuf \in [0 .. AudioSize - 1 -> Nat]
        /\ vbufHead \in 0 .. VideoSize - 1 /\ vbufTail \in 0 .. VideoSize - 1
        /\ abufHead \in 0 .. AudioSize - 1 /\ abufTail \in 0 .. AudioSize - 1
        /\ added \in [video : Seq(Nat), audio : Seq(Nat)]
        /\ written \in [video : Seq(Nat), audio : Seq(Nat)]
    BY EmptyTyped DEF Init
  <2>2. videoOut \in Seq(Nat)
    BY DEF Init
  <2> QED BY <2>1, <2>2 DEF Init, TypeOK
<1> QED BY <1>1 DEF Init, Kept, DiskHasBuffers, NoPicture, InStep, InFrame

LEMMA KeptStep == Kept /\ [Next]_vars => Kept'
<1> SUFFICES ASSUME Kept, [Next]_vars
             PROVE  Kept'
  OBVIOUS
<1>1. CASE Running /\ (BeginFrame \/ FrameStep \/ DiskStep \/ GuiStep)
  <2>1. TypeOK'
    BY <1>1, FrameTyped, DiskTyped, GuiTyped DEF Kept
  <2> QED BY <1>1, <2>1, InStepKept DEF Kept
<1>2. CASE UNCHANGED vars
  BY <1>2
  DEF Kept, TypeOK, DiskHasBuffers, NoPicture, InStep, InFrame, vars, videoVars,
      audioVars, settings, emuVars, diskVars, history, exempt
<1> QED BY <1>1, <1>2 DEF Next, Ended

LEMMA AlwaysKept == Spec => []Kept
  BY KeptInit, KeptStep, PTL DEF Spec

(* Types; the cursors of two threads, without a lock, stay in their rings  *)
(* (aviRecordAddFrame, AviRecordDiskThread_t::run), also when a stop runs  *)
(* out of time.                                                            *)
THEOREM AviTyped == Spec => []TypeOK
<1>1. Kept => TypeOK
  BY DEF Kept
<1> QED BY <1>1, AlwaysKept, PTL

(* The rings outlive a frame that uses them, and a recording has a thread  *)
(* that empties them (aviRecordStop, aviRecordClose), as long as no stop   *)
(* runs out of time.                                                       *)
THEOREM AviServed == Spec => []Served
<1>1. Kept => Served
  BY DEF Kept, InStep, Served, TypeOK, InFrame
<1> QED BY <1>1, AlwaysKept, PTL

-----------------------------------------------------------------------------
(* What the rings hold.                                                    *)

LEMMA Rings ==
  ASSUME TypeOK
  PROVE  /\ VideoSize \in Nat \ {0} /\ AudioSize \in Nat \ {0}
         /\ rawVideoBuf \in [0 .. VideoSize - 1 -> Nat]
         /\ vbufTail \in 0 .. VideoSize - 1 /\ vbufHead \in 0 .. VideoSize - 1
         /\ rawAudioBuf \in [0 .. AudioSize - 1 -> Nat]
         /\ abufTail \in 0 .. AudioSize - 1 /\ abufHead \in 0 .. AudioSize - 1
         /\ added.video \in Seq(Nat) /\ added.audio \in Seq(Nat)
         /\ written.video \in Seq(Nat) /\ written.audio \in Seq(Nat)
         /\ videoOut \in Seq(Nat) /\ numPixels \in Nat
<1>1. /\ rawVideoBuf \in [0 .. VideoSize - 1 -> Nat]
      /\ vbufTail \in 0 .. VideoSize - 1 /\ vbufHead \in 0 .. VideoSize - 1
      /\ rawAudioBuf \in [0 .. AudioSize - 1 -> Nat]
      /\ abufTail \in 0 .. AudioSize - 1 /\ abufHead \in 0 .. AudioSize - 1
  BY DEF TypeOK
<1>2. /\ added.video \in Seq(Nat) /\ added.audio \in Seq(Nat)
      /\ written.video \in Seq(Nat) /\ written.audio \in Seq(Nat)
      /\ videoOut \in Seq(Nat)
  BY DEF TypeOK
<1>3. numPixels \in Nat
  BY SizesTyped DEF TypeOK
<1> QED BY <1>1, <1>2, <1>3, SizesTyped

LEMMA PendingQueues ==
  /\ PendingVideo = Queue(rawVideoBuf, VideoSize, vbufTail, vbufHead)
  /\ PendingAudio = Queue(rawAudioBuf, AudioSize, abufTail, abufHead)
  BY DEF PendingVideo, PendingAudio, Pending, Queue, Content, Cell, Distance

LEMMA PendingTyped ==
  ASSUME TypeOK
  PROVE  /\ PendingVideo \in Seq(Nat) /\ PendingAudio \in Seq(Nat)
         /\ Len(PendingVideo) = Distance(VideoSize, vbufTail, vbufHead)
         /\ Len(PendingAudio) = Distance(AudioSize, abufTail, abufHead)
  BY Rings, PendingQueues, QueueSeq

LEMMA Associative ==
  ASSUME NEW s \in Seq(Nat), NEW t \in Seq(Nat), NEW u \in Seq(Nat)
  PROVE  (s \o t) \o u = s \o (t \o u)
  BY ConcatAssociative, SMTT(30)

LEMMA FirstOnly ==
  ASSUME NEW s \in Seq(Nat), Len(s) > 0
  PROVE  SubSeq(s, 1, 1) = <<s[1]>>
<1> DEFINE t == SubSeq(s, 1, 1)
<1>1. s[1] \in Nat /\ 1 \in Int
  BY LenProperties
<1>2. t \in Seq(Nat) /\ Len(t) = 1 /\ t[1] = s[1]
  <2>1. \A i \in 1 .. 1 : s[i] \in Nat
    BY <1>1
  <2>2. /\ t \in Seq(Nat) /\ Len(t) = (IF 1 <= 1 THEN 1 - 1 + 1 ELSE 0)
        /\ \A i \in 1 .. 1 - 1 + 1 : t[i] = s[1 + i - 1]
    BY <1>1, <2>1, SubSeqProperties
  <2> QED BY <2>2
<1> HIDE DEF t
<1>3. <<s[1]>> \in Seq(Nat) /\ Len(<<s[1]>>) = 1
  BY <1>1
<1>4. \A i \in 1 .. 1 : t[i] = <<s[1]>>[i]
  BY <1>2
<1>5. t = <<s[1]>>
  BY <1>2, <1>3, <1>4, SeqEqual
<1> QED BY <1>5 DEF t

LEMMA RepeatOnce == \A v : Repeat(v, 1) = <<v>>
  BY DEF Repeat

(* The sample that is added is behind those pending.                       *)
LEMMA PutSampleAppends ==
  ASSUME TypeOK, TypeOK', PutSample, UNCHANGED abufTail
  PROVE  Appended(PendingAudio', PendingAudio, Recorded, 1)
<1> DEFINE d == Distance(AudioSize, abufTail, abufHead)
<1>1. /\ AudioSize \in Nat \ {0} /\ rawAudioBuf \in [0 .. AudioSize - 1 -> Nat]
      /\ abufTail \in 0 .. AudioSize - 1 /\ abufHead \in 0 .. AudioSize - 1
      /\ Recorded \in Nat
  BY Rings, RecordedTyped
<1>2. rawAudioBuf' \in [0 .. AudioSize - 1 -> Nat] /\ abufHead' \in 0 .. AudioSize - 1
  BY DEF TypeOK
<1>3. abufHead' = (abufHead + 1) % AudioSize /\ abufHead' # abufTail
  BY DEF PutSample, NextHead
<1>4. d \in 0 .. AudioSize - 1
  BY <1>1, HeadOf
<1>5. d + 1 < AudioSize
  <2>1. 1 \in Nat
    OBVIOUS
  <2>2. d + 1 = AudioSize => (abufHead + 1) % AudioSize = abufTail
    BY <1>1, <2>1, HeadMoved
  <2> QED BY <1>1, <1>3, <1>4, <2>2
<1>6. SamePlaces(rawAudioBuf, rawAudioBuf', AudioSize, abufTail, d)
  <2> SUFFICES ASSUME NEW i \in 1 .. d
               PROVE  Cell(AudioSize, abufTail, i) # abufHead
    <3>1. \A i \in 1 .. d : Cell(AudioSize, abufTail, i) \in 0 .. AudioSize - 1
      <4>1. \A i \in 1 .. d : i \in Nat \ {0}
        BY <1>4
      <4> QED BY <1>1, <4>1, CellInRing
    <3> QED BY <1>1, <3>1 DEF SamePlaces, PutSample
  <2>1. 0 \in Nat /\ d + 0 < AudioSize
    BY <1>1, <1>4
  <2>2. Cell(AudioSize, abufTail, i) # (abufHead + 0) % AudioSize
    BY <1>1, <2>1, BehindApart
  <2>3. abufHead + 0 = abufHead /\ abufHead % AudioSize = abufHead
    BY <1>1, ModInside
  <2> QED BY <2>2, <2>3
<1>7. Behind(rawAudioBuf', AudioSize, abufHead, 1, Recorded)
  <2>1. abufHead + 0 = abufHead /\ abufHead % AudioSize = abufHead
    BY <1>1, ModInside
  <2>2. rawAudioBuf'[abufHead] = Recorded
    BY <1>1 DEF PutSample
  <2> QED BY <2>1, <2>2 DEF Behind
<1>8. Appended(Queue(rawAudioBuf', AudioSize, abufTail, abufHead'),
               Queue(rawAudioBuf, AudioSize, abufTail, abufHead), Recorded, 1)
  <2>1. 1 \in Nat
    OBVIOUS
  <2> QED BY <1>1, <1>2, <1>3, <1>5, <1>6, <1>7, <2>1, QueuePush
<1>9. PendingAudio' = Queue(rawAudioBuf', AudioSize, abufTail, abufHead')
  <2>1. (PendingAudio = Queue(rawAudioBuf, AudioSize, abufTail, abufHead))'
    BY PendingQueues, PTL
  <2> QED BY <2>1
<1> QED BY <1>8, <1>9, PendingQueues

(* The samples that are written are the first that are pending.            *)
LEMMA WriteSamplesPops ==
  ASSUME TypeOK, allocated, NEW n \in 0 .. AudioAvailable, WriteSamples(n)
  PROVE  Popped(PendingAudio', PendingAudio, n)
<1>1. /\ AudioSize \in Nat \ {0} /\ rawAudioBuf \in [0 .. AudioSize - 1 -> Nat]
      /\ abufTail \in 0 .. AudioSize - 1 /\ abufHead \in 0 .. AudioSize - 1
  BY Rings
<1>2. n \in 0 .. Distance(AudioSize, abufTail, abufHead)
  BY AudioPending
<1>3. abufTail' \in 0 .. AudioSize - 1 /\ abufTail' = (abufTail + n) % AudioSize
  BY WriteSamplesTyped DEF WriteSamples
<1>4. Popped(Queue(rawAudioBuf, AudioSize, abufTail', abufHead),
             Queue(rawAudioBuf, AudioSize, abufTail, abufHead), n)
  BY <1>1, <1>2, <1>3, QueuePop
<1>5. PendingAudio' = Queue(rawAudioBuf, AudioSize, abufTail', abufHead)
  <2>1. (PendingAudio = Queue(rawAudioBuf, AudioSize, abufTail, abufHead))'
    BY PendingQueues, PTL
  <2> QED BY <2>1 DEF WriteSamples
<1> QED BY <1>4, <1>5, PendingQueues

-----------------------------------------------------------------------------
AudioKept ==
  allocated /\ ~timedOut => added.audio = written.audio \o PendingAudio

LEMMA PutSampleKeeps ==
  ASSUME TypeOK, TypeOK', PutSample, UNCHANGED <<abufTail, written>>,
         added.audio = written.audio \o PendingAudio
  PROVE  added'.audio = written'.audio \o PendingAudio'
<1>1. /\ added.audio \in Seq(Nat) /\ written.audio \in Seq(Nat)
      /\ PendingAudio \in Seq(Nat) /\ Recorded \in Nat
  BY Rings, PendingTyped, RecordedTyped
<1>2. PendingAudio' = PendingAudio \o <<Recorded>>
  BY PutSampleAppends, RepeatOnce DEF Appended
<1>3. added'.audio = Append(added.audio, Recorded)
  BY DEF PutSample, TypeOK
<1>4. Append(added.audio, Recorded) = added.audio \o <<Recorded>>
  BY <1>1, AppendIsConcat
<1>5. <<Recorded>> \in Seq(Nat)
  BY <1>1
<1>6. (written.audio \o PendingAudio) \o <<Recorded>>
        = written.audio \o (PendingAudio \o <<Recorded>>)
  BY <1>1, <1>5, Associative
<1> QED BY <1>2, <1>3, <1>4, <1>6

LEMMA WriteSamplesKeeps ==
  ASSUME TypeOK, TypeOK', allocated, NEW n \in 0 .. AudioAvailable,
         WriteSamples(n), UNCHANGED added,
         added.audio = written.audio \o PendingAudio
  PROVE  added'.audio = written'.audio \o PendingAudio'
<1> DEFINE first == SubSeq(PendingAudio, 1, n)
<1>1. written.audio \in Seq(Nat) /\ PendingAudio \in Seq(Nat)
  BY Rings, PendingTyped
<1>2. PendingAudio' \in Seq(Nat)
  <2>1. (TypeOK => PendingAudio \in Seq(Nat))'
    BY PendingTyped, PTL
  <2> QED BY <2>1
<1>3. first \in Seq(Nat)
  <2>1. Len(PendingAudio) = AudioAvailable /\ AudioAvailable \in Nat
    BY PendingTyped, AudioPending
  <2>2. 1 \in Int /\ n \in Int /\ \A i \in 1 .. n : PendingAudio[i] \in Nat
    BY <1>1, <2>1, ElementOfSeq
  <2> QED BY <2>2, SubSeqProperties
<1>4. PendingAudio = first \o PendingAudio'
  BY WriteSamplesPops DEF Popped
<1>5. written'.audio = written.audio \o first
  BY DEF WriteSamples, TypeOK
<1> HIDE DEF first
<1>6. (written.audio \o first) \o PendingAudio'
        = written.audio \o (first \o PendingAudio')
  BY <1>1, <1>2, <1>3, Associative
<1> QED BY <1>4, <1>5, <1>6

LEMMA AudioStep ==
  ASSUME Kept, Kept', AudioKept, [Next]_vars
  PROVE  AudioKept'
<1> SUFFICES ASSUME allocated', ~timedOut'
             PROVE  added'.audio = written'.audio \o PendingAudio'
  BY DEF AudioKept
<1>0. TypeOK /\ TypeOK'
  BY DEF Kept
<1>1. CASE Start
  <2>1. abufTail' = 0 /\ abufHead' = 0 /\ added' = NoStreams /\ written' = NoStreams
    BY <1>1 DEF Start
  <2>2. PendingAudio' = << >>
    BY <2>1 DEF PendingAudio, Pending
  <2> QED BY <2>1, <2>2 DEF NoStreams
<1>2. CASE FreeBuffers
  BY <1>2 DEF FreeBuffers
<1>3. CASE ~Start /\ ~FreeBuffers
  <2>1. UNCHANGED allocated /\ ~timedOut
    <3>1. CASE BeginFrame \/ FrameStep
      BY <1>0, <3>1 DEF BeginFrame, FrameStep, FindRoom, CopyPicture,
        PublishPicture, AddSound, AddSoundAgain, history, exempt, TypeOK
    <3>2. CASE DiskStep
      BY <1>0, <1>3, <3>2 DEF DiskStep, DiskBegin, TestInterruption, DrainCell,
        SleepForCells, EncodePicture, WriteChunk, FlushSound, DisableRecord,
        EndThread, diskUnchanged, exempt, TypeOK
    <3>3. CASE GuiStep
      BY <1>0, <1>3, <3>3 DEF GuiStep, Stop, CloseApp, Joined, WaitTimesOut,
        Return, ChangeSize, SetAudioEnable, history, exempt, TypeOK
    <3>4. CASE UNCHANGED vars
      BY <3>4 DEF vars, history, exempt
    <3> QED BY <3>1, <3>2, <3>3, <3>4 DEF Next, Ended
  <2>2. allocated /\ added.audio = written.audio \o PendingAudio
    BY <2>1 DEF AudioKept
  <2>3. CASE UNCHANGED audioVars /\ added'.audio = added.audio
                               /\ written'.audio = written.audio
    BY <2>2, <2>3 DEF audioVars, PendingAudio
  <2>4. CASE PutSample /\ UNCHANGED <<abufTail, written>>
    BY <1>0, <2>2, <2>4, PutSampleKeeps
  <2>5. CASE /\ \E n \in 0 .. AudioAvailable : WriteSamples(n)
             /\ UNCHANGED added
    BY <1>0, <2>2, <2>5, WriteSamplesKeeps
  <2>6. CASE AddSound \/ AddSoundAgain
    BY <2>3, <2>4, <2>6 DEF AddSound, AddSoundAgain
  <2>7. CASE WriteChunk \/ FlushSound
    <3>1. UNCHANGED added
      BY <2>7 DEF WriteChunk, FlushSound
    <3>2. CASE UNCHANGED <<audioVars, written>>
      BY <2>3, <3>1, <3>2
    <3>3. CASE \E n \in 0 .. AudioAvailable : WriteSamples(n)
      BY <2>5, <3>1, <3>3
    <3>4. ASSUME AudioAvailable >= AudioChunkSize
          PROVE  AudioChunkSize \in 0 .. AudioAvailable
      BY <1>0, <2>2, <3>4, AudioPending, SizesTyped
    <3>5. AudioAvailable \in 0 .. AudioAvailable
      BY <1>0, <2>2, AudioPending
    <3> QED BY <2>7, <3>2, <3>3, <3>4, <3>5 DEF WriteChunk, FlushSound
  <2>8. CASE PublishPicture
    <3>1. added'.audio = added.audio
      BY <1>0, <2>8 DEF PublishPicture, TypeOK
    <3> QED BY <2>3, <2>8, <3>1 DEF PublishPicture
  <2>9. CASE EncodePicture
    <3>1. written'.audio = written.audio
      BY <1>0, <2>9 DEF EncodePicture, TypeOK
    <3> QED BY <2>3, <2>9, <3>1 DEF EncodePicture
  <2>10. CASE UNCHANGED <<audioVars, added, written>>
    BY <2>3, <2>10
  <2>11. \/ UNCHANGED <<audioVars, added, written>>
         \/ AddSound \/ AddSoundAgain \/ WriteChunk \/ FlushSound
         \/ PublishPicture \/ EncodePicture
    BY <1>3 DEF Next, Ended, BeginFrame, FrameStep, FindRoom, CopyPicture,
      DiskStep, DiskBegin, TestInterruption, DrainCell, SleepForCells,
      DisableRecord, EndThread, GuiStep, Stop, CloseApp, Joined,
      WaitTimesOut, Return, ChangeSize, SetAudioEnable, vars, history, exempt
  <2> QED BY <2>6, <2>7, <2>8, <2>9, <2>10, <2>11
<1> QED BY <1>1, <1>2, <1>3

-----------------------------------------------------------------------------
(* The room found for a picture stays, and what is copied there stays.     *)
Room ==
  ~timedOut /\ emu \in {"copy", "publish"} =>
    Distance(VideoSize, vbufTail, vbufHead) + numPixels <= VideoSize

InPlace ==
  ~timedOut /\ emu = "publish" =>
    Behind(rawVideoBuf, VideoSize, vbufHead, numPixels, Recorded + 1)

VideoKept ==
  allocated /\ ~timedOut /\ ~overfilled =>
    added.video = written.video \o videoOut \o PendingVideo

LEMMA RoomFound ==
  ASSUME TypeOK, allocated, HasRoom(numPixels)
  PROVE  Distance(VideoSize, vbufTail, vbufHead) + numPixels <= VideoSize
<1>1. /\ VideoSize \in Nat \ {0} /\ numPixels \in Nat
      /\ vbufTail \in 0 .. VideoSize - 1 /\ vbufHead \in 0 .. VideoSize - 1
  BY Rings
<1> QED BY <1>1 DEF HasRoom, vbufSize, Distance

LEMMA CopyKeeps ==
  ASSUME TypeOK, CopyPicture, allocated,
         Distance(VideoSize, vbufTail, vbufHead) + numPixels <= VideoSize
  PROVE  /\ PendingVideo' = PendingVideo
         /\ Behind(rawVideoBuf', VideoSize, vbufHead, numPixels, Recorded + 1)
<1> DEFINE d == Distance(VideoSize, vbufTail, vbufHead)
<1>1. /\ VideoSize \in Nat \ {0} /\ numPixels \in Nat
      /\ vbufTail \in 0 .. VideoSize - 1 /\ vbufHead \in 0 .. VideoSize - 1
      /\ rawVideoBuf \in [0 .. VideoSize - 1 -> Nat]
  BY Rings
<1>2. d \in 0 .. VideoSize - 1
  BY <1>1, HeadOf
<1>3. ASSUME NEW i \in 1 .. d
      PROVE  rawVideoBuf'[Cell(VideoSize, vbufTail, i)]
               = rawVideoBuf[Cell(VideoSize, vbufTail, i)]
  <2>1. i \in Nat \ {0}
    BY <1>2
  <2>2. Cell(VideoSize, vbufTail, i) \in 0 .. VideoSize - 1
    BY <1>1, <2>1, CellInRing
  <2>3. ASSUME NEW k \in 0 .. numPixels - 1
        PROVE  Cell(VideoSize, vbufTail, i) # (vbufHead + k) % VideoSize
    <3>1. k \in Nat /\ d + k < VideoSize
      BY <1>1, <1>2
    <3> QED BY <1>1, <3>1, BehindApart
  <2> QED BY <2>2, <2>3 DEF CopyPicture
<1>4. PendingVideo' = PendingVideo
  <2>1. UNCHANGED <<vbufTail, vbufHead>>
    BY DEF CopyPicture
  <2>2. PendingVideo' = Queue(rawVideoBuf', VideoSize, vbufTail, vbufHead)
    <3>1. (PendingVideo = Queue(rawVideoBuf, VideoSize, vbufTail, vbufHead))'
      BY PendingQueues, PTL
    <3> QED BY <2>1, <3>1
  <2>3. Queue(rawVideoBuf', VideoSize, vbufTail, vbufHead)
          = Queue(rawVideoBuf, VideoSize, vbufTail, vbufHead)
    BY <1>3 DEF Queue, Content
  <2> QED BY <2>2, <2>3, PendingQueues
<1>5. ASSUME NEW j \in 0 .. numPixels - 1
      PROVE  rawVideoBuf'[(vbufHead + j) % VideoSize] = Recorded + 1
  <2>1. vbufHead + j \in Nat
    BY <1>1
  <2>2. (vbufHead + j) % VideoSize \in 0 .. VideoSize - 1
    BY <1>1, <2>1, Quotient
  <2> QED BY <2>2 DEF CopyPicture
<1> QED BY <1>4, <1>5 DEF Behind

LEMMA PublishAppends ==
  ASSUME TypeOK, TypeOK', PublishPicture, vbufHead' # vbufTail,
         Distance(VideoSize, vbufTail, vbufHead) + numPixels <= VideoSize,
         Behind(rawVideoBuf, VideoSize, vbufHead, numPixels, Recorded + 1)
  PROVE  Appended(PendingVideo', PendingVideo, Recorded + 1, numPixels)
<1> DEFINE d == Distance(VideoSize, vbufTail, vbufHead)
           v == Recorded + 1
<1>1. /\ VideoSize \in Nat \ {0} /\ numPixels \in Nat
      /\ vbufTail \in 0 .. VideoSize - 1 /\ vbufHead \in 0 .. VideoSize - 1
      /\ rawVideoBuf \in [0 .. VideoSize - 1 -> Nat]
  BY Rings
<1>2. d \in 0 .. VideoSize - 1 /\ d + numPixels <= VideoSize /\ v \in Nat
  <2>1. d \in 0 .. VideoSize - 1
    BY <1>1, HeadOf
  <2>2. Recorded \in Nat
    BY RecordedTyped
  <2> QED BY <2>1, <2>2
<1>3. /\ vbufHead' \in 0 .. VideoSize - 1
      /\ vbufHead' = (vbufHead + numPixels) % VideoSize
  BY DEF TypeOK, PublishPicture
<1>4. d + numPixels < VideoSize
  <2>1. d + numPixels = VideoSize => (vbufHead + numPixels) % VideoSize = vbufTail
    BY <1>1, HeadMoved
  <2>2. d + numPixels # VideoSize
    BY <1>3, <2>1
  <2> HIDE DEF d
  <2> QED BY <1>1, <1>2, <2>2
<1>5. SamePlaces(rawVideoBuf, rawVideoBuf, VideoSize, vbufTail, d)
  BY DEF SamePlaces
<1>6. Behind(rawVideoBuf, VideoSize, vbufHead, numPixels, v)
  OBVIOUS
<1> HIDE DEF v
<1>7. Appended(Queue(rawVideoBuf, VideoSize, vbufTail, vbufHead'),
               Queue(rawVideoBuf, VideoSize, vbufTail, vbufHead), v, numPixels)
  BY <1>1, <1>2, <1>3, <1>4, <1>5, <1>6, QueuePush
<1>8. PendingVideo' = Queue(rawVideoBuf, VideoSize, vbufTail, vbufHead')
  <2>1. (PendingVideo = Queue(rawVideoBuf, VideoSize, vbufTail, vbufHead))'
    BY PendingQueues, PTL
  <2> QED BY <2>1 DEF PublishPicture
<1> QED BY <1>7, <1>8, PendingQueues DEF v

LEMMA DrainPops ==
  ASSUME Kept, DrainCell
  PROVE  /\ Popped(PendingVideo', PendingVideo, 1)
         /\ videoOut' = videoOut \o SubSeq(PendingVideo, 1, 1)
         /\ Distance(VideoSize, vbufTail', vbufHead)
              <= Distance(VideoSize, vbufTail, vbufHead)
<1> DEFINE d == Distance(VideoSize, vbufTail, vbufHead)
<1>0. TypeOK
  BY DEF Kept
<1>1. /\ VideoSize \in Nat \ {0} /\ videoOut \in Seq(Nat)
      /\ vbufTail \in 0 .. VideoSize - 1 /\ vbufHead \in 0 .. VideoSize - 1
      /\ rawVideoBuf \in [0 .. VideoSize - 1 -> Nat]
  BY <1>0, Rings
<1>2. d \in 1 .. VideoSize - 1
  BY <1>1 DEF DrainCell, Distance
<1>3. vbufTail' \in 0 .. VideoSize - 1 /\ vbufTail' = (vbufTail + 1) % VideoSize
  BY DrainTyped DEF DrainCell, Kept, DiskHasBuffers, vbufSize
<1>4. 1 \in 0 .. d
  BY <1>2
<1>5. Distance(VideoSize, vbufTail', vbufHead) = d - 1
  BY <1>1, <1>3, <1>4, TailMoved
<1>6. Popped(Queue(rawVideoBuf, VideoSize, vbufTail', vbufHead),
             Queue(rawVideoBuf, VideoSize, vbufTail, vbufHead), 1)
  BY <1>1, <1>3, <1>4, QueuePop
<1>7. PendingVideo' = Queue(rawVideoBuf, VideoSize, vbufTail', vbufHead)
  <2>1. (PendingVideo = Queue(rawVideoBuf, VideoSize, vbufTail, vbufHead))'
    BY PendingQueues, PTL
  <2> QED BY <2>1 DEF DrainCell
<1>8. SubSeq(PendingVideo, 1, 1) = <<rawVideoBuf[vbufTail]>>
  <2>1. PendingVideo \in Seq(Nat) /\ Len(PendingVideo) = d
    BY <1>0, PendingTyped
  <2>2. PendingVideo[1] = rawVideoBuf[vbufTail]
    <3>1. PendingVideo[1] = rawVideoBuf[Cell(VideoSize, vbufTail, 1)]
      BY <1>4, <1>2, PendingQueues DEF Queue, Content
    <3>2. vbufTail % VideoSize = vbufTail
      BY <1>1, ModInside
    <3>3. vbufTail + 1 - 1 = vbufTail
      BY <1>1
    <3> QED BY <3>1, <3>2, <3>3 DEF Cell
  <2> HIDE DEF d
  <2>3. SubSeq(PendingVideo, 1, 1) = <<PendingVideo[1]>>
    BY <1>2, <2>1, FirstOnly
  <2> QED BY <2>2, <2>3
<1>9. videoOut' = videoOut \o SubSeq(PendingVideo, 1, 1)
  <2>1. rawVideoBuf[vbufTail] \in Nat
    BY <1>1
  <2>2. Append(videoOut, rawVideoBuf[vbufTail]) = videoOut \o <<rawVideoBuf[vbufTail]>>
    BY <1>1, <2>1, AppendIsConcat
  <2> QED BY <1>8, <2>2 DEF DrainCell
<1> QED BY <1>2, <1>5, <1>6, <1>7, <1>9, PendingQueues

LEMMA TimedOutStays ==
  ASSUME TypeOK, TypeOK', [Next]_vars, ~Start
  PROVE  timedOut => timedOut'
<1>1. CASE BeginFrame \/ FrameStep
  BY <1>1 DEF BeginFrame, FrameStep, FindRoom, CopyPicture, PublishPicture,
    AddSound, AddSoundAgain, history, exempt, TypeOK
<1>2. CASE DiskStep
  BY <1>2 DEF DiskStep, DiskBegin, TestInterruption, DrainCell, SleepForCells,
    EncodePicture, WriteChunk, FlushSound, DisableRecord, FreeBuffers,
    EndThread, diskUnchanged, exempt, TypeOK
<1>3. CASE GuiStep
  BY <1>3 DEF GuiStep, Stop, CloseApp, Joined, WaitTimesOut, Return,
    ChangeSize, SetAudioEnable, history, exempt, TypeOK
<1>4. CASE UNCHANGED vars
  BY <1>4 DEF vars, history, exempt, TypeOK
<1> QED BY <1>1, <1>2, <1>3, <1>4 DEF Next, Ended

(* The steps that do not concern the picture that is being put in.         *)
LEMMA ElsewhereInFrame ==
  ASSUME TypeOK, [Next]_vars, emu' \in {"copy", "publish"},
         ~FindRoom, ~CopyPicture, ~DrainCell, ~FreeBuffers
  PROVE  UNCHANGED <<videoVars, numPixels, emu, added>>
<1>1. CASE BeginFrame \/ FrameStep
  BY <1>1 DEF BeginFrame, FrameStep, PublishPicture, AddSound, AddSoundAgain
<1>2. CASE DiskStep
  BY <1>2 DEF DiskStep, DiskBegin, TestInterruption, SleepForCells,
    EncodePicture, WriteChunk, FlushSound, DisableRecord, EndThread,
    diskUnchanged, exempt, emuVars
<1>3. CASE GuiStep
  BY <1>3 DEF GuiStep, Start, Stop, CloseApp, Joined, WaitTimesOut, Return,
    ChangeSize, SetAudioEnable, history, exempt, emuVars
<1>4. CASE UNCHANGED vars
  BY <1>4 DEF vars, history, exempt, emuVars
<1> QED BY <1>1, <1>2, <1>3, <1>4 DEF Next, Ended

LEMMA RoomStep ==
  ASSUME Kept, Kept', Room, InPlace, [Next]_vars
  PROVE  Room' /\ InPlace'
<1> SUFFICES ASSUME ~timedOut', emu' \in {"copy", "publish"}
             PROVE  /\ Distance(VideoSize, vbufTail', vbufHead') + numPixels'
                         <= VideoSize
                    /\ emu' = "publish" =>
                         Behind(rawVideoBuf', VideoSize, vbufHead', numPixels',
                                (Recorded + 1)')
  BY DEF Room, InPlace
<1>0. TypeOK /\ TypeOK' /\ ~timedOut
  <2>1. ~Start
    BY DEF Start, emuVars
  <2> QED BY <2>1, TimedOutStays DEF Kept
<1>1. CASE FindRoom
  <2>1. allocated
    BY <1>0, <1>1 DEF FindRoom, Kept, InStep, InFrame
  <2>2. Distance(VideoSize, vbufTail, vbufHead) + numPixels <= VideoSize
    BY <1>0, <1>1, <2>1, RoomFound DEF FindRoom
  <2> QED BY <1>1, <2>2 DEF FindRoom, videoVars
<1>2. CASE CopyPicture
  <2>1. allocated
    BY <1>0, <1>2 DEF CopyPicture, Kept, InStep, InFrame
  <2>2. Distance(VideoSize, vbufTail, vbufHead) + numPixels <= VideoSize
    BY <1>0, <1>2 DEF CopyPicture, Room
  <2>3. Behind(rawVideoBuf', VideoSize, vbufHead, numPixels, Recorded + 1)
    BY <1>0, <1>2, <2>1, <2>2, CopyKeeps
  <2>4. UNCHANGED <<vbufTail, vbufHead, numPixels, Recorded>>
    BY <1>2 DEF CopyPicture, history, exempt, Recorded
  <2> QED BY <2>2, <2>3, <2>4
<1>3. CASE DrainCell
  <2>1. UNCHANGED <<rawVideoBuf, vbufHead, numPixels, emu, Recorded>>
    BY <1>3 DEF DrainCell, diskUnchanged, exempt, emuVars, Recorded
  <2>2. /\ Distance(VideoSize, vbufTail, vbufHead) + numPixels <= VideoSize
        /\ emu = "publish" =>
             Behind(rawVideoBuf, VideoSize, vbufHead, numPixels, Recorded + 1)
    BY <1>0, <2>1 DEF Room, InPlace
  <2>3. Distance(VideoSize, vbufTail', vbufHead)
          <= Distance(VideoSize, vbufTail, vbufHead)
    BY <1>3, DrainPops
  <2>4. /\ VideoSize \in Nat /\ numPixels \in Nat
        /\ Distance(VideoSize, vbufTail, vbufHead) \in Nat
        /\ Distance(VideoSize, vbufTail', vbufHead) \in Nat
    <3>1. vbufTail' \in 0 .. VideoSize - 1
      BY <1>0 DEF TypeOK
    <3> QED BY <1>0, <3>1, Rings, HeadOf, SMTT(30)
  <2>5. Distance(VideoSize, vbufTail', vbufHead) + numPixels <= VideoSize
    BY <2>2, <2>3, <2>4
  <2> QED BY <2>1, <2>2, <2>5
<1>4. CASE FreeBuffers
  BY <1>0, <1>4 DEF FreeBuffers, Kept, InStep, InFrame, diskUnchanged, exempt, emuVars
<1>5. CASE ~FindRoom /\ ~CopyPicture /\ ~DrainCell /\ ~FreeBuffers
  <2>1. UNCHANGED <<videoVars, numPixels, emu, added>>
    BY <1>0, <1>5, ElsewhereInFrame
  <2>2. UNCHANGED Recorded
    BY <2>1 DEF Recorded
  <2> QED BY <1>0, <2>1, <2>2 DEF Room, InPlace, videoVars
<1> QED BY <1>1, <1>2, <1>3, <1>4, <1>5

(* The steps that do not concern the pictures.                             *)
LEMMA NoPictureMoves ==
  ASSUME TypeOK, TypeOK', [Next]_vars, ~Start, ~CopyPicture, ~PublishPicture,
         ~DrainCell, ~EncodePicture, ~FreeBuffers, ~EndThread
  PROVE  /\ UNCHANGED <<videoVars, videoOut, allocated, overfilled>>
         /\ added'.video = added.video /\ written'.video = written.video
<1> USE DEF TypeOK
<1>1. CASE BeginFrame \/ FindRoom
  BY <1>1 DEF BeginFrame, FindRoom, history, exempt, diskVars
<1>2. CASE AddSound \/ AddSoundAgain
  BY <1>2 DEF AddSound, AddSoundAgain, PutSample, diskVars, exempt
<1>3. CASE WriteChunk \/ FlushSound
  BY <1>3 DEF WriteChunk, FlushSound, WriteSamples, diskUnchanged, exempt
<1>4. CASE DiskBegin \/ TestInterruption \/ SleepForCells \/ DisableRecord
  BY <1>4 DEF DiskBegin, TestInterruption, SleepForCells, DisableRecord,
    diskUnchanged, exempt
<1>5. CASE GuiStep
  BY <1>5 DEF GuiStep, Stop, CloseApp, Joined, WaitTimesOut, Return,
    ChangeSize, SetAudioEnable, history, exempt, diskVars
<1>6. CASE UNCHANGED vars
  BY <1>6 DEF vars, history, exempt, diskVars
<1> QED
  BY <1>1, <1>2, <1>3, <1>4, <1>5, <1>6 DEF Next, Ended, FrameStep, DiskStep

LEMMA VideoStep ==
  ASSUME Kept, Kept', Room, InPlace, VideoKept, [Next]_vars
  PROVE  VideoKept'
<1> SUFFICES ASSUME allocated', ~timedOut', ~overfilled'
             PROVE  added'.video = written'.video \o videoOut' \o PendingVideo'
  BY DEF VideoKept
<1>0. TypeOK /\ TypeOK'
  BY DEF Kept
<1> DEFINE w == written.video
           o == videoOut
           p == PendingVideo
<1>1. w \in Seq(Nat) /\ o \in Seq(Nat) /\ p \in Seq(Nat)
  BY <1>0, Rings, PendingTyped
<1>2. w \o o \in Seq(Nat) /\ p' \in Seq(Nat)
  <2>1. (TypeOK => PendingVideo \in Seq(Nat))'
    BY PendingTyped, PTL
  <2> QED BY <1>0, <1>1, <2>1, ConcatProperties
<1>3. CASE Start
  <2>1. videoOut' = << >>
    <3>1. disk = "off"
      BY <1>0, <1>3 DEF Start, Kept, InStep, TypeOK
    <3> QED BY <1>3, <3>1 DEF Start, Kept, NoPicture
  <2>2. vbufTail' = 0 /\ vbufHead' = 0 /\ added' = NoStreams /\ written' = NoStreams
    BY <1>3 DEF Start
  <2>3. PendingVideo' = << >>
    BY <2>2 DEF PendingVideo, Pending
  <2> QED BY <2>1, <2>2, <2>3 DEF NoStreams
<1> SUFFICES ASSUME ~Start
             PROVE  added'.video = written'.video \o videoOut' \o PendingVideo'
  BY <1>3
<1>20. ~timedOut
  BY <1>0, TimedOutStays
<1>4. CASE CopyPicture
  <2>1. UNCHANGED <<added, written, videoOut, overfilled, allocated>>
    BY <1>4 DEF CopyPicture, history, exempt, diskVars
  <2>2. Distance(VideoSize, vbufTail, vbufHead) + numPixels <= VideoSize
    BY <1>0, <1>20, <1>4 DEF CopyPicture, Room
  <2>3. p' = p
    BY <1>0, <1>20, <1>4, <2>1, <2>2, CopyKeeps
  <2> QED BY <1>0, <1>20, <2>1, <2>3 DEF VideoKept
<1>5. CASE PublishPicture
  <2>1. UNCHANGED <<written, videoOut, allocated>> /\ ~overfilled
        /\ vbufHead' # vbufTail
    BY <1>5 DEF PublishPicture, diskVars
  <2>2. /\ Distance(VideoSize, vbufTail, vbufHead) + numPixels <= VideoSize
        /\ Behind(rawVideoBuf, VideoSize, vbufHead, numPixels, Recorded + 1)
    BY <1>0, <1>20, <1>5 DEF PublishPicture, Room, InPlace
  <2> DEFINE new == Repeat(Recorded + 1, numPixels)
  <2>3. p' = p \o new
    BY <1>0, <1>20, <1>5, <2>1, <2>2, PublishAppends DEF Appended
  <2>4. added'.video = added.video \o new
    BY <1>0, <1>20, <1>5 DEF PublishPicture, Repeat, TypeOK
  <2>5. new \in Seq(Nat)
    <3>1. Recorded \in Nat
      BY <1>0, <1>20, RecordedTyped
    <3>2. numPixels \in Nat
      BY <1>0, <1>20, Rings
    <3> QED BY <3>1, <3>2 DEF Repeat
  <2>6. added.video = (w \o o) \o p
    BY <1>0, <1>20, <2>1 DEF VideoKept
  <2> DEFINE out == w \o o
  <2>7. out \in Seq(Nat) /\ p \in Seq(Nat) /\ new \in Seq(Nat)
    BY <1>1, <1>2, <2>5
  <2> HIDE DEF new, p, out
  <2>8. (out \o p) \o new = out \o (p \o new)
    BY <2>7, Associative
  <2> QED BY <2>1, <2>3, <2>4, <2>6, <2>8 DEF p, out
<1>6. CASE DrainCell
  <2>1. UNCHANGED <<added, written, overfilled, allocated>>
    BY <1>6 DEF DrainCell, diskUnchanged, exempt
  <2> DEFINE f == SubSeq(p, 1, 1)
  <2>2. p = f \o p' /\ videoOut' = o \o f
    BY <1>6, DrainPops DEF Popped
  <2>3. f \in Seq(Nat)
    <3>1. Len(p) > 0
      <4>1. Len(p) = Distance(VideoSize, vbufTail, vbufHead)
        BY <1>0, <1>20, PendingTyped
      <4>2. /\ vbufTail \in 0 .. VideoSize - 1 /\ vbufHead \in 0 .. VideoSize - 1
            /\ VideoSize \in Nat \ {0}
        BY <1>0, <1>20, Rings
      <4>3. vbufTail # vbufHead
        BY <1>6 DEF DrainCell
      <4> HIDE DEF p
      <4> QED BY <4>1, <4>2, <4>3 DEF Distance
    <3>2. f = <<p[1]>>
      BY <1>1, <3>1, FirstOnly
    <3>3. p[1] \in Nat
      BY <1>1, <3>1, LenProperties
    <3> QED BY <3>2, <3>3
  <2>4. added.video = (w \o o) \o p
    BY <1>0, <1>20, <2>1 DEF VideoKept
  <2> HIDE DEF f, p, w, o
  <2>5. w \o (o \o f) = (w \o o) \o f
    BY <1>1, <2>3, Associative, ZenonT(60)
  <2>6. ((w \o o) \o f) \o p' = (w \o o) \o (f \o p')
    BY <1>2, <2>3, Associative
  <2> QED BY <2>1, <2>2, <2>4, <2>5, <2>6 DEF p, w, o
<1>7. CASE EncodePicture
  <2>1. UNCHANGED <<added, overfilled, allocated>> /\ videoOut' = << >>
    BY <1>7 DEF EncodePicture, diskUnchanged, exempt
  <2>2. written'.video = w \o o
    BY <1>0, <1>20, <1>7 DEF EncodePicture, TypeOK
  <2>3. p' = p
    BY <1>7 DEF EncodePicture, videoVars, PendingVideo
  <2>4. (w \o o) \o << >> = w \o o
    BY <1>2, ConcatEmptySeq
  <2> QED BY <1>0, <1>20, <2>1, <2>2, <2>3, <2>4 DEF VideoKept
<1>8. CASE FreeBuffers
  BY <1>8 DEF FreeBuffers
<1>9. CASE EndThread
  BY <1>0, <1>20, <1>9 DEF EndThread, Kept, InStep
<1>10. CASE ~(Start \/ CopyPicture \/ PublishPicture \/ DrainCell
               \/ EncodePicture \/ FreeBuffers \/ EndThread)
  <2>1. /\ UNCHANGED <<videoVars, videoOut, allocated, overfilled>>
        /\ added'.video = added.video /\ written'.video = written.video
    BY <1>0, <1>20, <1>10, NoPictureMoves
  <2>2. p' = p
    BY <2>1 DEF videoVars, PendingVideo
  <2> QED BY <1>0, <1>20, <2>1, <2>2 DEF VideoKept
<1> QED BY <1>3, <1>4, <1>5, <1>6, <1>7, <1>8, <1>9, <1>10

Intact == AudioKept /\ VideoKept /\ Room /\ InPlace

LEMMA IntactInit == Init => Intact
  BY DEF Init, Intact, AudioKept, VideoKept, Room, InPlace

(* What the emulator thread puts into the rings reaches the file in its    *)
(* order or is still in the rings, for every size of ring, picture and     *)
(* chunk (aviRecordAddFrame, aviRecordAddAudioFrame,                       *)
(* AviRecordDiskThread_t::run), as long as no stop runs out of time and    *)
(* the ring of pictures is not filled exactly.                             *)
THEOREM AviNothingLost == Spec => []NothingLost
<1>1. Kept /\ Kept' /\ Intact /\ [Next]_vars => Intact'
  BY AudioStep, VideoStep, RoomStep DEF Intact
<1>2. Intact => NothingLost
  BY DEF Intact, AudioKept, VideoKept, NothingLost
<1> QED BY <1>1, <1>2, IntactInit, AlwaysKept, PTL DEF Spec

-----------------------------------------------------------------------------
(* How the file is cut into pictures.                                      *)

LEMMA QuotientOf ==
  ASSUME NEW n \in Nat \ {0}, NEW q \in Nat, NEW r \in 0 .. n - 1
  PROVE  (n * q + r) \div n = q /\ (n * q + r) % n = r
<1> DEFINE x == n * q + r
<1>1. x \in Nat
  BY SMTT(30)
<1> HIDE DEF x
<1>2. x \div n \in Nat /\ x % n \in 0 .. n - 1 /\ x = n * (x \div n) + (x % n)
  BY <1>1, Quotient
<1>3. n * (x \div n) + (x % n) = n * q + r
  BY <1>2 DEF x
<1>4. x \div n = q /\ x % n = r
  BY <1>2, <1>3, Division
<1> QED BY <1>4 DEF x

(* A sequence of frames of n cells, as long as they go on.                 *)
Frames(s, n) ==
  /\ Len(s) % n = 0
  /\ \A i \in 1 .. Len(s) : s[i] = (i - 1) \div n + 1

(* Where the frame after m cells begins.                                   *)
LEMMA FrameAfter ==
  ASSUME NEW n \in Nat \ {0}, NEW m \in Nat, m % n = 0
  PROVE  /\ (m + n) % n = 0
         /\ \A i \in m + 1 .. m + n : (i - 1) \div n = m \div n
         /\ m # 0 => (m - 1) \div n + 1 = m \div n
<1> DEFINE q == m \div n
<1>1. q \in Nat /\ m = n * q
  BY Quotient
<1> HIDE DEF q
<1>2. (m + n) % n = 0
  <2>1. m + n = n * (q + 1) + 0
    BY <1>1, SMTT(30)
  <2> QED BY <1>1, <2>1, QuotientOf
<1>3. ASSUME NEW i \in m + 1 .. m + n PROVE (i - 1) \div n = q
  <2>1. i - 1 - m \in 0 .. n - 1 /\ i - 1 = m + (i - 1 - m)
    OBVIOUS
  <2> QED BY <1>1, <2>1, QuotientOf
<1>4. ASSUME m # 0 PROVE (m - 1) \div n + 1 = q
  <2>1. q # 0
    BY <1>1, <1>4, SMTT(30)
  <2> DEFINE p == q - 1
             r == n - 1
  <2>2. p \in Nat /\ r \in 0 .. n - 1 /\ p + 1 = q
    BY <1>1, <2>1
  <2>3. m - 1 = n * p + r
    BY <1>1, <2>1, SMTT(30)
  <2> HIDE DEF p, r
  <2>4. (n * p + r) \div n = p
    BY <2>2, QuotientOf
  <2> QED BY <2>2, <2>3, <2>4
<1> QED BY <1>2, <1>3, <1>4 DEF q

LEMMA NoFrames ==
  ASSUME NEW n \in Nat \ {0}
  PROVE  Frames(<< >>, n) /\ 0 % n = 0
<1>1. 0 % n = 0
  BY ModInside
<1> QED BY <1>1 DEF Frames

(* The size has not been changed since the recording was started.          *)
Steady == allocated /\ ~timedOut /\ ~resized

(* The two threads have read the same size, and cut by it.                 *)
SizesAgree ==
  Steady =>
    /\ disk # "begin" => wanted = frameSize
    /\ InFrame => numPixels = frameSize
    /\ Frames(added.video, frameSize)
    /\ Len(videoOut) <= frameSize
    /\ Len(written.video) % frameSize = 0

LEMMA SteadyStep ==
  ASSUME Kept, [Next]_vars, ~Start, Steady'
  PROVE  Steady /\ frameSize' = frameSize
<1> USE DEF Steady, Kept, TypeOK
<1>1. CASE BeginFrame \/ FrameStep
  BY <1>1 DEF BeginFrame, FrameStep, FindRoom, CopyPicture, PublishPicture,
    AddSound, AddSoundAgain, history, exempt, settings
<1>2. CASE DiskStep
  BY <1>2 DEF DiskStep, DiskBegin, TestInterruption, DrainCell, SleepForCells,
    EncodePicture, WriteChunk, FlushSound, DisableRecord, FreeBuffers,
    EndThread, diskUnchanged, exempt, settings
<1>3. CASE ChangeSize
  <2>1. allocated /\ ~timedOut /\ ~resized /\ disk = "off"
    BY <1>3 DEF ChangeSize
  <2> QED BY <2>1 DEF InStep
<1>4. CASE Stop \/ CloseApp \/ Joined \/ SetAudioEnable
  BY <1>4 DEF Stop, CloseApp, Joined, Return, SetAudioEnable, history, exempt,
    settings
<1>5. ~WaitTimesOut
  BY DEF WaitTimesOut
<1>6. CASE UNCHANGED vars
  BY <1>6 DEF vars, history, exempt, settings
<1> QED BY <1>1, <1>2, <1>3, <1>4, <1>5, <1>6 DEF Next, Ended, GuiStep

(* What a step makes of the sizes that the threads have read.              *)
LEMMA SizesStep ==
  ASSUME Kept, SizesAgree, [Next]_vars, ~Start, Steady'
  PROVE  /\ disk' # "begin" => wanted' = frameSize
         /\ InFrame' => numPixels' = frameSize
<1>1. Steady /\ frameSize' = frameSize
  BY SteadyStep
<1>2. /\ disk # "begin" => wanted = frameSize
      /\ InFrame => numPixels = frameSize
  BY <1>1 DEF SizesAgree
<1>3. CASE BeginFrame \/ FrameStep
  BY <1>2, <1>3 DEF BeginFrame, FrameStep, FindRoom, CopyPicture,
    PublishPicture, AddSound, AddSoundAgain, InFrame, diskVars
<1>4. CASE DiskStep
  BY <1>2, <1>4 DEF DiskStep, DiskBegin, TestInterruption, DrainCell,
    SleepForCells, EncodePicture, WriteChunk, FlushSound, DisableRecord,
    FreeBuffers, EndThread, diskUnchanged, InFrame, emuVars
<1>5. CASE GuiStep
  BY <1>2, <1>5 DEF GuiStep, Stop, CloseApp, Joined, WaitTimesOut, Return,
    ChangeSize, SetAudioEnable, InFrame, diskVars, emuVars
<1>6. CASE UNCHANGED vars
  BY <1>2, <1>6 DEF vars, InFrame, diskVars, emuVars
<1> QED BY <1>3, <1>4, <1>5, <1>6 DEF Next, Ended

(* A frame is put in whole.                                                *)
LEMMA PublishFrames ==
  ASSUME TypeOK, PublishPicture, numPixels = frameSize,
         Frames(added.video, frameSize)
  PROVE  Frames(added'.video, frameSize)
<1> DEFINE s == added.video
           m == Len(s)
           n == frameSize
           new == [i \in 1 .. n |-> Recorded + 1]
<1>1. n \in Nat \ {0} /\ s \in Seq(Nat) /\ m \in Nat /\ Recorded \in Nat
  <2>1. n \in Nat \ {0}
    BY RecorderAssumption DEF TypeOK
  <2>2. s \in Seq(Nat)
    BY Rings
  <2> QED BY <2>1, <2>2, RecordedTyped
<1>2. new \in Seq(Nat) /\ Len(new) = n
  BY <1>1
<1>3. added'.video = s \o new
  BY DEF PublishPicture, TypeOK
<1>4. m % n = 0
  BY DEF Frames
<1>5. Recorded = m \div n
  <2>1. CASE s = << >>
    <3>1. m = n * 0 + 0 /\ Recorded = 0
      BY <1>1, <2>1 DEF Recorded
    <3> QED BY <1>1, <3>1, QuotientOf
  <2>2. CASE s # << >>
    <3>1. m \in 1 .. m
      BY <1>1, <2>2, EmptySeq
    <3>2. Recorded = (m - 1) \div n + 1
      BY <2>2, <3>1 DEF Recorded, Frames
    <3>3. m # 0
      BY <1>1, <3>1
    <3> HIDE DEF m, n
    <3> QED BY <1>1, <1>4, <3>2, <3>3, FrameAfter
  <2> QED BY <2>1, <2>2
<1> HIDE DEF new
<1>6. /\ Len(s \o new) = m + n
      /\ \A i \in 1 .. m + n :
           (s \o new)[i] = IF i <= m THEN s[i] ELSE new[i - m]
  BY <1>1, <1>2, ConcatProperties
<1>7. ASSUME NEW i \in 1 .. m + n
      PROVE  (s \o new)[i] = (i - 1) \div n + 1
  <2>1. CASE i <= m
    <3>1. i \in 1 .. m
      BY <1>1, <2>1
    <3> QED BY <1>6, <2>1, <3>1 DEF Frames
  <2>2. CASE ~(i <= m)
    <3>1. i - m \in 1 .. n /\ i \in m + 1 .. m + n
      BY <1>1, <2>2
    <3>2. (s \o new)[i] = Recorded + 1
      BY <1>6, <2>2, <3>1 DEF new
    <3> HIDE DEF m, n
    <3>3. (i - 1) \div n = m \div n
      BY <1>1, <1>4, <3>1, FrameAfter
    <3> QED BY <1>5, <3>2, <3>3
  <2> QED BY <2>1, <2>2
<1> HIDE DEF m, n, s
<1>8. (m + n) % n = 0
  BY <1>1, <1>4, FrameAfter
<1> QED BY <1>3, <1>6, <1>7, <1>8 DEF Frames, n

LEMMA AgreeStep ==
  ASSUME Kept, Kept', SizesAgree, [Next]_vars
  PROVE  SizesAgree'
<1> SUFFICES ASSUME Steady' PROVE SizesAgree'
  BY DEF SizesAgree
<1>0. TypeOK /\ TypeOK'
  BY DEF Kept
<1>1. CASE Start
  <2>1. disk = "off" /\ ~InFrame'
    BY <1>0, <1>1 DEF Start, Steady, Kept, InStep, InFrame, emuVars, TypeOK
  <2>2. /\ disk' = "begin" /\ videoOut' = << >>
        /\ added' = NoStreams /\ written' = NoStreams
    BY <1>1, <2>1 DEF Start, Kept, NoPicture
  <2>3. frameSize' \in Nat \ {0}
    <3>1. frameSize' \in FrameSizes
      BY <1>0 DEF TypeOK
    <3> QED BY <3>1, RecorderAssumption
  <2>4. Frames(<< >>, frameSize') /\ 0 % frameSize' = 0
    BY <2>3, NoFrames
  <2>5. /\ added'.video = << >> /\ Len(written'.video) = 0
        /\ Len(videoOut') <= frameSize'
    BY <2>2, <2>3 DEF NoStreams
  <2>6. Frames(added.video, frameSize)'
    BY <2>4, <2>5 DEF Frames
  <2> QED BY <2>1, <2>2, <2>4, <2>5, <2>6 DEF SizesAgree
<1> SUFFICES ASSUME ~Start PROVE SizesAgree'
  BY <1>1
<1>2. Steady /\ frameSize' = frameSize /\ disk \notin {"off", "ending"}
  BY SteadyStep DEF Steady, Kept, InStep
<1> DEFINE n == frameSize
<1>3. /\ disk # "begin" => wanted = n
      /\ InFrame => numPixels = n
      /\ Frames(added.video, n) /\ Len(videoOut) <= n
      /\ Len(written.video) % n = 0
      /\ n \in Nat \ {0}
  BY <1>0, <1>2, RecorderAssumption DEF SizesAgree, TypeOK
<1>4. /\ disk' # "begin" => wanted' = n
      /\ InFrame' => numPixels' = n
  BY SizesStep
<1> SUFFICES /\ Frames(added'.video, n) /\ Len(videoOut') <= n
             /\ Len(written'.video) % n = 0
  BY <1>2, <1>4 DEF SizesAgree, Frames
<1> HIDE DEF n
<1>5. CASE PublishPicture
  <2>1. UNCHANGED <<written, videoOut>> /\ InFrame
    BY <1>5 DEF PublishPicture, InFrame, diskVars
  <2> QED BY <1>0, <1>3, <1>5, <2>1, PublishFrames DEF n
<1>6. CASE DrainCell
  <2>1. UNCHANGED <<added, written>> /\ wanted = n /\ Len(videoOut) < wanted
    BY <1>3, <1>6 DEF DrainCell
  <2>2. Len(videoOut') = Len(videoOut) + 1 /\ Len(videoOut) \in Nat
    <3>1. videoOut \in Seq(Nat)
      BY <1>0, Rings
    <3> QED BY <1>6, <3>1 DEF DrainCell
  <2>3. Len(videoOut') <= n
    BY <1>3, <2>1, <2>2
  <2> QED BY <1>3, <2>1, <2>3
<1>7. CASE EncodePicture
  <2>1. UNCHANGED added /\ videoOut' = << >> /\ wanted = n
        /\ Len(videoOut) >= wanted
    BY <1>3, <1>7 DEF EncodePicture
  <2>2. written.video \in Seq(Nat) /\ videoOut \in Seq(Nat)
    BY <1>0, Rings
  <2>3. Len(videoOut) = n
    BY <1>3, <2>1, <2>2
  <2>4. written'.video = written.video \o videoOut
    BY <1>0, <1>7 DEF EncodePicture, TypeOK
  <2>5. Len(written'.video) = Len(written.video) + n /\ Len(written.video) \in Nat
    <3>1. /\ Len(written.video \o videoOut) = Len(written.video) + Len(videoOut)
          /\ Len(written.video) \in Nat
      BY <2>2, ConcatProperties
    <3> QED BY <2>3, <2>4, <3>1
  <2>6. (Len(written.video) + n) % n = 0
    BY <1>3, <2>5, FrameAfter
  <2>7. Len(videoOut') <= n
    <3>1. Len(videoOut') = 0
      BY <2>1
    <3> QED BY <1>3, <3>1
  <2> QED BY <1>3, <2>1, <2>5, <2>6, <2>7
<1>8. CASE CopyPicture
  BY <1>3, <1>8 DEF CopyPicture, history, diskVars
<1>9. CASE FreeBuffers \/ EndThread
  BY <1>2, <1>9 DEF FreeBuffers, EndThread, Steady
<1>10. CASE ~(PublishPicture \/ DrainCell \/ EncodePicture \/ CopyPicture
               \/ FreeBuffers \/ EndThread)
  <2>1. videoOut' = videoOut /\ added'.video = added.video
        /\ written'.video = written.video
    BY <1>0, <1>10, NoPictureMoves
  <2> QED BY <1>3, <2>1
<1> QED BY <1>5, <1>6, <1>7, <1>8, <1>9, <1>10

(* A picture in the file is one whole frame (aviRecordAddFrame,            *)
(* AviRecordDiskThread_t::run), for every size of picture, unless the size *)
(* changes during the recording.                                           *)
THEOREM AviPicturesWhole == Spec => []PicturesWhole
<1>1. Init => Intact /\ SizesAgree
  BY IntactInit DEF Init, SizesAgree, Steady
<1>2. Kept /\ Kept' /\ Intact /\ [Next]_vars => Intact'
  BY AudioStep, VideoStep, RoomStep DEF Intact
<1>3. Kept /\ Kept' /\ SizesAgree /\ [Next]_vars => SizesAgree'
  BY AgreeStep
<1>4. Kept /\ Intact /\ SizesAgree => PicturesWhole
  <2> SUFFICES ASSUME Kept, Intact, SizesAgree, Steady, ~overfilled
               PROVE  /\ Len(written.video) % frameSize = 0
                      /\ \A i \in DOMAIN written.video :
                           written.video[i] = (i - 1) \div frameSize + 1
    BY DEF PicturesWhole, Steady
  <2> DEFINE w == written.video
             r == videoOut \o PendingVideo
  <2>1. w \in Seq(Nat) /\ videoOut \in Seq(Nat) /\ PendingVideo \in Seq(Nat)
    BY Rings, PendingTyped DEF Kept
  <2>2. r \in Seq(Nat)
    BY <2>1, ConcatProperties
  <2>3. added.video = w \o r
    BY <2>1, Associative DEF Intact, VideoKept, Steady
  <2>4. Len(w) % frameSize = 0 /\ Frames(added.video, frameSize)
    BY DEF SizesAgree
  <2> HIDE DEF w, r
  <2>5. /\ Len(w \o r) = Len(w) + Len(r) /\ DOMAIN w = 1 .. Len(w)
        /\ Len(w) \in Nat /\ Len(r) \in Nat
        /\ \A i \in 1 .. Len(w) : (w \o r)[i] = w[i]
    BY <2>1, <2>2, ConcatProperties
  <2>6. \A i \in DOMAIN w : w[i] = (i - 1) \div frameSize + 1
    <3> SUFFICES ASSUME NEW i \in 1 .. Len(w)
                 PROVE  w[i] = (i - 1) \div frameSize + 1
      BY <2>5
    <3>1. i \in 1 .. Len(added.video)
      BY <2>3, <2>5
    <3>2. added.video[i] = w[i]
      BY <2>3, <2>5
    <3> QED BY <2>4, <3>1, <3>2 DEF Frames
  <2> QED BY <2>4, <2>6 DEF w
<1> QED BY <1>1, <1>2, <1>3, <1>4, AlwaysKept, PTL DEF Spec

=============================================================================
