--------------------------- MODULE EmuThreadProofs ----------------------------
(***************************************************************************)
(* The two threads never use the machine at the same time, and a game is   *)
(* closed between frames, whatever breakpoints are hit.                    *)
(*                                                                         *)
(* The invariant ties the mutex to what the threads are doing.  Owners is  *)
(* what Exclusive needs; it is kept through the unlock in the middle of a  *)
(* close because the lock given up there is the thread's own.  Drained     *)
(* says where the emulator thread can be once the GUI thread has slept.    *)
(***************************************************************************)
EXTENDS EmuThread, TLAPS

(* The counters of the mutex.                                              *)
Counts ==
  /\ mutexLocks = IF owner = NoThread THEN 0 ELSE 1
  /\ mutexPending = (IF emu = "relock" THEN 1 ELSE 0)
                      + (IF gui \in {"lock", "regain"} THEN 1 ELSE 0)

(* A quit goes to the end of the process.                                  *)
QuitGoesOn == task = "quit" => gui \notin {"events", "lock", "join"}

Owners ==
  task # "quit" =>
    /\ owner = "emu" <=> EmuHolds
    /\ owner = "gui" <=> GuiHolds
    /\ gui # "sleep"

(* A thread at a breakpoint can be seen to be there.                       *)
Seen == emu \in {"hit", "wait", "relock", "resume"} => waitingAtBp

(* The GUI thread on its way through a close.                              *)
Drained ==
  task # "quit" =>
    /\ gui \in {"drain", "regain"} => ~bpDebugEnable /\ emu # "hit"
    /\ gui \in {"regain", "clear"} => emu \notin {"wait", "relock"}
    /\ gui = "work" /\ task # "edit" => ~game

Kept == TypeOK /\ Counts /\ QuitGoesOn /\ Owners /\ Seen /\ Drained

(* Every state predicate of the invariant, expanded.                       *)
LEMMA KeptInit == Init => Kept
<1> SUFFICES ASSUME Init
             PROVE  Kept
  OBVIOUS
<1>1. TypeOK BY DEF Init, TypeOK, Threads, Tasks, Requests
<1>2. Counts BY DEF Init, Counts
<1>3. Owners
  BY ThreadAssumption DEF Init, Owners, EmuHolds, GuiHolds, Threads
<1>4. QuitGoesOn /\ Seen /\ Drained BY DEF Init, QuitGoesOn, Seen, Drained
<1> QED BY <1>1, <1>2, <1>3, <1>4 DEF Kept

(* The emulator thread keeps the invariant.                                *)
LEMMA EmulatorKeeps ==
  ASSUME Kept, EmulatorStep \/ FrameEvent
  PROVE  Kept'
<1> USE ThreadAssumption
    DEF Kept, TypeOK, Counts, QuitGoesOn, Owners, Seen, Drained, Threads,
        Tasks, Requests, EmuHolds, GuiHolds, lockVars, debugVars, guiVars
<1>1. CASE Begin BY <1>1 DEF Begin
<1>2. CASE TestRun BY <1>2 DEF TestRun
<1>3. CASE PollPending BY <1>3 DEF PollPending
<1>4. CASE Nap BY <1>4 DEF Nap
<1>5. CASE TryTaken BY <1>5 DEF TryTaken, Acquire
<1>6. CASE TryFailed BY <1>6 DEF TryFailed
<1>7. CASE EndFrame BY <1>7 DEF EndFrame, UnLock
<1>8. CASE UnlockAtBreakpoint BY <1>8 DEF UnlockAtBreakpoint, UnLock
<1>9. CASE LeaveBreakpoint BY <1>9 DEF LeaveBreakpoint, Announce
<1>10. CASE RelockAtBreakpoint BY <1>10 DEF RelockAtBreakpoint, Acquire
<1>11. CASE ResumeFrame
  <2>1. TypeOK' BY <1>11 DEF ResumeFrame
  <2>2. Counts' BY <1>11 DEF ResumeFrame
  <2>3. QuitGoesOn' BY <1>11 DEF ResumeFrame
  <2>4. Owners' BY <1>11 DEF ResumeFrame
  <2>5. Seen' BY <1>11 DEF ResumeFrame
  <2>6. Drained' BY <1>11 DEF ResumeFrame
  <2> QED BY <2>1, <2>2, <2>3, <2>4, <2>5, <2>6
<1>12. CASE HangInFrame BY <1>12 DEF HangInFrame
<1>13. CASE PassBreakpoint BY <1>13 DEF PassBreakpoint
<1>14. CASE HitBreakpoint BY <1>14 DEF HitBreakpoint
<1> QED
  BY <1>1, <1>2, <1>3, <1>4, <1>5, <1>6, <1>7, <1>8, <1>9, <1>10, <1>11,
     <1>12, <1>13, <1>14 DEF EmulatorStep, FrameEvent

(* The GUI thread keeps the invariant.                                     *)
LEMMA GuiKeeps ==
  ASSUME Kept, GuiStep \/ UserStep
  PROVE  Kept'
<1> USE ThreadAssumption
    DEF Kept, TypeOK, Counts, QuitGoesOn, Owners, Seen, Drained, Threads,
        Tasks, Requests, EmuHolds, GuiHolds, lockVars, debugVars, guiVars
<1>1. CASE Granted BY <1>1 DEF Granted, Acquire
<1>2. CASE Shut
  <2>1. TypeOK'
    <3>1. mutexLocks' \in Nat /\ mutexPending' \in Nat
      BY <1>2 DEF Shut, UnLock
    <3>2. owner' \in Threads \cup {NoThread} /\ gui' \in {"drain", "sleep", "clear", "work"}
      BY <1>2 DEF Shut, UnLock
    <3>3. bpDebugEnable' \in BOOLEAN BY <1>2 DEF Shut
    <3> QED BY <1>2, <3>1, <3>2, <3>3 DEF Shut
  <2>2. Counts' BY <1>2 DEF Shut, UnLock
  <2>3. QuitGoesOn' BY <1>2 DEF Shut, UnLock
  <2>4. Owners' BY <1>2 DEF Shut, UnLock
  <2>5. Seen' BY <1>2 DEF Shut, UnLock
  <2>6. Drained' BY <1>2 DEF Shut, UnLock
  <2> QED BY <2>1, <2>2, <2>3, <2>4, <2>5, <2>6
<1>3. CASE SleepEnds BY <1>3 DEF SleepEnds, SleptLongEnough, MustWait, Announce
<1>4. CASE Regain BY <1>4 DEF Regain, Acquire
<1>5. CASE Clear
  <2>1. TypeOK' BY <1>5 DEF Clear
  <2>2. Counts' BY <1>5 DEF Clear
  <2>3. QuitGoesOn' BY <1>5 DEF Clear
  <2>4. Owners' BY <1>5 DEF Clear
  <2>5. Seen' BY <1>5 DEF Clear
  <2>6. Drained' BY <1>5 DEF Clear
  <2> QED BY <2>1, <2>2, <2>3, <2>4, <2>5, <2>6
<1>6. CASE Finish
  <2>1. TypeOK'
    <3>1. mutexLocks' \in Nat /\ mutexPending' \in Nat
      BY <1>6 DEF Finish, UnLock
    <3>2. owner' \in Threads \cup {NoThread} /\ gui' \in {"closed", "events"}
      BY <1>6 DEF Finish, UnLock
    <3>3. game' \in BOOLEAN /\ paused' \in BOOLEAN BY <1>6 DEF Finish
    <3> QED BY <1>6, <3>1, <3>2, <3>3 DEF Finish
  <2>2. Counts' BY <1>6 DEF Finish, UnLock
  <2>3. QuitGoesOn' BY <1>6 DEF Finish, UnLock
  <2>4. Owners' BY <1>6 DEF Finish, UnLock
  <2>5. Seen' BY <1>6 DEF Finish, UnLock
  <2>6. Drained' BY <1>6 DEF Finish, UnLock
  <2> QED BY <2>1, <2>2, <2>3, <2>4, <2>5, <2>6
<1>7. CASE Joined BY <1>7 DEF Joined, Announce
<1>8. CASE Terminate BY <1>8 DEF Terminate, Announce
<1>9. ASSUME NEW t \in Requests, Request(t)
      PROVE  Kept'
  BY <1>9 DEF Request, Announce
<1>10. CASE TogglePause BY <1>10 DEF TogglePause
<1>11. CASE QuitByPad BY <1>11 DEF QuitByPad
<1>12. CASE CloseApp BY <1>12 DEF CloseApp
<1> QED
  BY <1>1, <1>2, <1>3, <1>4, <1>5, <1>6, <1>7, <1>8, <1>9, <1>10, <1>11,
     <1>12 DEF GuiStep, UserStep

LEMMA KeptStep == Kept /\ [Next]_vars => Kept'
<1> SUFFICES ASSUME Kept, [Next]_vars
             PROVE  Kept'
  OBVIOUS
<1>1. CASE UNCHANGED vars
  BY <1>1
  DEF vars, Kept, TypeOK, Counts, QuitGoesOn, Owners, Seen, Drained,
      EmuHolds, GuiHolds, lockVars, debugVars, guiVars
<1> QED BY <1>1, EmulatorKeeps, GuiKeeps DEF Next, Ended

LEMMA AlwaysKept == Spec => []Kept
  BY KeptInit, KeptStep, PTL DEF Spec

-----------------------------------------------------------------------------
(* Types; in particular no thread takes back an announcement that was not  *)
(* made, so that mutexPending does not go below zero.                      *)
THEOREM EmuTyped == Spec => []TypeOK
<1>1. Kept => TypeOK BY DEF Kept
<1> QED BY <1>1, AlwaysKept, PTL

(* The emulator and the GUI never use the machine at the same time, for    *)
(* any interleaving of locks, breakpoints and closes (fceuWrapperLock,     *)
(* CloseGame, fceWrapper_DebugBreakpoint).                                 *)
THEOREM EmuExclusive == Spec => []Exclusive
<1>1. Kept => Exclusive BY DEF Kept, Owners, Exclusive
<1> QED BY <1>1, AlwaysKept, PTL

(* A game is closed only while the emulator thread is not within a frame   *)
(* (CloseGame).                                                            *)
THEOREM EmuClosedBetweenFrames == Spec => ClosedBetweenFrames
<1>1. Kept /\ [Next]_vars =>
        [game /\ ~game' /\ task # "quit" => ~MidFrame]_vars
  <2> SUFFICES ASSUME Kept, Next, game, ~game', task # "quit"
               PROVE  ~MidFrame
    OBVIOUS
  <2>1. Clear \/ Finish
    BY DEF Next, EmulatorStep, FrameEvent, GuiStep, UserStep, Ended, Begin,
           TestRun, PollPending, Nap, TryTaken, TryFailed, EndFrame,
           UnlockAtBreakpoint, LeaveBreakpoint, RelockAtBreakpoint,
           ResumeFrame, HangInFrame, PassBreakpoint, HitBreakpoint, Granted,
           Shut, SleepEnds, Regain, Joined, Terminate, Request, TogglePause,
           QuitByPad, CloseApp, vars
  <2>2. CASE Clear
    BY <2>2 DEF Clear, Kept, Owners, Drained, EmuHolds, GuiHolds, MidFrame
  <2>3. CASE Finish
    BY <2>3 DEF Finish, Kept, TypeOK, Tasks, Requests, Drained
  <2> QED BY <2>1, <2>2, <2>3
<1> QED BY <1>1, AlwaysKept, PTL DEF Spec, ClosedBetweenFrames

=============================================================================
