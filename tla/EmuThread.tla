------------------------------ MODULE EmuThread ------------------------------
(***************************************************************************)
(* The emulator thread and the GUI thread of the Qt driver, and the mutex  *)
(* of fceuWrapper.cpp between them.  The emulator thread runs one frame    *)
(* after another under the mutex, and stops in the middle of one, without  *)
(* the mutex, at a breakpoint of the debugger.  The GUI thread takes the   *)
(* mutex for whatever it does to the machine, and to close a game sends a  *)
(* thread that waits at a breakpoint to the end of its frame first.        *)
(*                                                                         *)
(* Of time only this is assumed: the 16 ms and 100 ms for which a thread   *)
(* sleeps in order to let the other one go on are enough for it to take a  *)
(* mutex that is free, the 5 s of closeApp for a frame that ends, and the  *)
(* emulator thread has begun before the user can close the window.         *)
(* Nested locks of the GUI thread, which the recursive mutex allows, are   *)
(* one lock here.  LoadGameFromLua has no caller and no action.            *)
(***************************************************************************)
EXTENDS Naturals

CONSTANT NoThread    \* the owner of a free mutex

Threads == {"emu", "gui"}

ASSUME ThreadAssumption == NoThread \notin Threads

VARIABLES
  runEmulator,
  owner,             \* the thread that holds consoleWindow->mutex
  mutexLocks, mutexPending,
  emu,               \* where the emulator thread is
  gui, task,         \* where the GUI thread is, and what it is doing
  waitingAtBp, bpDebugEnable,
  paused,            \* EmulationPaused
  game               \* whether a game is loaded

lockVars == <<owner, mutexLocks, mutexPending>>
debugVars == <<waitingAtBp, bpDebugEnable, paused>>
guiVars == <<gui, task>>
vars == <<runEmulator, lockVars, emu, guiVars, debugVars, game>>

Requests == {"edit", "close", "load"}
Tasks == Requests \cup {"exit", "quit"}

-----------------------------------------------------------------------------
(* fceuWrapperLock, fceuWrapperTryLock and fceuWrapperUnLock.              *)

(* Taking the mutex; waiting says whether the thread had to announce it.   *)
Acquire(t, waiting) ==
  /\ owner = NoThread
  /\ owner' = t
  /\ mutexLocks' = mutexLocks + 1
  /\ mutexPending' = mutexPending - waiting

(* Mutant of the next definition: the thread does not announce itself.     *)
AnnounceNothing ==
  /\ UNCHANGED lockVars

Announce ==
  /\ mutexPending' = mutexPending + 1
  /\ UNCHANGED <<owner, mutexLocks>>

(* The count is of locks, not of a thread's locks: it does not keep a      *)
(* thread from unlocking what the other one has locked.                    *)
UnLock ==
  /\ IF mutexLocks > 0
     THEN owner' = NoThread /\ mutexLocks' = mutexLocks - 1
     ELSE UNCHANGED <<owner, mutexLocks>>
  /\ UNCHANGED mutexPending

-----------------------------------------------------------------------------
(* The emulator thread.                                                    *)

Begin ==
  /\ emu = "begin"
  /\ runEmulator' = TRUE
  /\ emu' = "loop"
  /\ UNCHANGED <<lockVars, guiVars, debugVars, game>>

TestRun ==
  /\ emu = "loop"
  /\ emu' = IF runEmulator THEN "poll" ELSE "ended"
  /\ UNCHANGED <<runEmulator, lockVars, guiVars, debugVars, game>>

(* Mutant of the next definition: requests are not looked for.             *)
TryAtOnce ==
  /\ emu = "poll"
  /\ emu' = "try"
  /\ UNCHANGED <<runEmulator, lockVars, guiVars, debugVars, game>>

PollPending ==
  /\ emu = "poll"
  /\ emu' = IF mutexPending > 0 THEN "nap" ELSE "try"
  /\ UNCHANGED <<runEmulator, lockVars, guiVars, debugVars, game>>

(* The sleep that lets the request be serviced.                            *)
Nap ==
  /\ emu = "nap"
  /\ ~(owner = NoThread /\ gui \in {"lock", "regain"})
  /\ emu' = "try"
  /\ UNCHANGED <<runEmulator, lockVars, guiVars, debugVars, game>>

(* The try succeeds: "frame" runs the CPU; "hold" does not, for want of a  *)
(* game or because the emulation is paused.                                *)
TryTaken ==
  /\ emu = "try"
  /\ Acquire("emu", 0)
  /\ emu' = IF game /\ ~paused THEN "frame" ELSE "hold"
  /\ UNCHANGED <<runEmulator, guiVars, debugVars, game>>

(* After a second the try fails, and the thread backs off.                 *)
TryFailed ==
  /\ emu = "try"
  /\ owner # NoThread
  /\ emu' = "loop"
  /\ UNCHANGED <<runEmulator, lockVars, guiVars, debugVars, game>>

EndFrame ==
  /\ emu \in {"frame", "hold"}
  /\ UnLock
  /\ emu' = "loop"
  /\ UNCHANGED <<runEmulator, guiVars, debugVars, game>>

(* A frame that does not end, as under a Lua script that loops.            *)
HangInFrame ==
  /\ emu = "frame"
  /\ emu' = "hung"
  /\ UNCHANGED <<runEmulator, lockVars, guiVars, debugVars, game>>

(* BreakHit and fceWrapper_DebugBreakpoint.                                *)
PassBreakpoint ==
  /\ emu = "frame"
  /\ ~(runEmulator /\ bpDebugEnable)
  /\ paused' = TRUE
  /\ UNCHANGED <<runEmulator, lockVars, emu, guiVars, waitingAtBp,
                 bpDebugEnable, game>>

HitBreakpoint ==
  /\ emu = "frame"
  /\ runEmulator /\ bpDebugEnable
  /\ paused' = TRUE
  /\ waitingAtBp' = TRUE
  /\ emu' = "hit"
  /\ UNCHANGED <<runEmulator, lockVars, guiVars, bpDebugEnable, game>>

UnlockAtBreakpoint ==
  /\ emu = "hit"
  /\ UnLock
  /\ emu' = "wait"
  /\ UNCHANGED <<runEmulator, guiVars, debugVars, game>>

MustWait == runEmulator /\ bpDebugEnable /\ paused

LeaveBreakpoint ==
  /\ emu = "wait"
  /\ ~MustWait
  /\ Announce
  /\ emu' = "relock"
  /\ UNCHANGED <<runEmulator, guiVars, debugVars, game>>

RelockAtBreakpoint ==
  /\ emu = "relock"
  /\ Acquire("emu", 1)
  /\ emu' = "resume"
  /\ UNCHANGED <<runEmulator, guiVars, debugVars, game>>

ResumeFrame ==
  /\ emu = "resume"
  /\ waitingAtBp' = FALSE
  /\ emu' = "frame"
  /\ UNCHANGED <<runEmulator, lockVars, guiVars, bpDebugEnable, paused, game>>

-----------------------------------------------------------------------------
(* The GUI thread.                                                         *)

(* FCEU_WRAPPER_LOCK of a command: an operation on the machine, closing    *)
(* the game, or loading another one.                                       *)
Request(t) ==
  /\ gui = "events"
  /\ gui' = "lock"
  /\ task' = t
  /\ Announce
  /\ UNCHANGED <<runEmulator, emu, debugVars, game>>

Granted ==
  /\ gui = "lock"
  /\ Acquire("gui", 1)
  /\ gui' = IF task = "edit" THEN "work" ELSE "shut"
  /\ UNCHANGED <<runEmulator, emu, task, debugVars, game>>

(* The debugger and the hotkeys pause and resume without the mutex.        *)
TogglePause ==
  /\ gui = "events"
  /\ paused' = ~paused
  /\ UNCHANGED <<runEmulator, lockVars, emu, guiVars, waitingAtBp,
                 bpDebugEnable, game>>

(* The four buttons that exit: CloseGame without the mutex, then exit.     *)
QuitByPad ==
  /\ gui = "events"
  /\ gui' = "shut"
  /\ task' = "quit"
  /\ UNCHANGED <<runEmulator, lockVars, emu, debugVars, game>>

(* Mutant of the next definition: the thread at a breakpoint is not looked *)
(* for.                                                                    *)
ShutAtOnce ==
  /\ gui = "shut"
  /\ gui' = IF game THEN "clear" ELSE "work"
  /\ UNCHANGED <<runEmulator, lockVars, emu, task, debugVars, game>>

(* CloseGame up to the sleep.                                              *)
Shut ==
  /\ gui = "shut"
  /\ IF game /\ waitingAtBp
     THEN /\ bpDebugEnable' = FALSE
          /\ IF mutexLocks > 0
             THEN UnLock /\ gui' = "drain"
             ELSE UNCHANGED lockVars /\ gui' = "sleep"
     ELSE /\ gui' = IF game THEN "clear" ELSE "work"
          /\ UNCHANGED <<lockVars, bpDebugEnable>>
  /\ UNCHANGED <<runEmulator, emu, task, waitingAtBp, paused, game>>

(* By the end of the sleep the emulator thread has done what it can        *)
(* without the mutex and has taken it if it is free.                       *)
SleptLongEnough ==
  /\ ~(emu = "wait" /\ ~MustWait)
  /\ ~(emu = "relock" /\ owner = NoThread)

(* Mutant of the next definition: it goes on without the mutex.            *)
ClearAfterSleep ==
  /\ gui \in {"drain", "sleep"}
  /\ SleptLongEnough
  /\ gui' = "clear"
  /\ UNCHANGED <<runEmulator, lockVars, emu, task, debugVars, game>>

SleepEnds ==
  /\ gui \in {"drain", "sleep"}
  /\ SleptLongEnough
  /\ IF gui = "drain"
     THEN Announce /\ gui' = "regain"
     ELSE UNCHANGED lockVars /\ gui' = "clear"
  /\ UNCHANGED <<runEmulator, emu, task, debugVars, game>>

Regain ==
  /\ gui = "regain"
  /\ Acquire("gui", 1)
  /\ gui' = "clear"
  /\ UNCHANGED <<runEmulator, emu, task, debugVars, game>>

(* The rest of CloseGame: the breakpoints and the machine are gone.        *)
Clear ==
  /\ gui = "clear"
  /\ bpDebugEnable' = TRUE
  /\ game' = FALSE
  /\ gui' = "work"
  /\ UNCHANGED <<runEmulator, lockVars, emu, task, waitingAtBp, paused>>

(* The end of a command.  A load may fail; a game that opens is not        *)
(* paused.  After a quit the process ends as it is.                        *)
Finish ==
  /\ gui = "work"
  /\ IF task = "quit" THEN UNCHANGED lockVars ELSE UnLock
  /\ gui' = IF task \in {"exit", "quit"} THEN "closed" ELSE "events"
  /\ IF task = "load" THEN game' \in BOOLEAN ELSE UNCHANGED game
  /\ paused' = IF game' /\ ~game THEN FALSE ELSE paused
  /\ UNCHANGED <<runEmulator, emu, task, waitingAtBp, bpDebugEnable>>

(* closeApp.                                                               *)
CloseApp ==
  /\ gui = "events"
  /\ emu # "begin"
  /\ runEmulator' = FALSE
  /\ gui' = "join"
  /\ task' = "exit"
  /\ UNCHANGED <<lockVars, emu, debugVars, game>>

Joined ==
  /\ gui = "join"
  /\ emu = "ended"
  /\ Announce
  /\ gui' = "lock"
  /\ UNCHANGED <<runEmulator, emu, task, debugVars, game>>

(* After five seconds the thread is terminated, with what it holds.        *)
Terminate ==
  /\ gui = "join"
  /\ emu = "hung"
  /\ emu' = "killed"
  /\ Announce
  /\ gui' = "lock"
  /\ UNCHANGED <<runEmulator, task, debugVars, game>>

-----------------------------------------------------------------------------
Init ==
  /\ runEmulator = FALSE
  /\ owner = NoThread /\ mutexLocks = 0 /\ mutexPending = 0
  /\ emu = "begin"
  /\ gui = "events" /\ task = "edit"
  /\ waitingAtBp = FALSE /\ bpDebugEnable = TRUE
  /\ paused = FALSE
  /\ game = FALSE

(* The steps that the emulator thread takes once it is there.              *)
EmulatorStep ==
  \/ Begin \/ TestRun \/ PollPending \/ Nap \/ TryTaken \/ TryFailed
  \/ EndFrame \/ UnlockAtBreakpoint \/ LeaveBreakpoint
  \/ RelockAtBreakpoint \/ ResumeFrame

(* What a frame may meet.                                                  *)
FrameEvent == HangInFrame \/ PassBreakpoint \/ HitBreakpoint

(* The steps that the GUI thread takes once it has begun something.        *)
GuiStep ==
  \/ Granted \/ Shut \/ SleepEnds \/ Regain \/ Clear \/ Finish
  \/ Joined \/ Terminate

(* What the user does.                                                     *)
UserStep ==
  (\E t \in Requests : Request(t)) \/ TogglePause \/ QuitByPad \/ CloseApp

(* The process has ended.                                                  *)
Ended == gui = "closed" /\ UNCHANGED vars

Next ==
  \/ gui # "closed" /\ (EmulatorStep \/ FrameEvent \/ GuiStep \/ UserStep)
  \/ Ended

(* Both threads are scheduled.  Nothing makes a frame hit a breakpoint or  *)
(* hang, and nothing makes the user act.                                   *)
Fairness ==
  /\ WF_vars(gui # "closed" /\ EmulatorStep)
  /\ WF_vars(GuiStep)

Spec == Init /\ [][Next]_vars /\ Fairness

-----------------------------------------------------------------------------
(* Type invariant; no more threads wait for the mutex than there are.      *)
TypeOK ==
  /\ runEmulator \in BOOLEAN
  /\ owner \in Threads \cup {NoThread}
  /\ mutexLocks \in Nat /\ mutexPending \in Nat
  /\ emu \in {"begin", "loop", "poll", "nap", "try", "frame", "hold", "hung",
              "hit", "wait", "relock", "resume", "ended", "killed"}
  /\ gui \in {"events", "lock", "shut", "drain", "sleep", "regain", "clear",
              "work", "join", "closed"}
  /\ task \in Tasks
  /\ waitingAtBp \in BOOLEAN /\ bpDebugEnable \in BOOLEAN
  /\ paused \in BOOLEAN /\ game \in BOOLEAN

(* The emulator thread is within a frame, with or without the mutex.       *)
MidFrame == emu \in {"frame", "hung", "hit", "wait", "relock", "resume"}

EmuHolds == emu \in {"frame", "hold", "hung", "hit", "resume", "killed"}

GuiHolds == gui \in {"shut", "clear", "work"}

(* Until the process is left by QuitByPad, the two threads never use the   *)
(* machine at the same time, through every unlock in the middle of a frame *)
(* and of a close.                                                         *)
Exclusive == task # "quit" => ~(EmuHolds /\ GuiHolds)

(* A game that is closed under the mutex is closed between two frames, as  *)
(* CloseGame means it: "So that it is idle with a minimal call stack when  *)
(* we close the ROM" (fceuWrapper.cpp:401).                                *)
ClosedBetweenFrames ==
  [][game /\ ~game' /\ task # "quit" => ~MidFrame]_vars

(* Every command of the user comes to its end, whatever breakpoints are    *)
(* hit, unless a frame hangs.                                              *)
RequestEnds ==
  (gui # "events") ~>
    (gui \in {"events", "closed"} \/ emu \in {"hung", "killed"})

-----------------------------------------------------------------------------
(* What comments of the source say, and the program does not do.           *)

(* What a terminated thread leaves locked is cleaned up by the exit of the *)
(* process (ConsoleVideo.cpp:347): the window, once closing, closes.       *)
CloseEnds == (gui = "join") ~> (gui = "closed")

=============================================================================
