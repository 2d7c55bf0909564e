------------------------------- MODULE Display ------------------------------
(***************************************************************************)
(* The emulated display (src/emulator/src/display.c) as far as the machine *)
(* can tell: it counts time, raises the display interrupt once per frame   *)
(* and ends the process when its window is closed. The picture itself is   *)
(* left out, nothing reads it back.                                        *)
(***************************************************************************)
EXTENDS Naturals, Sequences

CONSTANTS
  INTERRUPT_TIME,  \* time between frames (interrupt_time)
  MaxWindowEvents  \* bound: events waiting in the window's queue

ASSUME FrameAssumption ==
  INTERRUPT_TIME \in Nat \ {0} /\ MaxWindowEvents \in Nat

VARIABLES
  frame_elapsed,   \* elapsed, time since the last frame
  window_queue     \* events of the window: "CLOSE" or "OTHER"

displayVars == <<frame_elapsed, window_queue>>

DisplayInit == frame_elapsed = 0 /\ window_queue = <<>>

WindowEvent(e) ==
  /\ Len(window_queue) < MaxWindowEvents
  /\ window_queue' = Append(window_queue, e)
  /\ UNCHANGED frame_elapsed

(* Whether clockDisplay(step_time) draws a frame and raises the interrupt, *)
(* and whether it then exits: it takes one window event per call.          *)
FrameDone(step_time) == frame_elapsed + step_time >= INTERRUPT_TIME
Closes == window_queue # <<>> /\ Head(window_queue) = "CLOSE"

(* Mutant of ClockDisplay: a frame does not reduce the timer.              *)
DisplayKeepsTimer(step_time) ==
  /\ frame_elapsed' = frame_elapsed + step_time
  /\ window_queue' = IF window_queue = <<>> THEN window_queue ELSE Tail(window_queue)

ClockDisplay(step_time) ==
  /\ frame_elapsed' = IF FrameDone(step_time)
                      THEN frame_elapsed + step_time - INTERRUPT_TIME
                      ELSE frame_elapsed + step_time
  /\ window_queue' = IF window_queue = <<>> THEN window_queue ELSE Tail(window_queue)

=============================================================================
