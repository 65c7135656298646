------------------------------- MODULE Camera -------------------------------
(***************************************************************************)
(* rv1126b::Camera as the programs of the SDK use it: a device that is      *)
(* opened, started and stopped, and a capture thread of its own that calls  *)
(* the registered frame callback, one frame at a time.  The class is        *)
(* implemented in the prebuilt library; this module keeps what its header   *)
(* and its callers rely on:                                                 *)
(*   - a callback runs only between start() and the end of stop();          *)
(*   - the capture thread runs callbacks one after the other;               *)
(*   - stop() blocks until the capture thread has left its callback.        *)
(* The operations are actions on the one variable cam; a program conjoins   *)
(* them with what it does at the same time.                                 *)
(***************************************************************************)
VARIABLE cam

CamState == {"closed",      \* not opened, or closed
             "open",        \* opened, no capture thread
             "running",     \* capture thread between two callbacks
             "delivering",  \* capture thread inside the frame callback
             "draining"}    \* as "delivering", and a stop() waits for it

CamInit == cam = "closed"

\* Result<void> open(const Config&): an error leaves the device closed.
CamOpen == /\ cam = "closed"
           /\ cam' = "open"

\* Result<void> start(): an error leaves the device open and idle.
CamStart == /\ cam = "open"
            /\ cam' = "running"

\* The capture thread enters the callback with a new frame ...
CamDeliver == /\ cam = "running"
              /\ cam' = "delivering"

\* ... and returns from it; a waiting stop() ends the thread here.
CamReturn == \/ /\ cam = "delivering"
                /\ cam' = "running"
             \/ /\ cam = "draining"
                /\ cam' = "open"

\* stop() asks the capture thread to end; without one it does nothing.
CamStopRequest == cam' = CASE cam = "running"    -> "open"
                           [] cam = "delivering" -> "draining"
                           [] OTHER              -> cam

\* stop() returns once there is no capture thread any more.
CamStopped == cam \notin {"running", "delivering", "draining"}

\* The frame callback is on the capture thread's stack.
InCallback == cam \in {"delivering", "draining"}
=============================================================================
