----------------------------- MODULE RtspServer ------------------------------
(***************************************************************************)
(* examples/rtsp_server: an RTSP server beside the camera.  The frame       *)
(* callback counts the frames and prints, every thirtieth time, how many    *)
(* were "pushed" and how many clients are connected; the call that would    *)
(* push a frame is commented out.  The main thread starts both, waits for   *)
(* Ctrl+C and stops both.                                                   *)
(***************************************************************************)
EXTENDS RtspService

CONSTANTS
  StatusEvery,  \* frames between two status lines, 30 in the program
  MaxFrames     \* frames of a run; bounds the model

Bounds ==
  /\ Ports /\ IsFiniteSet(Client)
  /\ StatusEvery \in Nat \ {0} /\ MaxFrames \in Nat

VARIABLES
  cam,          \* the camera (module Camera)
  callback,     \* where the capture thread is in the frame callback
  main,         \* where the main thread is
  todo,         \* what main() still has to stop before it returns
  g_stop,       \* Ctrl+C was pressed
  frame_count, pts_us,
  joined,       \* frame_count when each client last connected
  status        \* the last status line: the frames it calls pushed and the
                \* clients it calls connected

counters == <<frame_count, pts_us>>
vars == <<rtspVars, cam, callback, main, todo, g_stop, counters, joined, status>>

INSTANCE Camera

NoStatus == [pushed |-> 0, clients |-> 0]

Init ==
  /\ RtspInit /\ CamInit
  /\ callback = "idle" /\ main = "open" /\ todo = <<>>
  /\ g_stop = FALSE /\ frame_count = 0 /\ pts_us = 0
  /\ joined = [c \in Client |-> 0]
  /\ status = NoStatus

-----------------------------------------------------------------------------
(* The capture thread.                                                     *)

Deliver ==
  /\ frame_count < MaxFrames
  /\ CamDeliver
  /\ callback' = "count"
  /\ UNCHANGED <<rtspVars, main, todo, g_stop, counters, joined, status>>

\* Variant: the count starts again after a status line.
CountedWrapped == (frame_count % StatusEvery) + 1
Counted == frame_count + 1

Count ==
  /\ callback = "count"
  /\ pts_us' = pts_us + 1
  /\ frame_count' = Counted
  /\ IF Counted % StatusEvery = 0
       THEN callback' = "status" /\ UNCHANGED cam
       ELSE callback' = "idle" /\ CamReturn
  /\ UNCHANGED <<rtspVars, main, todo, g_stop, joined, status>>

PrintStatus ==
  /\ callback = "status"
  /\ status' = [pushed |-> frame_count, clients |-> client_count]
  /\ callback' = "idle" /\ CamReturn
  /\ UNCHANGED <<rtspVars, main, todo, g_stop, counters, joined>>

-----------------------------------------------------------------------------
(* The main thread.                                                        *)

\* isp.init(), of which an error is only printed, and camera.open().
OpenCamera ==
  /\ main = "open"
  /\ \/ main' = "rtsp" /\ CamOpen
     \/ main' = "stop" /\ UNCHANGED cam
  /\ UNCHANGED <<rtspVars, callback, todo, g_stop, counters, joined, status>>

StartRtsp ==
  /\ main = "rtsp"
  /\ \/ RtspStart /\ main' = "camera" /\ UNCHANGED todo
     \/ UNCHANGED rtspVars /\ main' = "stop" /\ todo' = <<"camera">>
  /\ UNCHANGED <<cam, callback, g_stop, counters, joined, status>>

StopAfterFailure == <<"rtsp">>

StartCamera ==
  /\ main = "camera"
  /\ \/ CamStart /\ main' = "serve" /\ UNCHANGED todo
     \/ UNCHANGED cam /\ main' = "stop" /\ todo' = StopAfterFailure
  /\ UNCHANGED <<rtspVars, callback, g_stop, counters, joined, status>>

StopOrder == <<"camera", "rtsp">>

\* The loop polls g_stop every 500 ms.
LeaveLoop ==
  /\ main = "serve" /\ g_stop
  /\ main' = "stop"
  /\ todo' = StopOrder
  /\ UNCHANGED <<rtspVars, cam, callback, g_stop, counters, joined, status>>

StopRtsp ==
  /\ main = "stop" /\ todo # <<>> /\ Head(todo) = "rtsp"
  /\ RtspStop
  /\ todo' = Tail(todo)
  /\ UNCHANGED <<cam, callback, main, g_stop, counters, joined, status>>

\* camera.stop(): the request, and the return once the thread has ended.
RequestStop ==
  /\ main = "stop" /\ todo # <<>> /\ Head(todo) = "camera"
  /\ CamStopRequest
  /\ main' = "stopping"
  /\ UNCHANGED <<rtspVars, callback, todo, g_stop, counters, joined, status>>

CameraStopped ==
  /\ main = "stopping" /\ CamStopped
  /\ main' = "stop"
  /\ todo' = Tail(todo)
  /\ UNCHANGED <<rtspVars, cam, callback, g_stop, counters, joined, status>>

Return ==
  /\ main = "stop" /\ todo = <<>>
  /\ main' = "returned"
  /\ UNCHANGED <<rtspVars, cam, callback, todo, g_stop, counters, joined, status>>

-----------------------------------------------------------------------------
(* The environment.                                                        *)

\* SIGINT or SIGTERM, as often as the user likes.
signal_handler ==
  /\ main # "returned"
  /\ g_stop' = TRUE
  /\ UNCHANGED <<rtspVars, cam, callback, main, todo, counters, joined, status>>

\* The URL that the program prints has no port.
printed_url_port == DefaultPort

\* A user types the printed URL, or one with the port, into a player.
StartPlayer(c) ==
  /\ Running
  /\ \E p \in {printed_url_port, ServerPort} : Told(c, p)
  /\ UNCHANGED <<cam, callback, main, todo, g_stop, counters, joined, status>>

Join(c) ==
  /\ Connect(c)
  /\ joined' = [joined EXCEPT ![c] = frame_count]
  /\ UNCHANGED <<cam, callback, main, todo, g_stop, counters, status>>

Part(c) ==
  /\ Leave(c)
  /\ UNCHANGED <<cam, callback, main, todo, g_stop, counters, joined, status>>

MainStep == \/ OpenCamera \/ StartRtsp \/ StartCamera \/ LeaveLoop
            \/ StopRtsp \/ RequestStop \/ CameraStopped \/ Return
CallbackStep == Count \/ PrintStatus

Terminated == main = "returned" /\ UNCHANGED vars

Next ==
  \/ MainStep \/ Deliver \/ CallbackStep \/ signal_handler \/ Terminated
  \/ \E c \in Client : StartPlayer(c) \/ Join(c) \/ Part(c)

\* Fairness is stated in Programs.
Spec == Init /\ [][Next]_vars

-----------------------------------------------------------------------------
(* Properties.                                                             *)

TypeOK ==
  /\ RtspTypeOK
  /\ cam \in CamState
  /\ callback \in {"idle", "count", "status"} /\ (callback # "idle") = InCallback
  /\ main \in {"open", "rtsp", "camera", "serve", "stop", "stopping", "returned"}
  /\ todo \in Seq({"rtsp", "camera"})
  /\ g_stop \in BOOLEAN
  /\ frame_count \in 0..MaxFrames /\ pts_us = frame_count
  /\ joined \in [Client -> 0..MaxFrames]
  /\ status.pushed \in 0..MaxFrames /\ status.clients \in 0..Cardinality(Client)

\* The callback asks a running server for its clients: the server is started
\* before the camera and stopped only when the capture thread has ended.
StatusOfRunningServer == callback # "idle" => Running

\* When main() returns and its locals are destroyed, on every path, no
\* capture thread is left that could enter the callback, and the server has
\* been stopped.
NothingOutlivesMain == main = "returned" => CamStopped /\ ~Running

\* How many steps main has left at most, two for each part to stop.
MainLeft == 2 * Len(todo) + [open |-> 9, rtsp |-> 8, camera |-> 7, serve |-> 6,
                             stop |-> 1, stopping |-> 0, returned |-> 0][main]

\* Ctrl+C ends the program, whatever the camera and the clients do.
CtrlCEnds == g_stop ~> main = "returned"

\* README.md: the program "streams live video to any RTSP client" and prints
\* the "total frames pushed": a client that has been connected for some of
\* the frames called pushed has received some.
PushedFramesAreSeen ==
  \A c \in watching : status.pushed > joined[c] => seen[c] # <<>>
=============================================================================
