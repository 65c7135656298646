----------------------------- MODULE OnvifServer -----------------------------
(***************************************************************************)
(* examples/onvif_server: the camera's frame callback pushes every frame to *)
(* an RTSP server, and an ONVIF service tells clients that find it the URL  *)
(* of that server.  The main thread starts the three, waits for Ctrl+C and  *)
(* stops them again; when one does not start it stops those before it.      *)
(*                                                                         *)
(* The callback refers to the RTSP server and to pts_us, both locals of     *)
(* main() that are destroyed before the camera is: main() may return only   *)
(* when the camera does not deliver any more.                               *)
(***************************************************************************)
EXTENDS RtspService

CONSTANT MaxFrames  \* frames of a run; bounds the model

Bounds == Ports /\ MaxFrames \in Nat

VARIABLES
  cam,        \* the camera (module Camera)
  onvif,      \* the ONVIF service is running
  main,       \* where the main thread is
  todo,       \* what main() still has to stop before it returns
  g_stop,     \* Ctrl+C was pressed
  pts_us,     \* pts of the next frame, in frames
  found,      \* clients that know the ONVIF service's address
  unstarted   \* camera.start() failed

vars == <<rtspVars, cam, onvif, main, todo, g_stop, pts_us, found, unstarted>>

INSTANCE Camera

Init ==
  /\ RtspInit /\ CamInit
  /\ onvif = FALSE
  /\ main = "open" /\ todo = <<>>
  /\ g_stop = FALSE /\ pts_us = 0
  /\ found = {} /\ unstarted = FALSE

-----------------------------------------------------------------------------
(* The capture thread.                                                     *)

Deliver ==
  /\ pts_us < MaxFrames
  /\ CamDeliver
  /\ UNCHANGED <<rtspVars, onvif, main, todo, g_stop, pts_us, found, unstarted>>

NextPts == pts_us + 1

\* push_frame(), whose result is ignored, and the return to the camera.
FrameCallback ==
  /\ InCallback
  /\ RtspPush(pts_us)
  /\ pts_us' = NextPts
  /\ CamReturn
  /\ UNCHANGED <<onvif, main, todo, g_stop, found, unstarted>>

-----------------------------------------------------------------------------
(* The main thread.                                                        *)

OpenCamera ==
  /\ main = "open"
  /\ \/ main' = "rtsp" /\ CamOpen
     \/ main' = "stop" /\ UNCHANGED cam
  /\ UNCHANGED <<rtspVars, onvif, todo, g_stop, pts_us, found, unstarted>>

StartRtsp ==
  /\ main = "rtsp"
  /\ \/ RtspStart /\ main' = "camera" /\ UNCHANGED todo
     \/ UNCHANGED rtspVars /\ main' = "stop" /\ todo' = <<"camera">>
  /\ UNCHANGED <<cam, onvif, g_stop, pts_us, found, unstarted>>

\* camera.start(), whose result is ignored.
StartCamera ==
  /\ main = "camera"
  /\ main' = "onvif"
  /\ \/ CamStart /\ UNCHANGED unstarted
     \/ UNCHANGED cam /\ unstarted' = TRUE
  /\ UNCHANGED <<rtspVars, onvif, todo, g_stop, pts_us, found>>

\* Variant: the path of the failure forgets the camera.
StopAfterFailureNoCamera == <<"rtsp">>
StopAfterFailure == <<"rtsp", "camera">>

\* onvif.start() and the addresses that are printed.
StartOnvif ==
  /\ main = "onvif"
  /\ \/ onvif' = TRUE /\ main' = "serve" /\ UNCHANGED todo
     \/ UNCHANGED onvif /\ main' = "stop" /\ todo' = StopAfterFailure
  /\ UNCHANGED <<rtspVars, cam, g_stop, pts_us, found, unstarted>>

\* Variant: the order in which the parts were declared.
StopOrderDeclared == <<"camera", "rtsp", "onvif">>
StopOrder == <<"onvif", "rtsp", "camera">>

\* The loop polls g_stop every 500 ms.
LeaveLoop ==
  /\ main = "serve" /\ g_stop
  /\ main' = "stop"
  /\ todo' = StopOrder
  /\ UNCHANGED <<rtspVars, cam, onvif, g_stop, pts_us, found, unstarted>>

StopOnvif ==
  /\ main = "stop" /\ todo # <<>> /\ Head(todo) = "onvif"
  /\ onvif' = FALSE
  /\ todo' = Tail(todo)
  /\ UNCHANGED <<rtspVars, cam, main, g_stop, pts_us, found, unstarted>>

StopRtsp ==
  /\ main = "stop" /\ todo # <<>> /\ Head(todo) = "rtsp"
  /\ RtspStop
  /\ todo' = Tail(todo)
  /\ UNCHANGED <<cam, onvif, main, g_stop, pts_us, found, unstarted>>

\* camera.stop(): the request, and the return once the thread has ended.
RequestStop ==
  /\ main = "stop" /\ todo # <<>> /\ Head(todo) = "camera"
  /\ CamStopRequest
  /\ main' = "stopping"
  /\ UNCHANGED <<rtspVars, onvif, todo, g_stop, pts_us, found, unstarted>>

CameraStopped ==
  /\ main = "stopping" /\ CamStopped
  /\ main' = "stop"
  /\ todo' = Tail(todo)
  /\ UNCHANGED <<rtspVars, cam, onvif, g_stop, pts_us, found, unstarted>>

Return ==
  /\ main = "stop" /\ todo = <<>>
  /\ main' = "returned"
  /\ UNCHANGED <<rtspVars, cam, onvif, todo, g_stop, pts_us, found, unstarted>>

-----------------------------------------------------------------------------
(* The environment.                                                        *)

\* SIGINT or SIGTERM, as often as the user likes.
signal_handler ==
  /\ main # "returned"
  /\ g_stop' = TRUE
  /\ UNCHANGED <<rtspVars, cam, onvif, main, todo, pts_us, found, unstarted>>

\* The user types the device service's address in: the Config leaves
\* enable_discovery off, so no client finds it by itself.
AddByAddress(c) ==
  /\ onvif
  /\ c \notin found
  /\ found' = found \union {c}
  /\ UNCHANGED <<rtspVars, cam, onvif, main, todo, g_stop, pts_us, unstarted>>

\* onvif_cfg.rtsp_url has no port.
rtsp_url_port == DefaultPort

\* GetStreamUri, which answers rtsp_url.
GetStreamUri(c) ==
  /\ onvif /\ c \in found
  /\ Told(c, rtsp_url_port)
  /\ UNCHANGED <<cam, onvif, main, todo, g_stop, pts_us, found, unstarted>>

\* A user who knows the port starts a player with it.
PlayWithPort(c) ==
  /\ Told(c, ServerPort)
  /\ UNCHANGED <<cam, onvif, main, todo, g_stop, pts_us, found, unstarted>>

Watch(c) ==
  /\ Connect(c) \/ Leave(c)
  /\ UNCHANGED <<cam, onvif, main, todo, g_stop, pts_us, found, unstarted>>

MainStep == \/ OpenCamera \/ StartRtsp \/ StartCamera \/ StartOnvif \/ LeaveLoop
            \/ StopOnvif \/ StopRtsp \/ RequestStop \/ CameraStopped \/ Return

Terminated == main = "returned" /\ UNCHANGED vars

Next ==
  \/ MainStep \/ Deliver \/ FrameCallback \/ signal_handler \/ Terminated
  \/ \E c \in Client : \/ AddByAddress(c) \/ GetStreamUri(c)
                       \/ PlayWithPort(c) \/ Watch(c)

\* Fairness is stated in Programs.
Spec == Init /\ [][Next]_vars

-----------------------------------------------------------------------------
(* Properties.                                                             *)

TypeOK ==
  /\ RtspTypeOK
  /\ cam \in CamState
  /\ {onvif, g_stop, unstarted} \subseteq BOOLEAN
  /\ main \in {"open", "rtsp", "camera", "onvif", "serve", "stop", "stopping",
               "returned"}
  /\ todo \in Seq({"onvif", "rtsp", "camera"})
  /\ main \notin {"stop", "stopping"} => todo = <<>>
  /\ pts_us \in 0..MaxFrames
  /\ found \subseteq Client

\* A client that asks the ONVIF service for the stream is never sent to an
\* RTSP server that is stopped, or to one whose camera has been stopped: ONVIF
\* starts after both and stops before them.  A camera that did not start, of
\* which nobody takes notice (main.cpp:112), is the only way to an advertised
\* stream without frames.
AdvertisedServed ==
  onvif => Running /\ (cam \in {"running", "delivering"} \/ unstarted)

\* When main() returns and its locals are destroyed, on every path, no
\* capture thread is left that could enter the callback, and both services
\* have been stopped.
NothingOutlivesMain ==
  main = "returned" => CamStopped /\ ~Running /\ ~onvif

\* Every client receives its frames with strictly increasing pts, also over
\* a shutdown that stops the server while the camera still delivers.
SeenInOrder ==
  \A c \in Client : \A i, j \in 1 .. Len(seen[c]) :
    i < j => seen[c][i] < seen[c][j]

\* How many steps main has left at most, two for each part to stop.
MainLeft == 2 * Len(todo) + [open |-> 12, rtsp |-> 11, camera |-> 10, onvif |-> 9,
                             serve |-> 8, stop |-> 1, stopping |-> 0,
                             returned |-> 0][main]

\* Ctrl+C ends the program, whatever the camera and the clients do.
CtrlCEnds == g_stop ~> main = "returned"

\* README.md: "the ONVIF service advertises the RTSP URL as its media profile
\* stream URI": a client that follows it reaches the running RTSP server.
AdvertisedUrlWorks == refused = {}
=============================================================================
