------------------------------ MODULE RtmpPush ------------------------------
(***************************************************************************)
(* examples/rtmp_push/main.cpp: the camera stream is pushed to an RTMP      *)
(* server, and a lost connection is set up again.                           *)
(*                                                                         *)
(* The frame callback (capture thread) pushes a frame while the flag        *)
(* connected is set, and clears it when a push fails.  Main reports and     *)
(* resets the counters of the last second and, when the flag is clear,      *)
(* disconnects, waits and connects again.  The two share the RTMPPusher     *)
(* without a lock: connected alone keeps one out while the other uses it.   *)
(* The counters are guarded by stats.mtx: each section under it that uses    *)
(* more than one of them is split, so that the lock alone keeps it whole.    *)
(***************************************************************************)
EXTENDS Camera, Naturals

CONSTANT MaxFrames  \* frames the camera delivers; bounds the model

ASSUME MaxFramesAssumption == MaxFrames \in Nat

VARIABLES
  g_stop,         \* set by the signal handler
  mainPc,         \* where main is
  cbPc,           \* where the frame callback is
  frame,          \* frames delivered
  connected,      \* std::atomic<bool>: the callback may push
  session,        \* the pusher: "down", "up", or "broken" by the network
  pts,            \* timestamp of the next frame, in steps of PTS_STEP
  frames_pushed,  \* counters of PushStats; the bytes go with the frames
  frames_in_sec,
  reconnects,
  mtx,            \* holder of stats.mtx
  reported,       \* sum of the per-second counts main printed
  received,       \* frames the server got whose push was confirmed
  delivered,      \* frames the server got, confirmed or not
  streamPts       \* what the server saw last: the timestamp plus one

statsVars == <<frames_pushed, frames_in_sec, reconnects, mtx, reported>>
serverVars == <<received, delivered, streamPts>>
vars == <<cam, g_stop, mainPc, cbPc, frame, connected, session, pts,
          statsVars, serverVars>>

MainPc == {"open", "connect", "start", "abort", "sleep", "reset", "check",
           "disconnect", "wait", "reconnect", "store", "count", "stop",
           "stopping", "hangup", "done", "failed"}
CbPc == {"idle", "entered", "push", "clear", "count", "persec"}

Init ==
  /\ CamInit
  /\ g_stop = FALSE
  /\ mainPc = "open" /\ cbPc = "idle" /\ frame = 0
  /\ connected = FALSE /\ session = "down" /\ pts = 0
  /\ frames_pushed = 0 /\ frames_in_sec = 0 /\ reconnects = 0
  /\ mtx = "free" /\ reported = 0
  /\ received = 0 /\ delivered = 0 /\ streamPts = 0

\* SIGINT or SIGTERM, at any moment of the program's life.
signal_handler ==
  /\ mainPc \notin {"done", "failed"}
  /\ g_stop' = TRUE
  /\ UNCHANGED <<cam, mainPc, cbPc, frame, connected, session, pts,
                 statsVars, serverVars>>

-----------------------------------------------------------------------------
(* The network, and the library's own thread that Config::auto_reconnect,   *)
(* which the program leaves set, keeps for a session.                       *)

SessionLost ==
  /\ session = "up"
  /\ session' = "broken"
  /\ UNCHANGED <<cam, g_stop, mainPc, cbPc, frame, connected, pts,
                 statsVars, serverVars>>

SessionRestored ==
  /\ session = "broken"
  /\ session' = "up"
  /\ UNCHANGED <<cam, g_stop, mainPc, cbPc, frame, connected, pts,
                 statsVars, serverVars>>

-----------------------------------------------------------------------------
(* The main thread.                                                        *)

MainGo(from, to) == mainPc = from /\ mainPc' = to

\* Variant: the counters are used without their mutex.
CanLockAlways == mtx \in {"free", "main", "callback"}
\* std::lock_guard on stats.mtx gets the mutex.
CanLock == mtx = "free"

\* Variant: the loop ends when the connection is lost in a stop.
LoopHeadConnected == IF g_stop /\ ~connected THEN "stop" ELSE "sleep"
\* while (!g_stop.load()): the next turn of the loop, or its end.
LoopHead == IF g_stop THEN "stop" ELSE "sleep"

\* camera.open(): without a camera the program ends.
OpenCamera ==
  /\ \/ MainGo("open", "connect") /\ CamOpen
     \/ MainGo("open", "failed") /\ UNCHANGED cam
  /\ UNCHANGED <<connected, session, statsVars>>

\* The first connect_rtmp(): without a server the program ends.  connected
\* starts as true.
FirstConnect ==
  /\ \/ /\ MainGo("connect", "start")
        /\ session' = "up" /\ connected' = TRUE
     \/ /\ MainGo("connect", "failed")
        /\ UNCHANGED <<session, connected>>
  /\ UNCHANGED <<cam, statsVars>>

\* set_frame_callback(), camera.start(), and the first test of the loop.
StartCamera ==
  /\ mainPc = "start"
  /\ \/ mainPc' = LoopHead /\ CamStart
     \/ mainPc' = "abort" /\ UNCHANGED cam
  /\ UNCHANGED <<connected, session, statsVars>>

\* Without frames: rtmp.disconnect(), and the program ends.
Abort ==
  /\ MainGo("abort", "failed")
  /\ session' = "down"
  /\ UNCHANGED <<cam, connected, statsVars>>

\* Variant: the total is taken off the count of the second.
NextSecondTotal == frames_in_sec' = frames_in_sec - frames_pushed
\* Variant: the count of the second is not reset.
NextSecondNot == UNCHANGED frames_in_sec
NextSecond    == frames_in_sec' = 0

\* A second has passed: under the mutex the statistics are printed ...
ReportSecond ==
  /\ MainGo("sleep", "reset")
  /\ CanLock /\ mtx' = "main"
  /\ reported' = reported + frames_in_sec
  /\ UNCHANGED <<cam, connected, session, frames_pushed, frames_in_sec,
                 reconnects>>

\* ... and those of the second start again from 0.
ResetSecond ==
  /\ MainGo("reset", "check")
  /\ NextSecond
  /\ mtx' = "free"
  /\ UNCHANGED <<cam, connected, session, frames_pushed, reconnects, reported>>

\* Connected, or stopping: back to the head of the loop.
NoReconnect ==
  /\ mainPc = "check"
  /\ connected \/ g_stop
  /\ mainPc' = LoopHead
  /\ UNCHANGED <<cam, connected, session, statsVars>>

\* The connection is lost: the program is going to disconnect ...
BeginReconnect ==
  /\ MainGo("check", "disconnect")
  /\ ~connected /\ ~g_stop
  /\ UNCHANGED <<cam, connected, session, statsVars>>

\* Variant: the session that was lost is not torn down.
DisconnectNot ==
  /\ MainGo("disconnect", "wait")
  /\ UNCHANGED <<cam, connected, session, statsVars>>

\* ... rtmp.disconnect() ...
Disconnect ==
  /\ MainGo("disconnect", "wait")
  /\ session' = "down"
  /\ UNCHANGED <<cam, connected, statsVars>>

\* Variant: connected is set before the connection is there.
ReconnectEarlyFlag ==
  /\ MainGo("wait", "reconnect")
  /\ connected' = TRUE
  /\ UNCHANGED <<cam, session, statsVars>>

\* ... sleeps for 3 seconds, whatever happens ...
WaitBeforeReconnect ==
  /\ MainGo("wait", "reconnect")
  /\ UNCHANGED <<cam, connected, session, statsVars>>

\* ... connect_rtmp(): on an error the loop goes on ...
ReconnectFails ==
  /\ mainPc = "reconnect"
  /\ mainPc' = LoopHead
  /\ UNCHANGED <<cam, connected, session, statsVars>>

Reconnect ==
  /\ MainGo("reconnect", "store")
  /\ session' = "up"
  /\ UNCHANGED <<cam, connected, statsVars>>

\* ... and otherwise connected is set ...
SetConnected ==
  /\ MainGo("store", "count")
  /\ connected' = TRUE
  /\ UNCHANGED <<cam, session, statsVars>>

\* ... and the reconnection counted, under the mutex.
CountReconnect ==
  /\ mainPc = "count"
  /\ CanLock
  /\ mainPc' = LoopHead
  /\ reconnects' = reconnects + 1
  /\ UNCHANGED <<cam, connected, session, frames_pushed, frames_in_sec,
                 mtx, reported>>

\* camera.stop() asks the capture thread to end ...
StopCamera ==
  /\ MainGo("stop", "stopping")
  /\ CamStopRequest
  /\ UNCHANGED <<connected, session, statsVars>>

\* ... and returns when it has ended.
CameraStopped ==
  /\ MainGo("stopping", "hangup")
  /\ CamStopped
  /\ UNCHANGED <<cam, connected, session, statsVars>>

\* rtmp.disconnect(), the summary, and main returns.
HangUp ==
  /\ MainGo("hangup", "done")
  /\ session' = "down"
  /\ UNCHANGED <<cam, connected, statsVars>>

MainFrame == UNCHANGED <<g_stop, cbPc, frame, pts, serverVars>>
MainStep ==
  /\ \/ OpenCamera \/ FirstConnect \/ StartCamera \/ Abort \/ ReportSecond
     \/ ResetSecond \/ NoReconnect \/ BeginReconnect \/ Disconnect \/ WaitBeforeReconnect
     \/ ReconnectFails \/ SetConnected \/ CountReconnect \/ StopCamera
     \/ CameraStopped \/ HangUp
  /\ MainFrame
ReconnectStep == Reconnect /\ MainFrame

-----------------------------------------------------------------------------
(* The frame callback, on the capture thread.                              *)

CbGo(from, to) == cbPc = from /\ cbPc' = to

\* A frame is dropped at once: the program is stopping.
SkipStopping ==
  /\ cam = "running" /\ frame < MaxFrames
  /\ g_stop
  /\ frame' = frame + 1
  /\ UNCHANGED <<cam, cbPc, connected, pts, statsVars, serverVars>>

\* A frame that came before the stop.
EnterCallback ==
  /\ CamDeliver /\ frame < MaxFrames
  /\ ~g_stop
  /\ CbGo("idle", "entered")
  /\ frame' = frame + 1
  /\ UNCHANGED <<connected, pts, statsVars, serverVars>>

\* The connection is down: the frame is dropped.
SkipDisconnected ==
  /\ CbGo("entered", "idle") /\ CamReturn
  /\ ~connected
  /\ UNCHANGED <<frame, connected, pts, statsVars, serverVars>>

\* rtmp.push_frame() is called ...
BeginPush ==
  /\ CbGo("entered", "push")
  /\ connected
  /\ UNCHANGED <<cam, frame, connected, pts, statsVars, serverVars>>

\* ... and the frame is on its way; the timestamp advances.
PushOk ==
  /\ CbGo("push", "count")
  /\ session = "up"
  /\ received' = received + 1
  /\ delivered' = delivered + 1
  /\ streamPts' = pts + 1
  /\ pts' = pts + 1
  /\ UNCHANGED <<cam, frame, connected, statsVars>>

\* Variant: the timestamp stays on a failed push.
PtsAfterFailureSame == pts
PtsAfterFailure == pts + 1

\* ... or fails: the session is broken or breaks now, before or after the
\* frame got through.  The timestamp advances all the same.
PushFails ==
  /\ CbGo("push", "clear")
  /\ \/ UNCHANGED <<delivered, streamPts>>
     \/ /\ session = "up"
        /\ delivered' = delivered + 1
        /\ streamPts' = pts + 1
  /\ pts' = PtsAfterFailure
  /\ UNCHANGED <<cam, frame, connected, statsVars, received>>

\* Variant: the failure is not told to main.
ClearConnectedNot ==
  /\ CbGo("clear", "idle") /\ CamReturn
  /\ UNCHANGED <<frame, connected, pts, statsVars, serverVars>>

\* After a failure: connected = false, for main to connect again.
ClearConnected ==
  /\ CbGo("clear", "idle") /\ CamReturn
  /\ connected' = FALSE
  /\ UNCHANGED <<frame, pts, statsVars, serverVars>>

\* After a success the counters are advanced under the mutex, first the total ...
CountFrame ==
  /\ CbGo("count", "persec")
  /\ CanLock /\ mtx' = "callback"
  /\ frames_pushed' = frames_pushed + 1
  /\ UNCHANGED <<cam, frame, connected, pts, frames_in_sec, reconnects,
                 reported, serverVars>>

\* ... then the count of the second; the mutex is free, the callback returns.
CountInSecond ==
  /\ CbGo("persec", "idle") /\ CamReturn
  /\ frames_in_sec' = frames_in_sec + 1
  /\ mtx' = "free"
  /\ UNCHANGED <<frame, connected, pts, frames_pushed, reconnects, reported,
                 serverVars>>

CbFrame == UNCHANGED <<g_stop, mainPc, session>>

\* The camera delivers a frame.
Capture == (SkipStopping \/ EnterCallback) /\ CbFrame

CbStep ==
  /\ \/ SkipDisconnected \/ BeginPush \/ PushOk \/ PushFails
     \/ ClearConnected \/ CountFrame \/ CountInSecond
  /\ CbFrame

-----------------------------------------------------------------------------
\* The process has ended.
Terminated == mainPc \in {"done", "failed"} /\ UNCHANGED vars

Next == \/ signal_handler \/ SessionLost \/ SessionRestored
        \/ MainStep \/ ReconnectStep \/ Capture \/ CbStep \/ Terminated

Spec == Init /\ [][Next]_vars

\* The two threads run; a server that is tried again and again accepts at
\* last.  Nothing makes a frame, a signal or a network event come.  Weak
\* fairness gets main the mutex as well: it needs it after a stop or while
\* connected is clear, when no new frame is counted.
Fairness == /\ WF_vars(MainStep)
            /\ WF_vars(CbStep)
            /\ SF_vars(ReconnectStep)

FairSpec == Spec /\ Fairness

-----------------------------------------------------------------------------
(* Properties.                                                             *)

\* Every variable has a value of its kind.
TypeOK ==
  /\ cam \in CamState /\ g_stop \in BOOLEAN
  /\ mainPc \in MainPc /\ cbPc \in CbPc
  /\ frame \in 0..MaxFrames
  /\ connected \in BOOLEAN /\ session \in {"down", "up", "broken"}
  /\ pts \in Nat /\ streamPts \in Nat
  /\ received \in Nat /\ delivered \in Nat
  /\ frames_pushed \in Nat /\ frames_in_sec \in Nat
  /\ reconnects \in Nat /\ reported \in Nat
  /\ mtx \in {"free", "main", "callback"}

\* Main is inside a call that sets up or tears down the session, or has
\* left the scope of the pusher.
MainUsesPusher == mainPc \in {"connect", "abort", "disconnect", "wait",
                              "reconnect", "hangup", "done", "failed"}

\* While a frame is being pushed main leaves the pusher alone, and the
\* session has not been torn down: no push meets a disconnect, a connect or
\* the end of the program, although no lock guards the pusher.
PusherExclusive ==
  cbPc = "push" => ~MainUsesPusher /\ session # "down"

\* The numbers shown are true: the seconds add up to the total whenever
\* nobody is at the counters, and the total is what the server confirmed, but
\* for a frame that is going to be counted.
StatsTrue ==
  /\ mtx = "free" => frames_pushed = reported + frames_in_sec
  /\ received = frames_pushed + IF cbPc = "count" THEN 1 ELSE 0

\* The server never sees a timestamp twice or going back, not even when the
\* connection was lost with a frame on its way and set up again: every frame
\* that gets through has a newer one, whether its push was confirmed or not.
TimestampsAdvance ==
  [][/\ streamPts' >= streamPts
     /\ delivered' # delivered => streamPts' > streamPts]_vars

\* README.md:5 of the example, "If the connection is lost, the demo
\* automatically reconnects": a failed push leads to a new connection, or
\* the program is stopped.
FailureLeadsToReconnect ==
  (cbPc = "clear") ~> (mainPc = "store" \/ g_stop)

\* A stop ends the program, whatever state the connection is in.
StopEnds == g_stop ~> mainPc \in {"done", "failed"}

\* How many steps are left to each thread at most, once the program is to stop.
MainLeft == [open |-> 11, connect |-> 10, start |-> 9, disconnect |-> 8,
             wait |-> 7, reconnect |-> 6, sleep |-> 6, store |-> 5,
             reset |-> 5, count |-> 4, check |-> 4, stop |-> 3, stopping |-> 2,
             hangup |-> 1, abort |-> 1, done |-> 0, failed |-> 0]
CbLeft == [idle |-> 0, clear |-> 1, persec |-> 1, count |-> 2, push |-> 3,
           entered |-> 4]
StepsLeft == MainLeft[mainPc] + CbLeft[cbPc]

\* A thread waits for the mutex, main also for the end of the capture thread.
MainWaits == \/ mainPc = "stopping" /\ ~CamStopped
             \/ mainPc \in {"sleep", "count"} /\ mtx # "free"
CbWaits == cbPc = "count" /\ mtx # "free"

\* After a stop every step brings the end closer, drops a frame or is one of
\* the network: the program does not connect another time, whatever becomes of
\* the session.  Who waits, waits for a step of the other thread that can go on.
StopAdvances ==
  /\ [](MainWaits => cbPc # "idle" /\ ~CbWaits)
  /\ [](CbWaits => mainPc \notin {"done", "failed"} /\ ~MainWaits)
  /\ [](StepsLeft \in Nat)
  /\ [][g_stop => StepsLeft' < StepsLeft \/ UNCHANGED <<mainPc, cbPc>>]_vars

\* Without a lock the pusher is shared as if there were one.  A session is set
\* up when connect_rtmp() returns, also while connected is not set yet, and
\* given up when connected is cleared, whatever the network made of it.
Pusher == INSTANCE SharedPusher
            WITH link <- IF session = "down" THEN "down"
                         ELSE IF connected \/ mainPc = "store" THEN "up"
                         ELSE "lost",
                 push <- CASE cbPc = "push"  -> "busy"
                           [] cbPc = "clear" -> "failed"
                           [] OTHER          -> "none"
ImplementsPusher == Pusher!Spec

-----------------------------------------------------------------------------
(* The inductive invariant behind the properties.                          *)

\* Where the threads are tells whether there is a callback, and the flag
\* tells whether it may be at the pusher.
SessionInv ==
  /\ InCallback <=> cbPc # "idle"
  /\ mainPc \in {"open", "connect", "start", "abort", "failed", "hangup", "done"}
       => CamStopped
  /\ mainPc = "stopping" => cam \notin {"running", "delivering"}
  /\ cbPc \in {"push", "clear", "count", "persec"} => connected
  /\ mainPc \in {"open", "connect", "disconnect", "wait", "reconnect", "store"}
       => ~connected
  /\ mainPc \in {"open", "connect", "wait", "reconnect"} => session = "down"
  /\ mainPc = "store" => session # "down"
  /\ connected /\ mainPc \notin {"failed", "done"} => session # "down"

\* What the server has seen is older than the next timestamp.
PtsInv == streamPts <= pts

\* Who holds the mutex, and how far it has come with the counters.
MutexInv ==
  /\ mtx = "main" <=> mainPc = "reset"
  /\ mtx = "callback" <=> cbPc = "persec"
  /\ mtx = "main" => frames_pushed = reported
  /\ mtx = "callback" => frames_pushed = reported + frames_in_sec + 1

IInv == SessionInv /\ MutexInv /\ StatsTrue /\ PtsInv

=============================================================================
