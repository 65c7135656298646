----------------------------- MODULE RecordVideo -----------------------------
(***************************************************************************)
(* examples/record_video: the frame callback writes each encoded frame to   *)
(* /tmp/output.h264 and counts it, the main thread prints the counters once *)
(* a second, and after ten seconds or Ctrl+C it stops the camera, closes    *)
(* the file and prints a summary.                                           *)
(*                                                                         *)
(* The callback writes the file without a lock and takes the mutex for the  *)
(* counters only; the summary reads the counters without it.  Both are      *)
(* right only because camera.stop() has ended the capture thread.           *)
(* A frame is its number, a write keeps it in the stream's buffer or brings *)
(* it to the disk with all that was buffered before it.                     *)
(***************************************************************************)
EXTENDS Naturals, Sequences

CONSTANTS
  Duration,    \* REC_DURATION in seconds
  MaxLate,     \* seconds by which a sleep may be too long
  MaxFrames,   \* frames of a recording; bounds the model
  DiskMayFill  \* a write to the file may fail

Bounds ==
  /\ {Duration, MaxFrames} \subseteq Nat \ {0} /\ MaxLate \in Nat
  /\ DiskMayFill \in BOOLEAN

VARIABLES
  cam,            \* the camera (module Camera)
  main,           \* where the main thread is
  callback,       \* where the capture thread is in the frame callback
  mtx,            \* holder of stats.mtx
  g_stop,         \* Ctrl+C was pressed
  elapsed,        \* seconds since rec_start
  is_open, bad, buffer, disk,   \* ofs: opened, badbit, buffered and written
  total_frames, frames_in_sec,  \* stats
  line_frames,    \* frames counted when frames_in_sec was last set to 0
  summary         \* total_frames as the summary printed it

ofs      == <<is_open, bad, buffer, disk>>
stats    == <<total_frames, frames_in_sec>>
printed  == <<line_frames, summary>>
vars == <<cam, main, callback, mtx, g_stop, elapsed, ofs, stats, printed>>

INSTANCE Camera

MainState == {"open", "open_camera", "start", "test", "sleep", "lock",
              "print", "reset", "stop", "stopping", "flush", "close", "summary",
              "done", "failed"}
CallbackState == {"idle", "write", "lock", "count"}

Init ==
  /\ CamInit
  /\ main = "open" /\ callback = "idle" /\ mtx = "free"
  /\ g_stop = FALSE /\ elapsed = 0
  /\ is_open = FALSE /\ bad = FALSE /\ buffer = <<>> /\ disk = <<>>
  /\ total_frames = 0 /\ frames_in_sec = 0
  /\ line_frames = 0 /\ summary = 0

-----------------------------------------------------------------------------
(* The output stream.                                                      *)

\* Everything pending goes to the disk, or an error sets badbit and part of
\* it is lost.
WriteOut(pending) ==
  \/ /\ disk' = disk \o pending
     /\ buffer' = <<>>
     /\ UNCHANGED bad
  \/ /\ DiskMayFill
     /\ pending # <<>>
     /\ \E n \in 0 .. Len(pending) - 1 : disk' = disk \o SubSeq(pending, 1, n)
     /\ buffer' = <<>>
     /\ bad' = TRUE

\* ofs.write(): a stream that is closed or has badbit ignores it.
Write(frame) ==
  IF is_open /\ ~bad
    THEN \/ /\ buffer' = Append(buffer, frame)
            /\ UNCHANGED <<bad, disk>>
         \/ WriteOut(Append(buffer, frame))
    ELSE UNCHANGED <<bad, buffer, disk>>

\* ofs.flush() and the flush in ofs.close().
Flush == IF is_open /\ ~bad THEN WriteOut(buffer)
                            ELSE UNCHANGED <<bad, buffer, disk>>

-----------------------------------------------------------------------------
(* The capture thread.                                                     *)

Deliver ==
  /\ total_frames < MaxFrames
  /\ CamDeliver
  /\ callback' = "write"
  /\ UNCHANGED <<main, mtx, g_stop, elapsed, ofs, stats, printed>>

CallbackWrite ==
  /\ callback = "write"
  /\ Write(total_frames + 1)
  /\ callback' = "lock"
  /\ UNCHANGED <<cam, main, mtx, g_stop, elapsed, is_open, stats, printed>>

\* Variant: the counters are used without their mutex.
CanLockAlways == mtx \in {"free", "main", "callback"}
CanLock == mtx = "free"

CallbackLock ==
  /\ callback = "lock"
  /\ CanLock
  /\ mtx' = "callback"
  /\ callback' = "count"
  /\ UNCHANGED <<cam, main, g_stop, elapsed, ofs, stats, printed>>

\* The counters, the unlock and the return to the camera.
CallbackCount ==
  /\ callback = "count"
  /\ total_frames' = total_frames + 1
  /\ frames_in_sec' = frames_in_sec + 1
  /\ mtx' = "free"
  /\ callback' = "idle"
  /\ CamReturn
  /\ UNCHANGED <<main, g_stop, elapsed, ofs, printed>>

-----------------------------------------------------------------------------
(* The main thread.                                                        *)

OpenFile ==
  /\ main = "open"
  /\ \/ main' = "open_camera" /\ is_open' = TRUE
     \/ main' = "failed" /\ UNCHANGED is_open
  /\ UNCHANGED <<cam, callback, mtx, g_stop, elapsed, bad, buffer, disk, stats,
                 printed>>

OpenCamera ==
  /\ main = "open_camera"
  /\ \/ main' = "start" /\ CamOpen
     \/ main' = "failed" /\ UNCHANGED cam
  /\ UNCHANGED <<callback, mtx, g_stop, elapsed, ofs, stats, printed>>

StartCamera ==
  /\ main = "start"
  /\ \/ main' = "test" /\ CamStart
     \/ main' = "failed" /\ UNCHANGED cam
  /\ UNCHANGED <<callback, mtx, g_stop, elapsed, ofs, stats, printed>>

TestStop ==
  /\ main = "test"
  /\ main' = IF g_stop THEN "stop" ELSE "sleep"
  /\ UNCHANGED <<cam, callback, mtx, g_stop, elapsed, ofs, stats, printed>>

\* Variant: a wake-up that misses the last second goes on.
TimeIsUpExactly(now) == now = Duration
TimeIsUp(now) == now >= Duration

\* A sleep of at least a second, then the break out of the loop.
Sleep ==
  /\ main = "sleep"
  /\ \E late \in 0..MaxLate :
       LET now == elapsed + 1 + late IN
         /\ elapsed' = IF now > Duration + MaxLate THEN Duration + MaxLate ELSE now
         /\ IF TimeIsUp(now) THEN main' = "stop" ELSE main' = "lock"
  /\ UNCHANGED <<cam, callback, mtx, g_stop, ofs, stats, printed>>

LockForProgress ==
  /\ main = "lock"
  /\ CanLock
  /\ mtx' = "main"
  /\ main' = "print"
  /\ UNCHANGED <<cam, callback, g_stop, elapsed, ofs, stats, printed>>

PrintProgress ==
  /\ main = "print"
  /\ line_frames' = total_frames
  /\ main' = "reset"
  /\ UNCHANGED <<cam, callback, mtx, g_stop, elapsed, ofs, stats, summary>>

ResetSecond ==
  /\ main = "reset"
  /\ frames_in_sec' = 0
  /\ mtx' = "free"
  /\ main' = "test"
  /\ UNCHANGED <<cam, callback, g_stop, elapsed, ofs, total_frames, printed>>

\* Variant: the capture thread is not waited for.
StopReturnsAtOnce == TRUE
StopReturns == CamStopped

\* camera.stop(): the request, and the return once the thread has ended.
RequestStop ==
  /\ main = "stop"
  /\ main' = "stopping"
  /\ CamStopRequest
  /\ UNCHANGED <<callback, mtx, g_stop, elapsed, ofs, stats, printed>>

Stopped ==
  /\ main = "stopping"
  /\ StopReturns
  /\ main' = "flush"
  /\ UNCHANGED <<cam, callback, mtx, g_stop, elapsed, ofs, stats, printed>>

FlushFile ==
  /\ main = "flush"
  /\ Flush
  /\ main' = "close"
  /\ UNCHANGED <<cam, callback, mtx, g_stop, elapsed, is_open, stats, printed>>

CloseFile ==
  /\ main = "close"
  /\ Flush
  /\ is_open' = FALSE
  /\ main' = "summary"
  /\ UNCHANGED <<cam, callback, mtx, g_stop, elapsed, stats, printed>>

PrintSummary ==
  /\ main = "summary"
  /\ summary' = total_frames
  /\ main' = "done"
  /\ UNCHANGED <<cam, callback, mtx, g_stop, elapsed, ofs, stats, line_frames>>

-----------------------------------------------------------------------------
\* SIGINT or SIGTERM.
Interrupt ==
  /\ ~g_stop /\ main \notin {"done", "failed"}
  /\ g_stop' = TRUE
  /\ UNCHANGED <<cam, main, callback, mtx, elapsed, ofs, stats, printed>>

CallbackStep == CallbackWrite \/ CallbackLock \/ CallbackCount
MainStep == \/ OpenFile \/ OpenCamera \/ StartCamera \/ TestStop \/ Sleep
            \/ LockForProgress \/ PrintProgress \/ ResetSecond \/ RequestStop
            \/ Stopped \/ FlushFile \/ CloseFile \/ PrintSummary

Terminated == main \in {"done", "failed"} /\ UNCHANGED vars

Next == MainStep \/ CallbackStep \/ Deliver \/ Interrupt \/ Terminated

\* Fairness is stated in Programs.
Spec == Init /\ [][Next]_vars

-----------------------------------------------------------------------------
(* Properties.                                                             *)

\* Types; a holder of the mutex is where its lock guard lives.
TypeOK ==
  /\ cam \in CamState
  /\ main \in MainState /\ callback \in CallbackState
  /\ mtx \in {"free", "main", "callback"}
  /\ mtx = "main" <=> main \in {"print", "reset"}
  /\ mtx = "callback" <=> callback = "count"
  /\ {g_stop, is_open, bad} \subseteq BOOLEAN
  /\ elapsed \in 0 .. Duration + MaxLate
  /\ buffer \in Seq(1..MaxFrames) /\ disk \in Seq(1..MaxFrames)
  /\ {total_frames, frames_in_sec, line_frames, summary} \subseteq 0..MaxFrames

\* The flush, the close and the unlocked reads of the counters in the summary
\* never run beside the frame callback, which writes the same file without a
\* lock (main.cpp:88, 139-154).
NoCallbackAfterStop ==
  main \in {"flush", "close", "summary", "done"} => callback = "idle" /\ ~InCallback

\* When no write failed, the closed file holds every frame that the summary
\* counts, once, in the order of capture.
WholeRecording ==
  main = "done" /\ ~bad => disk = [n \in 1..summary |-> n]

\* No frame is lost between two progress lines or counted in both: while
\* nobody holds the mutex the frames of this second are those since the line
\* before (main.cpp:90-94, 123-133).
SecondsAddUp == mtx = "free" => frames_in_sec = total_frames - line_frames

\* How many steps main has left at most, those of every second included.
MainLeft ==
  LET place == [open |-> 13, open_camera |-> 12, start |-> 11, lock |-> 10,
                print |-> 9, reset |-> 8, test |-> 7, sleep |-> 6, stop |-> 5,
                stopping |-> 4, flush |-> 3, close |-> 2, summary |-> 1,
                done |-> 0, failed |-> 0] IN
  place[main] + IF place[main] > 5 THEN 5 * (Duration - elapsed) ELSE 0

\* "recording stops automatically after 10 seconds regardless of whether
\* Ctrl+C is received" (README.md): the program ends, the file closed.
EndsByItself == <>(main = "failed" \/ (main = "done" /\ ~is_open))
=============================================================================
