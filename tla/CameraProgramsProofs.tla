------------------------- MODULE CameraProgramsProofs -------------------------
(***************************************************************************)
(* The inductive invariants of record_video, camera_preview and             *)
(* capture_image, for recordings of any length.  Each is kept by every step *)
(* of its program; module ProgramsProofs puts them together.                *)
(*                                                                         *)
(* In all three the invariant ties the place of main to the state of the    *)
(* camera: nothing but camera.start() begins callbacks and nothing but the  *)
(* return of camera.stop() ends them, so that what is read without a lock,  *)
(* closed or destroyed afterwards is not in use.                            *)
(***************************************************************************)
EXTENDS Programs, SequenceTheorems, TLAPS

-----------------------------------------------------------------------------
(* record_video.                                                           *)

\* What the place of main says of the camera, of the file and of the summary.
RecordPhase ==
  /\ callback # "idle" <=> Record!InCallback
  /\ callback # "idle" => total_frames < MaxFrames
  /\ main \in {"open", "open_camera"} => cam = "closed"
  /\ main = "start" => cam = "open"
  /\ main \in {"flush", "close", "summary", "done", "failed"} => Record!CamStopped
  /\ main = "stopping" => cam \notin {"running", "delivering"}
  /\ main \notin {"open", "summary", "done", "failed"} => is_open
  /\ main \in {"summary", "done"} => ~is_open
  /\ main = "done" => summary = total_frames
  /\ main \in {"open", "open_camera", "start", "test", "sleep", "lock", "print", "reset"}
       => elapsed < Duration

\* The frames of this second, but for the moment between the line and the reset.
RecordSeconds ==
  /\ line_frames <= total_frames
  /\ frames_in_sec <= total_frames
  /\ IF main = "reset" THEN line_frames = total_frames
                       ELSE frames_in_sec = total_frames - line_frames

RecordControl ==
  /\ cam \in Record!CamState
  /\ main \in Record!MainState /\ callback \in Record!CallbackState
  /\ mtx \in {"free", "main", "callback"}
  /\ mtx = "main" <=> main \in {"print", "reset"}
  /\ mtx = "callback" <=> callback = "count"
  /\ elapsed \in 0 .. Duration + MaxLate
  /\ {total_frames, frames_in_sec, line_frames, summary} \subseteq 0..MaxFrames
  /\ RecordPhase
  /\ RecordSeconds

\* Disk and buffer together hold the frames written so far, in order.
RecordWritten == total_frames + (IF callback \in {"lock", "count"} THEN 1 ELSE 0)

Held ==
  /\ Len(disk) + Len(buffer) = RecordWritten
  /\ \A i \in 1..Len(disk) : disk[i] = i
  /\ \A i \in 1..Len(buffer) : buffer[i] = Len(disk) + i

RecordFile ==
  /\ bad \in BOOLEAN
  /\ buffer \in Seq(1..MaxFrames) /\ disk \in Seq(1..MaxFrames)
  /\ ~bad => Held
  /\ ~bad /\ main \in {"close", "summary", "done"} => buffer = <<>>

RecordInv ==
  /\ {g_stop, is_open} \subseteq BOOLEAN
  /\ RecordControl
  /\ RecordFile

LEMMA RecordStarts == Record!Init => RecordInv
<1> SUFFICES ASSUME Record!Init PROVE RecordInv
  OBVIOUS
<1>1. {Duration, MaxFrames} \subseteq Nat \ {0} /\ MaxLate \in Nat
  BY ProgramsAssumption DEF Record!Bounds
<1>2. {g_stop, is_open} \subseteq BOOLEAN /\ bad \in BOOLEAN /\ ~is_open
  BY Zenon DEF Record!Init
<1>3. RecordControl
  BY <1>1, <1>2 DEF Record!Init, Record!CamInit, RecordControl, RecordPhase, RecordSeconds,
        Record!CamState, Record!MainState, Record!CallbackState, Record!InCallback,
        Record!CamStopped
<1>4. RecordFile
  BY <1>2 DEF Record!Init, RecordFile, Held, RecordWritten
<1> QED
  BY <1>2, <1>3, <1>4 DEF RecordInv

LEMMA RecordControlKept ==
  ASSUME RecordInv, Record!Next
  PROVE  RecordControl' /\ {g_stop, is_open}' \subseteq BOOLEAN
<1>1. {Duration, MaxFrames} \subseteq Nat \ {0} /\ MaxLate \in Nat
  BY ProgramsAssumption DEF Record!Bounds
<1>2. {g_stop, is_open}' \subseteq BOOLEAN
  BY Zenon DEF RecordInv, Record!Next, Record!MainStep, Record!CallbackStep,
     Record!OpenFile, Record!OpenCamera, Record!StartCamera, Record!TestStop, Record!Sleep,
     Record!LockForProgress, Record!PrintProgress, Record!ResetSecond, Record!RequestStop,
     Record!Stopped, Record!FlushFile, Record!CloseFile, Record!PrintSummary,
     Record!CallbackWrite, Record!CallbackLock, Record!CallbackCount, Record!Deliver,
     Record!Interrupt, Record!Terminated, Record!vars, Record!ofs
<1>3. RecordControl'
  <2> USE <1>1 DEF RecordInv, RecordControl, RecordPhase, RecordSeconds,
         Record!CamState, Record!MainState, Record!CallbackState, Record!InCallback,
         Record!CamStopped, Record!ofs, Record!stats, Record!printed
  <2>1. CASE Record!OpenFile
    BY <2>1 DEF Record!OpenFile
  <2>2. CASE Record!OpenCamera
    BY <2>2 DEF Record!OpenCamera, Record!CamOpen
  <2>3. CASE Record!StartCamera
    BY <2>3 DEF Record!StartCamera, Record!CamStart
  <2>4. CASE Record!TestStop
    BY <2>4 DEF Record!TestStop
  <2>5. CASE Record!Sleep
    BY <2>5 DEF Record!Sleep, Record!TimeIsUp
  <2>6. CASE Record!LockForProgress
    BY <2>6 DEF Record!LockForProgress, Record!CanLock
  <2>7. CASE Record!PrintProgress
    BY <2>7 DEF Record!PrintProgress
  <2>8. CASE Record!ResetSecond
    BY <2>8 DEF Record!ResetSecond
  <2>9. CASE Record!RequestStop
    BY <2>9 DEF Record!RequestStop, Record!CamStopRequest
  <2>10. CASE Record!Stopped
    BY <2>10 DEF Record!Stopped, Record!StopReturns
  <2>11. CASE Record!FlushFile
    BY <2>11 DEF Record!FlushFile
  <2>12. CASE Record!CloseFile
    BY <2>12 DEF Record!CloseFile
  <2>13. CASE Record!PrintSummary
    BY <2>13 DEF Record!PrintSummary
  <2>14. CASE Record!CallbackWrite
    BY <2>14 DEF Record!CallbackWrite
  <2>15. CASE Record!CallbackLock
    BY <2>15 DEF Record!CallbackLock, Record!CanLock
  <2>16. CASE Record!CallbackCount
    BY <2>16 DEF Record!CallbackCount, Record!CamReturn
  <2>17. CASE Record!Deliver
    BY <2>17 DEF Record!Deliver, Record!CamDeliver
  <2>18. CASE Record!Interrupt
    BY <2>18 DEF Record!Interrupt
  <2>19. CASE Record!Terminated
    BY <2>19 DEF Record!Terminated, Record!vars
  <2> QED
    BY <2>1, <2>2, <2>3, <2>4, <2>5, <2>6, <2>7, <2>8, <2>9, <2>10, <2>11, <2>12, <2>13,
       <2>14, <2>15, <2>16, <2>17, <2>18, <2>19
       DEF Record!Next, Record!MainStep, Record!CallbackStep
<1> QED
  BY <1>2, <1>3

\* Both ways to bring frames to the disk keep what disk and buffer hold.
LEMMA WriteOutHeld ==
  ASSUME NEW pending \in Seq(1..MaxFrames), disk \in Seq(1..MaxFrames),
         bad \in BOOLEAN, Record!WriteOut(pending)
  PROVE  /\ disk' \in Seq(1..MaxFrames) /\ buffer' = <<>> /\ bad' \in BOOLEAN
         /\ ~bad' => ~bad /\ disk' = disk \o pending
<1>1. CASE disk' = disk \o pending /\ buffer' = <<>> /\ UNCHANGED bad
  BY <1>1
<1>2. CASE /\ \E n \in 0 .. Len(pending) - 1 : disk' = disk \o SubSeq(pending, 1, n)
           /\ buffer' = <<>> /\ bad' = TRUE
  <2>1. PICK n \in 0 .. Len(pending) - 1 : disk' = disk \o SubSeq(pending, 1, n)
    BY <1>2
  <2>2. SubSeq(pending, 1, n) \in Seq(1..MaxFrames)
    <3>0. Len(pending) \in Nat /\ \A i \in 1..Len(pending) : pending[i] \in 1..MaxFrames
      BY ElementOfSeq, LenProperties
    <3>1. n \in Int /\ \A i \in 1..n : pending[i] \in 1..MaxFrames
      BY <3>0
    <3> QED
      BY <3>1, SubSeqProperties
  <2> QED
    BY <1>2, <2>1, <2>2
<1> QED
  BY <1>1, <1>2 DEF Record!WriteOut

\* Frames that follow those on the disk.
LEMMA InOrder ==
  ASSUME NEW S, NEW d \in Seq(S), NEW p \in Seq(S),
         \A i \in 1..Len(d) : d[i] = i,
         \A i \in 1..Len(p) : p[i] = Len(d) + i
  PROVE  /\ Len(d \o p) = Len(d) + Len(p)
         /\ \A i \in 1..Len(d \o p) : (d \o p)[i] = i
<1>1. Len(d) \in Nat /\ Len(p) \in Nat /\ Len(d \o p) = Len(d) + Len(p)
  BY ConcatProperties, LenProperties
<1>2. ASSUME NEW i \in 1..Len(d \o p) PROVE (d \o p)[i] = i
  <2>1. (d \o p)[i] = IF i <= Len(d) THEN d[i] ELSE p[i - Len(d)]
    BY <1>1, ConcatProperties
  <2>2. CASE i <= Len(d)
    BY <1>1, <2>1, <2>2
  <2>3. CASE ~(i <= Len(d))
    <3>1. i - Len(d) \in 1..Len(p)
      BY <1>1, <2>3
    <3> QED
      BY <1>1, <2>1, <2>3, <3>1
  <2> QED
    BY <2>2, <2>3
<1> QED
  BY <1>1, <1>2

LEMMA RecordFileKept ==
  ASSUME RecordInv, Record!Next
  PROVE  RecordFile'
<1>1. {Duration, MaxFrames} \subseteq Nat \ {0} /\ MaxLate \in Nat
  BY ProgramsAssumption DEF Record!Bounds
<1> USE <1>1 DEF RecordInv, RecordFile
<1>3. ASSUME UNCHANGED <<bad, buffer, disk>>, RecordWritten' = RecordWritten,
             main' \in {"close", "summary", "done"} => main \in {"close", "summary", "done"}
      PROVE  RecordFile'
  BY <1>3 DEF Held
<1>4. CASE Record!OpenFile
  BY <1>3, <1>4 DEF Record!OpenFile, RecordWritten, Record!stats
<1>5. CASE Record!OpenCamera
  BY <1>3, <1>5 DEF Record!OpenCamera, RecordWritten, Record!stats, Record!ofs
<1>6. CASE Record!StartCamera
  BY <1>3, <1>6 DEF Record!StartCamera, RecordWritten, Record!stats, Record!ofs
<1>7. CASE Record!TestStop
  BY <1>3, <1>7 DEF Record!TestStop, RecordWritten, Record!stats, Record!ofs
<1>8. CASE Record!Sleep
  BY <1>3, <1>8 DEF Record!Sleep, RecordWritten, Record!stats, Record!ofs
<1>9. CASE Record!LockForProgress
  BY <1>3, <1>9 DEF Record!LockForProgress, RecordWritten, Record!stats, Record!ofs
<1>10. CASE Record!PrintProgress
  BY <1>3, <1>10 DEF Record!PrintProgress, RecordWritten, Record!stats, Record!ofs
<1>11. CASE Record!ResetSecond
  BY <1>3, <1>11 DEF Record!ResetSecond, RecordWritten, Record!stats, Record!ofs
<1>12. CASE Record!RequestStop
  BY <1>3, <1>12 DEF Record!RequestStop, RecordWritten, Record!stats, Record!ofs
<1>13. CASE Record!Stopped
  BY <1>3, <1>13 DEF Record!Stopped, RecordWritten, Record!stats, Record!ofs
<1>14. CASE Record!PrintSummary
  BY <1>3, <1>14 DEF Record!PrintSummary, RecordWritten, Record!stats, Record!ofs
<1>15. CASE Record!CallbackLock
  BY <1>3, <1>15 DEF Record!CallbackLock, RecordWritten, Record!stats, Record!ofs
<1>16. CASE Record!CallbackCount
  <2>1. RecordWritten' = RecordWritten
    BY <1>16 DEF Record!CallbackCount, RecordWritten, RecordControl
  <2> QED
    BY <1>3, <1>16, <2>1 DEF Record!CallbackCount, Record!ofs
<1>17. CASE Record!Deliver
  <2>1. RecordWritten' = RecordWritten
    BY <1>17 DEF Record!Deliver, RecordWritten, RecordControl, RecordPhase,
                 Record!CamDeliver, Record!InCallback, Record!CallbackState, Record!stats
  <2> QED
    BY <1>3, <1>17, <2>1 DEF Record!Deliver, Record!ofs
<1>18. CASE Record!Interrupt
  BY <1>3, <1>18 DEF Record!Interrupt, RecordWritten, Record!stats, Record!ofs
<1>19. CASE Record!Terminated
  BY <1>3, <1>19 DEF Record!Terminated, Record!vars, RecordWritten, Record!stats, Record!ofs
<1>20. ASSUME Record!Flush, is_open, RecordWritten' = RecordWritten, main' \in {"close", "summary"}
       PROVE  RecordFile'
  <2>1. CASE ~bad
    <3>1. /\ disk' \in Seq(1..MaxFrames) /\ buffer' = <<>> /\ bad' \in BOOLEAN
          /\ ~bad' => ~bad /\ disk' = disk \o buffer
      BY <1>20, <2>1, WriteOutHeld DEF Record!Flush
    <3>2. ~bad' => Held'
      <4> SUFFICES ASSUME ~bad' PROVE Held'
        OBVIOUS
      <4>0. /\ \A i \in 1..Len(disk) : disk[i] = i
            /\ \A i \in 1..Len(buffer) : buffer[i] = Len(disk) + i
        BY <2>1 DEF Held
      <4>1. Len(disk') = Len(disk) + Len(buffer) /\ \A i \in 1..Len(disk') : disk'[i] = i
        <5>1. disk \in Seq(1..MaxFrames) /\ buffer \in Seq(1..MaxFrames)
          OBVIOUS
        <5>2. /\ Len(disk \o buffer) = Len(disk) + Len(buffer)
              /\ \A i \in 1..Len(disk \o buffer) : (disk \o buffer)[i] = i
          BY Zenon, <4>0, <5>1, InOrder
        <5> QED
          BY <3>1, <5>2
      <4>2. Len(buffer') = 0 /\ Len(buffer) \in Nat /\ Len(disk) \in Nat
        BY <3>1, LenProperties
      <4> QED
        BY <1>20, <2>1, <4>1, <4>2 DEF Held
    <3> QED
      BY <3>1, <3>2
  <2>2. CASE bad
    BY <1>20, <2>2 DEF Record!Flush
  <2> QED
    BY <2>1, <2>2
<1>21. CASE Record!FlushFile
  BY <1>20, <1>21 DEF Record!FlushFile, RecordWritten, Record!stats, RecordControl, RecordPhase
<1>22. CASE Record!CloseFile
  BY <1>20, <1>22 DEF Record!CloseFile, RecordWritten, Record!stats, RecordControl, RecordPhase
<1>23. CASE Record!CallbackWrite
  <2>1. /\ is_open /\ total_frames < MaxFrames /\ total_frames \in Nat
        /\ main \notin {"close", "summary", "done"} /\ main' = main
        /\ RecordWritten = total_frames /\ RecordWritten' = total_frames + 1
    BY <1>23 DEF Record!CallbackWrite, RecordControl, RecordPhase, Record!InCallback,
                 Record!CamStopped, RecordWritten, Record!stats, Record!MainState
  <2>2. CASE bad
    BY <1>23, <2>1, <2>2 DEF Record!CallbackWrite, Record!Write
  <2>3. CASE ~bad
    <3> DEFINE pending == Append(buffer, total_frames + 1)
    <3>1. pending \in Seq(1..MaxFrames) /\ Len(pending) = Len(buffer) + 1
      BY <2>1
    <3>2. \A i \in 1..Len(pending) : pending[i] = Len(disk) + i
      <4>1. Len(disk) + Len(buffer) = total_frames
        BY <2>1, <2>3 DEF Held
      <4>2. \A i \in 1..Len(buffer) : pending[i] = buffer[i] /\ buffer[i] = Len(disk) + i
        BY <2>3 DEF Held
      <4>3. pending[Len(buffer) + 1] = total_frames + 1
        OBVIOUS
      <4>4. Len(buffer) \in Nat /\ Len(disk) \in Nat
        BY LenProperties
      <4> HIDE DEF pending
      <4>5. ASSUME NEW i \in 1..Len(pending) PROVE pending[i] = Len(disk) + i
        <5>1. CASE i <= Len(buffer)
          BY <4>2, <4>4, <5>1
        <5>2. CASE i = Len(buffer) + 1
          BY <4>1, <4>3, <4>4, <5>2
        <5> QED
          BY <3>1, <4>4, <5>1, <5>2
      <4> QED
        BY <4>5
    <3> HIDE DEF pending
    <3>3. Len(disk) + Len(pending) = RecordWritten'
      BY <2>1, <2>3, <3>1 DEF Held
    <3>4. CASE buffer' = pending /\ UNCHANGED <<bad, disk>>
      BY <2>1, <2>3, <3>1, <3>2, <3>3, <3>4 DEF Held
    <3>5. CASE Record!WriteOut(pending)
      <4>1. /\ disk' \in Seq(1..MaxFrames) /\ buffer' = <<>> /\ bad' \in BOOLEAN
            /\ ~bad' => ~bad /\ disk' = disk \o pending
        BY <3>1, <3>5, WriteOutHeld
      <4>2. ~bad' => Held'
        <5> SUFFICES ASSUME ~bad' PROVE Held'
          OBVIOUS
        <5>0. \A i \in 1..Len(disk) : disk[i] = i
          BY <2>3 DEF Held
        <5>1. Len(disk') = Len(disk) + Len(pending) /\ \A i \in 1..Len(disk') : disk'[i] = i
          <6>1. disk \in Seq(1..MaxFrames) /\ pending \in Seq(1..MaxFrames)
            BY <3>1
          <6>2. /\ Len(disk \o pending) = Len(disk) + Len(pending)
                /\ \A i \in 1..Len(disk \o pending) : (disk \o pending)[i] = i
            BY Zenon, <3>2, <5>0, <6>1, InOrder
          <6> QED
            BY <4>1, <6>2
        <5>2. Len(buffer') = 0 /\ Len(pending) \in Nat /\ Len(disk) \in Nat
          BY <3>1, <4>1, LenProperties
        <5> QED
          BY <3>3, <5>1, <5>2 DEF Held
      <4> QED
        BY <2>1, <4>1, <4>2
    <3> QED
      BY <1>23, <2>1, <2>3, <3>4, <3>5 DEF Record!CallbackWrite, Record!Write, pending
  <2> QED
    BY <2>2, <2>3
<1> QED
  BY <1>4, <1>5, <1>6, <1>7, <1>8, <1>9, <1>10, <1>11, <1>12, <1>13, <1>14, <1>15, <1>16,
     <1>17, <1>18, <1>19, <1>21, <1>22, <1>23
     DEF Record!Next, Record!MainStep, Record!CallbackStep

LEMMA RecordKept == ASSUME RecordInv, Record!Next PROVE RecordInv'
  BY RecordControlKept, RecordFileKept DEF RecordInv

\* What the invariant says of the program.
LEMMA RecordSafe ==
  ASSUME RecordInv
  PROVE  /\ Record!TypeOK /\ Record!NoCallbackAfterStop /\ Record!WholeRecording
         /\ Record!SecondsAddUp
<1>1. Record!TypeOK
  <2>1. {g_stop, is_open, bad} \subseteq BOOLEAN
    BY DEF RecordInv, RecordFile
  <2> QED
    BY <2>1 DEF RecordInv, RecordControl, RecordFile, Record!TypeOK
<1>2. Record!NoCallbackAfterStop
  BY DEF RecordInv, RecordControl, RecordPhase, Record!NoCallbackAfterStop,
         Record!CamStopped, Record!InCallback
<1>3. Record!SecondsAddUp
  BY DEF RecordInv, RecordControl, RecordSeconds, Record!SecondsAddUp
<1>4. Record!WholeRecording
  <2> SUFFICES ASSUME main = "done", ~bad PROVE disk = [n \in 1..summary |-> n]
    BY DEF Record!WholeRecording
  <2>1. callback = "idle" /\ summary = total_frames
    BY DEF RecordInv, RecordControl, RecordPhase, Record!CamStopped, Record!InCallback
  <2>2. buffer = <<>> /\ Held /\ disk \in Seq(1..MaxFrames)
    BY DEF RecordInv, RecordFile
  <2>3. Len(disk) = summary /\ \A i \in 1..summary : disk[i] = i
    <3>1. RecordWritten = total_frames /\ total_frames \in Nat
      BY <2>1 DEF RecordWritten, RecordInv, RecordControl
    <3> QED
      BY <2>1, <2>2, <3>1 DEF Held
  <2> QED
    BY <2>2, <2>3
<1> QED
  BY <1>1, <1>2, <1>3, <1>4

\* The steps of the camera enter and leave the scope, those of main open and
\* close it.
LEMMA RecordScope ==
  ASSUME program = "record_video", program' = program, RecordInv, Record!Next
  PROVE  CallbackData!Next \/ UNCHANGED CallbackData!scopeVars
<1> DEFINE before == {"open", "open_camera", "start"}
           after  == {"flush", "close", "summary", "done", "failed"}
           scope  == Scope(main \notin before \union after, before)
           inside == cam \in {"delivering", "draining"}
<1>1. DataScope = scope /\ DataScope' = scope'
  BY DEF DataScope, Scope
<1> USE DEF RecordInv, RecordControl, RecordPhase, Record!CamState, Record!InCallback,
        Record!CamStopped, Record!MainState, Scope
<1>2. CASE UNCHANGED cam
  <2>1. \/ UNCHANGED main
        \/ main \in before /\ main' \in before \union {"failed"}
        \/ /\ main \notin before \union after
           /\ main' \notin before \union after \/ (main' = "flush" /\ ~inside)
        \/ main \in after /\ main' \in after
    BY <1>2 DEF Record!Next, Record!MainStep, Record!CallbackStep,
       Record!OpenFile, Record!OpenCamera, Record!StartCamera, Record!TestStop, Record!Sleep,
       Record!LockForProgress, Record!PrintProgress, Record!ResetSecond, Record!RequestStop,
       Record!Stopped, Record!StopReturns, Record!FlushFile, Record!CloseFile,
       Record!PrintSummary, Record!CallbackWrite, Record!CallbackLock, Record!CallbackCount,
       Record!Deliver, Record!Interrupt, Record!Terminated, Record!vars, Record!CamStart
  <2> QED
    BY <1>1, <1>2, <2>1 DEF CallbackData!Next, CallbackData!Abandon, CallbackData!Close,
       CallbackData!scopeVars
<1>3. CASE Record!OpenCamera /\ cam' # cam
  BY <1>1, <1>3 DEF Record!OpenCamera, Record!CamOpen, CallbackData!scopeVars
<1>4. CASE Record!StartCamera /\ cam' # cam
  BY <1>1, <1>4 DEF Record!StartCamera, Record!CamStart, CallbackData!Next, CallbackData!Open
<1>5. CASE Record!RequestStop
  BY <1>1, <1>5 DEF Record!RequestStop, Record!CamStopRequest, CallbackData!scopeVars
<1>6. CASE Record!Deliver
  BY <1>1, <1>6 DEF Record!Deliver, Record!CamDeliver, CallbackData!Next, CallbackData!Enter
<1>7. CASE Record!CallbackCount
  BY <1>1, <1>7 DEF Record!CallbackCount, Record!CamReturn, CallbackData!Next, CallbackData!Leave
<1> QED
  BY <1>2, <1>3, <1>4, <1>5, <1>6, <1>7 DEF Record!Next, Record!MainStep, Record!CallbackStep,
     Record!OpenFile, Record!OpenCamera, Record!StartCamera, Record!TestStop, Record!Sleep,
     Record!LockForProgress, Record!PrintProgress, Record!ResetSecond,
     Record!Stopped, Record!FlushFile, Record!CloseFile, Record!PrintSummary,
     Record!CallbackWrite, Record!CallbackLock, Record!Interrupt, Record!Terminated, Record!vars

\* Every step of main brings the end of the recording closer, however late it
\* wakes up, and the callback does not put it off.
LEMMA RecordEnd ==
  ASSUME RecordInv, Record!Next
  PROVE  /\ Record!MainStep => Record!MainLeft' < Record!MainLeft
         /\ ~Record!MainStep => Record!MainLeft' = Record!MainLeft
<1>1. {Duration, MaxFrames} \subseteq Nat \ {0} /\ MaxLate \in Nat
  BY ProgramsAssumption DEF Record!Bounds
<1>2. /\ elapsed \in Nat
      /\ main \in {"open", "open_camera", "start", "test", "sleep", "lock", "print", "reset"}
           => elapsed < Duration
  BY <1>1 DEF RecordInv, RecordControl, RecordPhase
<1>3. CASE Record!Sleep
  <2>1. PICK late \in 0..MaxLate :
          LET now == elapsed + 1 + late IN
            /\ elapsed' = IF now > Duration + MaxLate THEN Duration + MaxLate ELSE now
            /\ IF now >= Duration THEN main' = "stop" ELSE main' = "lock"
    BY <1>3 DEF Record!Sleep, Record!TimeIsUp
  <2>2. main = "sleep" /\ elapsed < Duration /\ late \in Nat
    BY <1>1, <1>2, <1>3, <2>1 DEF Record!Sleep
  <2>3. Duration \in Nat /\ elapsed' \in Nat /\ (main' = "lock" => elapsed' > elapsed)
    BY <1>1, <1>2, <2>1, <2>2
  <2>4. /\ main' \in {"stop", "lock"}
        /\ Record!MainLeft = 6 + 5 * (Duration - elapsed)
        /\ main' = "stop" => Record!MainLeft' = 5
        /\ main' = "lock" => Record!MainLeft' = 10 + 5 * (Duration - elapsed')
    BY <1>1, <1>2, <2>1, <2>2, <2>3 DEF Record!MainLeft
  <2>5. Record!MainLeft' < Record!MainLeft
    BY <1>2, <2>2, <2>3, <2>4
  <2> QED
    BY <1>3, <2>5 DEF Record!MainStep
<1>4. CASE Record!MainStep /\ ~Record!Sleep
  <2>1. elapsed' = elapsed
    BY <1>4 DEF Record!MainStep, Record!OpenFile, Record!OpenCamera, Record!StartCamera,
       Record!TestStop, Record!LockForProgress, Record!PrintProgress, Record!ResetSecond,
       Record!RequestStop, Record!Stopped, Record!FlushFile, Record!CloseFile,
       Record!PrintSummary
  <2>2. \/ main = "open" /\ main' \in {"open_camera", "failed"}
        \/ main = "open_camera" /\ main' \in {"start", "failed"}
        \/ main = "start" /\ main' \in {"test", "failed"}
        \/ main = "test" /\ main' \in {"stop", "sleep"}
        \/ main = "lock" /\ main' = "print"
        \/ main = "print" /\ main' = "reset"
        \/ main = "reset" /\ main' = "test"
        \/ main = "stop" /\ main' = "stopping"
        \/ main = "stopping" /\ main' = "flush"
        \/ main = "flush" /\ main' = "close"
        \/ main = "close" /\ main' = "summary"
        \/ main = "summary" /\ main' = "done"
    BY <1>4 DEF Record!MainStep, Record!OpenFile, Record!OpenCamera, Record!StartCamera,
       Record!TestStop, Record!LockForProgress, Record!PrintProgress, Record!ResetSecond,
       Record!RequestStop, Record!Stopped, Record!FlushFile, Record!CloseFile,
       Record!PrintSummary
  <2> QED
    BY <1>1, <1>2, <1>4, <2>1, <2>2 DEF Record!MainLeft
<1>5. CASE ~Record!MainStep
  <2>1. UNCHANGED <<main, elapsed>>
    BY <1>5 DEF Record!Next, Record!CallbackStep, Record!CallbackWrite, Record!CallbackLock,
       Record!CallbackCount, Record!Deliver, Record!Interrupt, Record!Terminated, Record!vars
  <2> QED
    BY <1>5, <2>1 DEF Record!MainLeft
<1> QED
  BY <1>3, <1>4, <1>5

-----------------------------------------------------------------------------
(* camera_preview.                                                         *)

\* What the place of main says of the camera, of the time and of the summary.
PreviewPhase ==
  /\ callback # "idle" => total_frames < MaxFrames
  /\ main = "open" => cam = "closed"
  /\ main = "start" => cam = "open"
  /\ main \in {"summary", "done", "failed"} => Preview!CamStopped
  /\ main = "stopping" => cam \notin {"running", "delivering"}
  /\ main \in {"open", "start", "test", "sleep"} => elapsed < Duration
  /\ main = "done" => summary = total_frames

\* The frames of this second, but for the moment between the line and the reset.
PreviewSeconds ==
  /\ line_frames <= total_frames /\ frames_in_sec <= total_frames
  /\ IF main = "reset" THEN line_frames = total_frames
                       ELSE frames_in_sec = total_frames - line_frames

PreviewInv == Preview!TypeOK /\ PreviewPhase /\ PreviewSeconds

LEMMA PreviewStarts == Preview!Init => PreviewInv
<1>1. {Duration, MaxFrames} \subseteq Nat \ {0} /\ MaxLate \in Nat
  BY ProgramsAssumption DEF Preview!Bounds
<1>2. Preview!Init => g_stop \in BOOLEAN
  BY Zenon DEF Preview!Init
<1> QED
  BY <1>1, <1>2 DEF Preview!Init, Preview!CamInit, PreviewInv, Preview!TypeOK, PreviewPhase,
     PreviewSeconds, Preview!CamState, Preview!InCallback, Preview!CamStopped

LEMMA PreviewKept ==
  ASSUME PreviewInv, Preview!Next
  PROVE  PreviewInv'
<1>1. {Duration, MaxFrames} \subseteq Nat \ {0} /\ MaxLate \in Nat
  BY ProgramsAssumption DEF Preview!Bounds
<1> USE <1>1 DEF PreviewInv, Preview!TypeOK, PreviewPhase, PreviewSeconds, Preview!CamState,
        Preview!InCallback, Preview!CamStopped, Preview!stats, Preview!printed
<1>2. CASE Preview!OpenCamera
  BY <1>2 DEF Preview!OpenCamera, Preview!CamOpen
<1>3. CASE Preview!StartCamera
  BY <1>3 DEF Preview!StartCamera, Preview!CamStart, Preview!CamStopRequest
<1>4. CASE Preview!TestStop
  BY <1>4 DEF Preview!TestStop
<1>5. CASE Preview!Sleep
  BY <1>5 DEF Preview!Sleep
<1>6. CASE Preview!PrintProgress
  BY <1>6 DEF Preview!PrintProgress
<1>7. CASE Preview!ResetSecond
  BY <1>7 DEF Preview!ResetSecond
<1>8. CASE Preview!RequestStop
  BY <1>8 DEF Preview!RequestStop, Preview!CamStopRequest
<1>9. CASE Preview!Stopped
  BY <1>9 DEF Preview!Stopped
<1>10. CASE Preview!PrintSummary
  BY <1>10 DEF Preview!PrintSummary
<1>11. CASE Preview!CountFrame
  BY <1>11 DEF Preview!CountFrame, Preview!CamReturn
<1>12. CASE Preview!Deliver
  BY <1>12 DEF Preview!Deliver, Preview!CamDeliver
<1>13. CASE Preview!signal_handler
  BY <1>13 DEF Preview!signal_handler
<1>14. CASE Preview!Terminated
  BY <1>14 DEF Preview!Terminated, Preview!vars
<1> QED
  BY <1>2, <1>3, <1>4, <1>5, <1>6, <1>7, <1>8, <1>9, <1>10, <1>11, <1>12, <1>13, <1>14
     DEF Preview!Next, Preview!MainStep

LEMMA PreviewSafe ==
  ASSUME PreviewInv
  PROVE  Preview!TypeOK /\ Preview!SummaryIsFinal /\ Preview!SecondsAddUp
BY DEF PreviewInv, PreviewPhase, PreviewSeconds, Preview!TypeOK, Preview!SummaryIsFinal,
       Preview!SecondsAddUp, Preview!CamStopped, Preview!InCallback

LEMMA PreviewScope ==
  ASSUME program = "camera_preview", program' = program, PreviewInv, Preview!Next
  PROVE  CallbackData!Next \/ UNCHANGED CallbackData!scopeVars
<1> DEFINE scope  == Scope(main \notin {"open", "start", "summary", "done", "failed"},
                           {"open", "start"})
           inside == cam \in {"delivering", "draining"}
<1>1. DataScope = scope /\ DataScope' = scope'
  BY DEF DataScope
<1> USE DEF PreviewInv, PreviewPhase, Preview!TypeOK, Preview!CamState, Preview!InCallback,
        Preview!CamStopped, Scope
<1>2. CASE Preview!OpenCamera
  BY <1>1, <1>2 DEF Preview!OpenCamera, Preview!CamOpen, CallbackData!Next,
     CallbackData!Abandon, CallbackData!scopeVars
<1>3. CASE Preview!StartCamera
  BY <1>1, <1>3 DEF Preview!StartCamera, Preview!CamStart, Preview!CamStopRequest,
     CallbackData!Next, CallbackData!Open, CallbackData!Abandon
<1>4. CASE Preview!TestStop \/ Preview!Sleep \/ Preview!PrintProgress \/ Preview!ResetSecond
  BY <1>1, <1>4 DEF Preview!TestStop, Preview!Sleep, Preview!PrintProgress,
     Preview!ResetSecond, CallbackData!scopeVars
<1>5. CASE Preview!RequestStop
  BY <1>1, <1>5 DEF Preview!RequestStop, Preview!CamStopRequest, CallbackData!scopeVars
<1>6. CASE Preview!Stopped
  BY <1>1, <1>6 DEF Preview!Stopped, CallbackData!Next, CallbackData!Close
<1>7. CASE Preview!CountFrame
  BY <1>1, <1>7 DEF Preview!CountFrame, Preview!CamReturn, CallbackData!Next,
     CallbackData!Leave
<1>8. CASE Preview!Deliver
  BY <1>1, <1>8 DEF Preview!Deliver, Preview!CamDeliver, CallbackData!Next, CallbackData!Enter
<1>9. CASE Preview!PrintSummary \/ Preview!signal_handler \/ Preview!Terminated
  BY <1>1, <1>9 DEF Preview!PrintSummary, Preview!signal_handler, Preview!Terminated,
     Preview!vars, CallbackData!scopeVars
<1> QED
  BY <1>2, <1>3, <1>4, <1>5, <1>6, <1>7, <1>8, <1>9 DEF Preview!Next, Preview!MainStep

LEMMA PreviewEnd ==
  ASSUME PreviewInv, Preview!Next
  PROVE  /\ Preview!MainStep => Preview!MainLeft' < Preview!MainLeft
         /\ ~Preview!MainStep => Preview!MainLeft' = Preview!MainLeft
<1>1. {Duration, MaxFrames} \subseteq Nat \ {0} /\ MaxLate \in Nat
  BY ProgramsAssumption DEF Preview!Bounds
<1>2. /\ elapsed \in Nat
      /\ main \in {"open", "start", "test", "sleep"} => elapsed < Duration
  BY <1>1 DEF PreviewInv, PreviewPhase, Preview!TypeOK
<1>3. CASE Preview!Sleep
  <2>1. PICK late \in 0..MaxLate : elapsed' = elapsed + 1 + late
    BY <1>3 DEF Preview!Sleep
  <2>2. /\ main = "sleep" /\ main' = "lock" /\ elapsed < Duration
        /\ elapsed' \in Nat /\ elapsed' > elapsed
    BY <1>1, <1>2, <1>3, <2>1 DEF Preview!Sleep
  <2>3. Preview!MainLeft' < Preview!MainLeft
    BY <1>1, <1>2, <2>2 DEF Preview!MainLeft
  <2> QED
    BY <1>3, <2>3 DEF Preview!MainStep
<1>4. CASE Preview!MainStep /\ ~Preview!Sleep
  <2>1. elapsed' = elapsed
    BY <1>4 DEF Preview!MainStep, Preview!OpenCamera, Preview!StartCamera, Preview!TestStop,
       Preview!PrintProgress, Preview!ResetSecond, Preview!RequestStop, Preview!Stopped,
       Preview!PrintSummary
  <2>2. \/ main = "open" /\ main' \in {"start", "failed"}
        \/ main = "start" /\ main' \in {"test", "failed"}
        \/ main = "test" /\ main' \in {"stop", "sleep"}
        \/ main = "lock" /\ main' = "reset"
        \/ main = "reset" /\ main' \in {"stop", "test"}
        \/ main = "stop" /\ main' = "stopping"
        \/ main = "stopping" /\ main' = "summary"
        \/ main = "summary" /\ main' = "done"
    BY <1>4 DEF Preview!MainStep, Preview!OpenCamera, Preview!StartCamera, Preview!TestStop,
       Preview!PrintProgress, Preview!ResetSecond, Preview!RequestStop, Preview!Stopped,
       Preview!PrintSummary
  <2> QED
    BY <1>1, <1>2, <1>4, <2>1, <2>2 DEF Preview!MainLeft
<1>5. CASE ~Preview!MainStep
  <2>1. UNCHANGED <<main, elapsed>>
    BY <1>5 DEF Preview!Next, Preview!CountFrame, Preview!Deliver, Preview!signal_handler,
       Preview!Terminated, Preview!vars
  <2> QED
    BY <1>5, <2>1 DEF Preview!MainLeft
<1> QED
  BY <1>3, <1>4, <1>5

-----------------------------------------------------------------------------
(* capture_image.                                                          *)

\* The block of got_frame is where the camera may run, and a frame is missing
\* until the callback has saved one or could not open its file.
CapturePhase ==
  /\ main \in {"open", "snapshot1", "test1", "start", "register"}
       => ~callback_set /\ callback = "idle"
  /\ alive <=> main \in {"wait", "stopping"}
  /\ alive => callback_set
  /\ main \notin {"register", "wait", "stopping"} => Capture!CamStopped
  /\ main = "stopping" => cam \notin {"running", "delivering"}

CaptureSaved ==
  /\ ~callback_set => saved = 0 /\ ~unopened /\ ~warned
  /\ got_frame \/ callback = "set" => saved = 1 \/ unopened
  /\ callback_set /\ ~got_frame /\ callback # "set" => saved = 0 /\ ~unopened
  /\ main \in {"wait", "stopping"} => ~warned
  /\ warned => callback = "idle" /\ ~got_frame

CaptureFlags == {streamed, callback_set, alive, got_frame, deadline, g_stop, unopened,
                 warned} \subseteq BOOLEAN

CaptureControl ==
  /\ cam \in Capture!CamState
  /\ main \in {"open", "snapshot1", "test1", "start", "register", "wait",
               "stopping", "test2", "snapshot2", "stop", "returned"}
  /\ callback \in {"idle", "test", "set"} /\ (callback # "idle" <=> Capture!InCallback)
  /\ frames \in 0..MaxFrames /\ saved \in 0..1
  /\ Capture!WarningStaysTrue /\ Capture!StartsFresh
  /\ CapturePhase /\ CaptureSaved

CaptureInv == CaptureFlags /\ CaptureControl

LEMMA CaptureStarts == Capture!Init => CaptureInv
<1>1. MaxFrames \in Nat
  BY ProgramsAssumption DEF Capture!Bounds
<1>2. Capture!Init => CaptureFlags
  BY Zenon DEF Capture!Init, CaptureFlags
<1> QED
  BY <1>1, <1>2 DEF Capture!Init, Capture!CamInit, CaptureInv, CaptureControl, CapturePhase,
     CaptureSaved, Capture!WarningStaysTrue, Capture!StartsFresh, Capture!CamState,
     Capture!InCallback, Capture!CamStopped

LEMMA CaptureFlagsKept ==
  ASSUME CaptureInv, Capture!Next
  PROVE  CaptureFlags'
BY Zenon DEF CaptureInv, CaptureFlags, Capture!Next, Capture!MainStep, Capture!CallbackStep,
   Capture!OpenCamera, Capture!FirstSnapshot, Capture!CaptureJpeg, Capture!TestAndReopen,
   Capture!ReopenDevice, Capture!Reopen, Capture!StartCamera, Capture!RegisterCallback,
   Capture!LeaveWait, Capture!Stopped, Capture!SecondSnapshot, Capture!StopAndReturn,
   Capture!IgnoreFrame, Capture!SaveFrame, Capture!SetGotFrame, Capture!Deliver,
   Capture!DeadlinePasses, Capture!signal_handler, Capture!Terminated, Capture!vars,
   Capture!device, Capture!block, Capture!output

LEMMA CaptureKept ==
  ASSUME CaptureInv, Capture!Next
  PROVE  CaptureInv'
<1>1. MaxFrames \in Nat
  BY ProgramsAssumption DEF Capture!Bounds
<1>0. SUFFICES CaptureControl'
  BY CaptureFlagsKept DEF CaptureInv
<1> USE <1>1 DEF CaptureInv, CaptureControl, CapturePhase, CaptureSaved,
        Capture!WarningStaysTrue, Capture!StartsFresh, Capture!CamState,
        Capture!InCallback, Capture!CamStopped, Capture!device, Capture!block, Capture!output
<1>2. CASE Capture!OpenCamera
  BY <1>2 DEF Capture!OpenCamera, Capture!CamOpen
<1>3. CASE Capture!FirstSnapshot
  BY <1>3 DEF Capture!FirstSnapshot, Capture!CaptureJpeg
<1>4. CASE Capture!TestAndReopen
  BY <1>4 DEF Capture!TestAndReopen, Capture!ReopenDevice, Capture!Reopen
<1>5. CASE Capture!StartCamera
  BY <1>5 DEF Capture!StartCamera, Capture!CamStart
<1>6. CASE Capture!RegisterCallback
  BY <1>6 DEF Capture!RegisterCallback
<1>7. CASE Capture!LeaveWait
  BY <1>7 DEF Capture!LeaveWait, Capture!CamStopRequest
<1>8. CASE Capture!Stopped
  BY <1>8 DEF Capture!Stopped, Capture!StopReturns
<1>9. CASE Capture!SecondSnapshot
  BY <1>9 DEF Capture!SecondSnapshot, Capture!CaptureJpeg
<1>10. CASE Capture!StopAndReturn
  BY <1>10 DEF Capture!StopAndReturn, Capture!CamStopRequest
<1>11. CASE Capture!IgnoreFrame
  BY <1>11 DEF Capture!IgnoreFrame, Capture!CamReturn
<1>12. CASE Capture!SaveFrame
  BY <1>12 DEF Capture!SaveFrame
<1>13. CASE Capture!SetGotFrame
  BY <1>13 DEF Capture!SetGotFrame, Capture!CamReturn
<1>14. CASE Capture!Deliver
  BY <1>14 DEF Capture!Deliver, Capture!CamDeliver
<1>15. CASE Capture!DeadlinePasses
  BY <1>15 DEF Capture!DeadlinePasses
<1>16. CASE Capture!signal_handler
  BY <1>16 DEF Capture!signal_handler
<1>17. CASE Capture!Terminated
  BY <1>17 DEF Capture!Terminated, Capture!vars
<1> QED
  BY <1>2, <1>3, <1>4, <1>5, <1>6, <1>7, <1>8, <1>9, <1>10, <1>11, <1>12, <1>13, <1>14,
     <1>15, <1>16, <1>17 DEF Capture!Next, Capture!MainStep, Capture!CallbackStep

LEMMA CaptureSafe ==
  ASSUME CaptureInv
  PROVE  /\ Capture!TypeOK /\ Capture!CallbackInBlock /\ Capture!WarningStaysTrue
         /\ Capture!StartsFresh
BY DEF CaptureInv, CaptureFlags, CaptureControl, Capture!TypeOK, CapturePhase,
       Capture!CallbackInBlock, Capture!CamStopped, Capture!InCallback

\* The block of got_frame is the scope; the callback that stays registered is
\* not called after it.
LEMMA CaptureScope ==
  ASSUME program = "capture_image", program' = program, CaptureInv, Capture!Next
  PROVE  CallbackData!Next \/ UNCHANGED CallbackData!scopeVars
<1> DEFINE scope  == Scope(alive, {"open", "snapshot1", "test1", "start", "register"})
           inside == cam \in {"delivering", "draining"}
<1>1. DataScope = scope /\ DataScope' = scope'
  BY DEF DataScope
<1>2. {alive, alive'} \subseteq BOOLEAN
  BY CaptureFlagsKept DEF CaptureInv, CaptureFlags
<1> USE <1>2 DEF CaptureInv, CaptureControl, CapturePhase, CaptureSaved, Capture!CamState,
        Capture!InCallback, Capture!CamStopped, Capture!device, Capture!block, Scope
<1>3. CASE Capture!OpenCamera
  BY <1>1, <1>3 DEF Capture!OpenCamera, Capture!CamOpen, CallbackData!Next,
     CallbackData!Abandon, CallbackData!scopeVars
<1>4. CASE Capture!FirstSnapshot \/ Capture!SecondSnapshot
  BY <1>1, <1>4 DEF Capture!FirstSnapshot, Capture!SecondSnapshot, Capture!CaptureJpeg,
     CallbackData!Next, CallbackData!Abandon, CallbackData!scopeVars
<1>5. CASE Capture!TestAndReopen
  BY <1>1, <1>5 DEF Capture!TestAndReopen, Capture!ReopenDevice, Capture!Reopen,
     CallbackData!Next, CallbackData!Abandon, CallbackData!scopeVars
<1>6. CASE Capture!StartCamera
  BY <1>1, <1>6 DEF Capture!StartCamera, Capture!CamStart, CallbackData!Next,
     CallbackData!Abandon, CallbackData!scopeVars
<1>7. CASE Capture!RegisterCallback
  BY <1>1, <1>7 DEF Capture!RegisterCallback, CallbackData!Next, CallbackData!Open
<1>8. CASE Capture!LeaveWait \/ Capture!StopAndReturn
  BY <1>1, <1>8 DEF Capture!LeaveWait, Capture!StopAndReturn, Capture!CamStopRequest,
     CallbackData!scopeVars
<1>9. CASE Capture!Stopped
  BY <1>1, <1>9 DEF Capture!Stopped, Capture!StopReturns, CallbackData!Next,
     CallbackData!Close
<1>10. CASE Capture!IgnoreFrame \/ Capture!SetGotFrame
  BY <1>1, <1>10 DEF Capture!IgnoreFrame, Capture!SetGotFrame, Capture!CamReturn,
     CallbackData!Next, CallbackData!Leave
<1>11. CASE Capture!Deliver
  BY <1>1, <1>11 DEF Capture!Deliver, Capture!CamDeliver, CallbackData!Next,
     CallbackData!Enter
<1>12. CASE \/ Capture!SaveFrame \/ Capture!DeadlinePasses \/ Capture!signal_handler
            \/ Capture!Terminated
  BY <1>1, <1>12 DEF Capture!SaveFrame, Capture!DeadlinePasses, Capture!signal_handler,
     Capture!Terminated, Capture!vars, CallbackData!scopeVars
<1> QED
  BY <1>3, <1>4, <1>5, <1>6, <1>7, <1>8, <1>9, <1>10, <1>11, <1>12
     DEF Capture!Next, Capture!MainStep, Capture!CallbackStep

LEMMA CaptureEnd ==
  ASSUME Capture!Next
  PROVE  /\ Capture!MainStep => Capture!MainLeft' < Capture!MainLeft
         /\ ~Capture!MainStep => Capture!MainLeft' = Capture!MainLeft
<1>1. CASE Capture!MainStep
  BY <1>1 DEF Capture!MainStep, Capture!OpenCamera, Capture!FirstSnapshot,
     Capture!TestAndReopen, Capture!StartCamera, Capture!RegisterCallback,
     Capture!LeaveWait, Capture!Stopped, Capture!SecondSnapshot, Capture!StopAndReturn,
     Capture!MainLeft
<1>2. CASE ~Capture!MainStep
  <2>1. UNCHANGED main
    BY <1>2 DEF Capture!Next, Capture!CallbackStep, Capture!IgnoreFrame, Capture!SaveFrame,
       Capture!SetGotFrame, Capture!Deliver, Capture!DeadlinePasses,
       Capture!signal_handler, Capture!Terminated, Capture!vars
  <2> QED
    BY <1>2, <2>1 DEF Capture!MainLeft
<1> QED
  BY <1>1, <1>2
=============================================================================
