------------------------- MODULE YoloPipelineProofs -------------------------
(***************************************************************************)
(* Theorems about YoloPipeline, for any number of frames and any depth of   *)
(* the encoder's queue.  IInv is inductive given TypeOK; its three parts    *)
(* are proved one after the other, each from those before it.               *)
(***************************************************************************)
EXTENDS YoloPipeline, TLAPS

\* Every step keeps the types.  Frames and packets stay within their bounds.
LEMMA TypeStep ==
  TypeOK /\ [Next]_vars => TypeOK'
<1> SUFFICES ASSUME TypeOK, [Next]_vars
             PROVE  TypeOK'
  OBVIOUS
<1> USE BoundsAssumption DEF TypeOK, Thread, MainPc, CbPc, YoloPc, CamState, Detections
<1>1. CASE signal_handler
  BY <1>1 DEF signal_handler, cbVars, bufferVars, detsVars
<1>2. CASE MainStep
  <2> USE <1>2 DEF MainGo, cbVars, bufferVars, detsVars
  <2>1. CASE MainOpenCamera
    BY <2>1 DEF MainStep, MainOpenCamera, CamOpen
  <2>2. CASE MainSetUp
    BY <2>2 DEF MainStep, MainSetUp, SenderInit
  <2>3. CASE MainStartCamera
    BY <2>3 DEF MainStep, MainStartCamera, CamStart
  <2>4. CASE MainSeesStop
    BY <2>4 DEF MainStep, MainSeesStop
  <2>5. CASE MainNotifyAll
    BY <2>5 DEF MainStep, MainNotifyAll, Notify
  <2>6. CASE MainJoinWorker
    BY <2>6 DEF MainStep, MainJoinWorker
  <2>7. CASE MainStopCamera
    BY <2>7 DEF MainStep, MainStopCamera, CamStopRequest
  <2>8. CASE MainCameraStopped
    BY <2>8 DEF MainStep, MainCameraStopped, CamStopped
  <2>9. CASE MainDeinitEncoder
    BY <2>9 DEF MainStep, MainDeinitEncoder
  <2>10. CASE MainCloseSocket
    <3>1. sock' \in BOOLEAN
      BY <2>10, Zenon DEF MainCloseSocket, SenderClose
    <3> QED
      BY <2>10, <3>1 DEF MainStep, MainCloseSocket, SenderClose
  <2> QED
    BY <2>1, <2>2, <2>3, <2>4, <2>5, <2>6, <2>7, <2>8, <2>9, <2>10 DEF MainStep
<1>3. CASE Capture
  BY <1>3 DEF Capture, CbSkip, CbEnter, CbGo, CbFrame, CamDeliver, bufferVars, detsVars
<1>4. CASE CbStep
  <2> USE <1>4 DEF CbGo, CbFrame, bufferVars, detsVars
  <2>1. CASE CbCopyTop
    BY <2>1 DEF CbStep, CbCopyTop, LockFrame
  <2>2. CASE CbCopyBottom
    BY <2>2 DEF CbStep, CbCopyBottom, UnlockFrame
  <2>3. CASE CbNotify
    BY <2>3 DEF CbStep, CbNotify, Notify
  <2>4. CASE CbReadDets
    BY <2>4 DEF CbStep, CbReadDets, LockDets
  <2>5. CASE CbReadFps
    BY <2>5 DEF CbStep, CbReadFps, UnlockDets
  <2>6. CASE CbEncode
    BY <2>6 DEF CbStep, CbEncode
  <2>7. CASE CbGetPacket
    BY <2>7 DEF CbStep, CbGetPacket
  <2>8. CASE CbSend
    BY <2>8 DEF CbStep, CbSend
  <2>9. CASE CbLeave
    BY <2>9 DEF CbStep, CbLeave, CamReturn
  <2>10. CASE CbEmptyPacket
    BY <2>10 DEF CbStep, CbEmptyPacket, CamReturn
  <2> QED
    BY <2>1, <2>2, <2>3, <2>4, <2>5, <2>6, <2>7, <2>8, <2>9, <2>10 DEF CbStep
<1>5. CASE Acquire
  BY <1>5 DEF Acquire, YoloLock, YoloGo, YoloFrame, LockFrame, cbVars, detsVars
<1>6. CASE Wakeup
  BY <1>6 DEF Wakeup, YoloSpuriousWakeup, YoloGo, YoloFrame, cbVars, detsVars
<1>7. CASE YoloStep
  <2> USE <1>7 DEF YoloGo, YoloFrame, cbVars, detsVars
  <2>1. CASE YoloInit
    BY <2>1 DEF YoloStep, YoloInit
  <2>2. CASE YoloLoop
    BY <2>2 DEF YoloStep, YoloLoop
  <2>3. CASE YoloPredicate
    BY <2>3 DEF YoloStep, YoloPredicate, WaitPredicate
  <2>4. CASE YoloPark
    BY <2>4 DEF YoloStep, YoloPark, UnlockFrame
  <2>5. CASE YoloBreak
    BY <2>5 DEF YoloStep, YoloBreak, UnlockFrame
  <2>6. CASE YoloCopyTop
    BY <2>6 DEF YoloStep, YoloCopyTop
  <2>7. CASE YoloCopyBottom
    <3>1. g_frame_ready' \in BOOLEAN
      BY <2>7, Zenon DEF YoloCopyBottom, FrameTaken
    <3> QED
      BY <2>7, <3>1 DEF YoloStep, YoloCopyBottom, UnlockFrame
  <2>8. CASE YoloInfer
    BY <2>8 DEF YoloStep, YoloInfer
  <2>9. CASE YoloPublishDets
    BY <2>9 DEF YoloStep, YoloPublishDets, LockDets
  <2>10. CASE YoloPublishFps
    BY <2>10 DEF YoloStep, YoloPublishFps, UnlockDets
  <2>11. CASE YoloUnload
    BY <2>11 DEF YoloStep, YoloUnload
  <2> QED
    BY <2>1, <2>2, <2>3, <2>4, <2>5, <2>6, <2>7, <2>8, <2>9, <2>10, <2>11 DEF YoloStep
<1>8. CASE UNCHANGED vars \/ Terminated
  BY <1>8 DEF Terminated, vars, cbVars, bufferVars, detsVars
<1> QED
  BY <1>1, <1>2, <1>3, <1>4, <1>5, <1>6, <1>7, <1>8 DEF Next

\* Every step keeps the correspondence of mutexes, camera and threads.
LEMMA LockStep ==
  TypeOK /\ LockInv /\ [Next]_vars => LockInv'
<1> SUFFICES ASSUME TypeOK, LockInv, [Next]_vars
             PROVE  LockInv'
  OBVIOUS
<1> USE DEF LockInv, TypeOK, InCallback, CamStopped, CamState, Thread
<1>1. CASE signal_handler
  BY <1>1 DEF signal_handler, cbVars, bufferVars, detsVars
<1>2. CASE MainStep
  <2> USE <1>2 DEF MainGo, cbVars, bufferVars, detsVars
  <2>1. CASE MainOpenCamera
    BY <2>1 DEF MainStep, MainOpenCamera, CamOpen
  <2>2. CASE MainSetUp
    BY <2>2 DEF MainStep, MainSetUp, SenderInit
  <2>3. CASE MainStartCamera
    BY <2>3 DEF MainStep, MainStartCamera, CamStart
  <2>4. CASE MainSeesStop
    BY <2>4 DEF MainStep, MainSeesStop
  <2>5. CASE MainNotifyAll
    BY <2>5 DEF MainStep, MainNotifyAll, Notify
  <2>6. CASE MainJoinWorker
    BY <2>6 DEF MainStep, MainJoinWorker
  <2>7. CASE MainStopCamera
    BY <2>7 DEF MainStep, MainStopCamera, CamStopRequest
  <2>8. CASE MainCameraStopped
    BY <2>8 DEF MainStep, MainCameraStopped, CamStopped
  <2>9. CASE MainDeinitEncoder
    BY <2>9 DEF MainStep, MainDeinitEncoder
  <2>10. CASE MainCloseSocket
    BY <2>10 DEF MainStep, MainCloseSocket, SenderClose
  <2> QED
    BY <2>1, <2>2, <2>3, <2>4, <2>5, <2>6, <2>7, <2>8, <2>9, <2>10 DEF MainStep
<1>3. CASE Capture
  BY <1>3 DEF Capture, CbSkip, CbEnter, CbGo, CbFrame, CamDeliver, bufferVars, detsVars
<1>4. CASE CbStep
  <2> USE <1>4 DEF CbGo, CbFrame, bufferVars, detsVars
  <2>1. CASE CbCopyTop
    BY <2>1 DEF CbStep, CbCopyTop, LockFrame
  <2>2. CASE CbCopyBottom
    BY <2>2 DEF CbStep, CbCopyBottom, UnlockFrame
  <2>3. CASE CbNotify
    BY <2>3 DEF CbStep, CbNotify, Notify
  <2>4. CASE CbReadDets
    BY <2>4 DEF CbStep, CbReadDets, LockDets
  <2>5. CASE CbReadFps
    BY <2>5 DEF CbStep, CbReadFps, UnlockDets
  <2>6. CASE CbEncode
    BY <2>6 DEF CbStep, CbEncode
  <2>7. CASE CbGetPacket
    BY <2>7 DEF CbStep, CbGetPacket
  <2>8. CASE CbSend
    BY <2>8 DEF CbStep, CbSend
  <2>9. CASE CbLeave
    BY <2>9 DEF CbStep, CbLeave, CamReturn
  <2>10. CASE CbEmptyPacket
    BY <2>10 DEF CbStep, CbEmptyPacket, CamReturn
  <2> QED
    BY <2>1, <2>2, <2>3, <2>4, <2>5, <2>6, <2>7, <2>8, <2>9, <2>10 DEF CbStep
<1>5. CASE Acquire
  BY <1>5 DEF Acquire, YoloLock, YoloGo, YoloFrame, LockFrame, cbVars, detsVars
<1>6. CASE Wakeup
  BY <1>6 DEF Wakeup, YoloSpuriousWakeup, YoloGo, YoloFrame, cbVars, detsVars
<1>7. CASE YoloStep
  <2> USE <1>7 DEF YoloGo, YoloFrame, cbVars, detsVars
  <2>1. CASE YoloInit
    BY <2>1 DEF YoloStep, YoloInit
  <2>2. CASE YoloLoop
    BY <2>2 DEF YoloStep, YoloLoop
  <2>3. CASE YoloPredicate
    BY <2>3 DEF YoloStep, YoloPredicate, WaitPredicate
  <2>4. CASE YoloPark
    BY <2>4 DEF YoloStep, YoloPark, UnlockFrame
  <2>5. CASE YoloBreak
    BY <2>5 DEF YoloStep, YoloBreak, UnlockFrame
  <2>6. CASE YoloCopyTop
    BY <2>6 DEF YoloStep, YoloCopyTop
  <2>7. CASE YoloCopyBottom
    BY <2>7 DEF YoloStep, YoloCopyBottom, UnlockFrame, FrameTaken
  <2>8. CASE YoloInfer
    BY <2>8 DEF YoloStep, YoloInfer
  <2>9. CASE YoloPublishDets
    BY <2>9 DEF YoloStep, YoloPublishDets, LockDets
  <2>10. CASE YoloPublishFps
    BY <2>10 DEF YoloStep, YoloPublishFps, UnlockDets
  <2>11. CASE YoloUnload
    BY <2>11 DEF YoloStep, YoloUnload
  <2> QED
    BY <2>1, <2>2, <2>3, <2>4, <2>5, <2>6, <2>7, <2>8, <2>9, <2>10, <2>11 DEF YoloStep
<1>8. CASE UNCHANGED vars \/ Terminated
  BY <1>8 DEF Terminated, vars, cbVars, bufferVars, detsVars
<1> QED
  BY <1>1, <1>2, <1>3, <1>4, <1>5, <1>6, <1>7, <1>8 DEF Next

\* Every step keeps the relation of the two frame buffers.
LEMMA FrameStep ==
  TypeOK /\ TypeOK' /\ LockInv /\ FrameInv /\ [Next]_vars => FrameInv'
<1> SUFFICES ASSUME TypeOK, TypeOK', LockInv, FrameInv, [Next]_vars
             PROVE  FrameInv'
  OBVIOUS
<1> USE DEF FrameInv, LockInv, TypeOK, Whole
<1>1. CASE signal_handler
  BY <1>1 DEF signal_handler, cbVars, bufferVars, detsVars
<1>2. CASE MainStep
  <2> USE <1>2 DEF MainGo, cbVars, bufferVars, detsVars
  <2>1. CASE MainOpenCamera
    BY <2>1 DEF MainStep, MainOpenCamera, CamOpen
  <2>2. CASE MainSetUp
    BY <2>2 DEF MainStep, MainSetUp, SenderInit
  <2>3. CASE MainStartCamera
    BY <2>3 DEF MainStep, MainStartCamera, CamStart
  <2>4. CASE MainSeesStop
    BY <2>4 DEF MainStep, MainSeesStop
  <2>5. CASE MainNotifyAll
    BY <2>5 DEF MainStep, MainNotifyAll, Notify
  <2>6. CASE MainJoinWorker
    BY <2>6 DEF MainStep, MainJoinWorker
  <2>7. CASE MainStopCamera
    BY <2>7 DEF MainStep, MainStopCamera, CamStopRequest
  <2>8. CASE MainCameraStopped
    BY <2>8 DEF MainStep, MainCameraStopped, CamStopped
  <2>9. CASE MainDeinitEncoder
    BY <2>9 DEF MainStep, MainDeinitEncoder
  <2>10. CASE MainCloseSocket
    BY <2>10 DEF MainStep, MainCloseSocket, SenderClose
  <2> QED
    BY <2>1, <2>2, <2>3, <2>4, <2>5, <2>6, <2>7, <2>8, <2>9, <2>10 DEF MainStep
<1>3. CASE Capture
  BY <1>3 DEF InCallback, Capture, CbSkip, CbEnter, CbGo, CbFrame, CamDeliver, bufferVars, detsVars
<1>4. CASE CbStep
  <2> USE <1>4 DEF CbGo, CbFrame, bufferVars, detsVars
  <2>1. CASE CbCopyTop
    BY <2>1 DEF CbStep, CbCopyTop, LockFrame
  <2>2. CASE CbCopyBottom
    BY <2>2 DEF CbStep, CbCopyBottom, UnlockFrame
  <2>3. CASE CbNotify
    BY <2>3 DEF CbStep, CbNotify, Notify
  <2>4. CASE CbReadDets
    BY <2>4 DEF CbStep, CbReadDets, LockDets
  <2>5. CASE CbReadFps
    BY <2>5 DEF CbStep, CbReadFps, UnlockDets
  <2>6. CASE CbEncode
    BY <2>6 DEF CbStep, CbEncode
  <2>7. CASE CbGetPacket
    BY <2>7 DEF CbStep, CbGetPacket
  <2>8. CASE CbSend
    BY <2>8 DEF CbStep, CbSend
  <2>9. CASE CbLeave
    BY <2>9 DEF CbStep, CbLeave, CamReturn
  <2>10. CASE CbEmptyPacket
    BY <2>10 DEF CbStep, CbEmptyPacket, CamReturn
  <2> QED
    BY <2>1, <2>2, <2>3, <2>4, <2>5, <2>6, <2>7, <2>8, <2>9, <2>10 DEF CbStep
<1>5. CASE Acquire
  BY <1>5 DEF Acquire, YoloLock, YoloGo, YoloFrame, LockFrame, cbVars, detsVars
<1>6. CASE Wakeup
  BY <1>6 DEF Wakeup, YoloSpuriousWakeup, YoloGo, YoloFrame, cbVars, detsVars
<1>7. CASE YoloStep
  <2> USE <1>7 DEF YoloGo, YoloFrame, cbVars, detsVars
  <2>1. CASE YoloInit
    BY <2>1 DEF YoloStep, YoloInit
  <2>2. CASE YoloLoop
    BY <2>2 DEF YoloStep, YoloLoop
  <2>3. CASE YoloPredicate
    BY <2>3 DEF YoloStep, YoloPredicate, WaitPredicate
  <2>4. CASE YoloPark
    BY <2>4 DEF YoloStep, YoloPark, UnlockFrame
  <2>5. CASE YoloBreak
    BY <2>5 DEF YoloStep, YoloBreak, UnlockFrame
  <2>6. CASE YoloCopyTop
    BY <2>6 DEF YoloStep, YoloCopyTop
  <2>7. CASE YoloCopyBottom
    BY <2>7 DEF YoloStep, YoloCopyBottom, UnlockFrame, FrameTaken
  <2>8. CASE YoloInfer
    BY <2>8 DEF YoloStep, YoloInfer
  <2>9. CASE YoloPublishDets
    BY <2>9 DEF YoloStep, YoloPublishDets, LockDets
  <2>10. CASE YoloPublishFps
    BY <2>10 DEF YoloStep, YoloPublishFps, UnlockDets
  <2>11. CASE YoloUnload
    BY <2>11 DEF YoloStep, YoloUnload
  <2> QED
    BY <2>1, <2>2, <2>3, <2>4, <2>5, <2>6, <2>7, <2>8, <2>9, <2>10, <2>11 DEF YoloStep
<1>8. CASE UNCHANGED vars \/ Terminated
  BY <1>8 DEF Terminated, vars, cbVars, bufferVars, detsVars
<1> QED
  BY <1>1, <1>2, <1>3, <1>4, <1>5, <1>6, <1>7, <1>8 DEF Next

\* Every step keeps the relation of detections, counts and overlay.
LEMMA DetsStep ==
  TypeOK /\ TypeOK' /\ LockInv /\ FrameInv /\ DetsInv /\ [Next]_vars => DetsInv'
<1> SUFFICES ASSUME TypeOK, TypeOK', LockInv, FrameInv, DetsInv, [Next]_vars
             PROVE  DetsInv'
  OBVIOUS
<1> USE DEF DetsInv, FrameInv, LockInv, TypeOK, Whole, OverlayConsistent, Detections
<1>1. CASE signal_handler
  BY <1>1 DEF signal_handler, cbVars, bufferVars, detsVars
<1>2. CASE MainStep
  <2> USE <1>2 DEF MainGo, cbVars, bufferVars, detsVars
  <2>1. CASE MainOpenCamera
    BY <2>1 DEF MainStep, MainOpenCamera, CamOpen
  <2>2. CASE MainSetUp
    BY <2>2 DEF MainStep, MainSetUp, SenderInit
  <2>3. CASE MainStartCamera
    BY <2>3 DEF MainStep, MainStartCamera, CamStart
  <2>4. CASE MainSeesStop
    BY <2>4 DEF MainStep, MainSeesStop
  <2>5. CASE MainNotifyAll
    BY <2>5 DEF MainStep, MainNotifyAll, Notify
  <2>6. CASE MainJoinWorker
    BY <2>6 DEF MainStep, MainJoinWorker
  <2>7. CASE MainStopCamera
    BY <2>7 DEF MainStep, MainStopCamera, CamStopRequest
  <2>8. CASE MainCameraStopped
    BY <2>8 DEF MainStep, MainCameraStopped, CamStopped
  <2>9. CASE MainDeinitEncoder
    BY <2>9 DEF MainStep, MainDeinitEncoder
  <2>10. CASE MainCloseSocket
    BY <2>10 DEF MainStep, MainCloseSocket, SenderClose
  <2> QED
    BY <2>1, <2>2, <2>3, <2>4, <2>5, <2>6, <2>7, <2>8, <2>9, <2>10 DEF MainStep
<1>3. CASE Capture
  BY <1>3 DEF Capture, CbSkip, CbEnter, CbGo, CbFrame, CamDeliver, bufferVars, detsVars
<1>4. CASE CbStep
  <2> USE <1>4 DEF CbGo, CbFrame, bufferVars, detsVars
  <2>1. CASE CbCopyTop
    BY <2>1 DEF CbStep, CbCopyTop, LockFrame
  <2>2. CASE CbCopyBottom
    BY <2>2 DEF CbStep, CbCopyBottom, UnlockFrame
  <2>3. CASE CbNotify
    BY <2>3 DEF CbStep, CbNotify, Notify
  <2>4. CASE CbReadDets
    BY <2>4 DEF CbStep, CbReadDets, LockDets
  <2>5. CASE CbReadFps
    BY <2>5 DEF CbStep, CbReadFps, UnlockDets
  <2>6. CASE CbEncode
    BY <2>6 DEF CbStep, CbEncode
  <2>7. CASE CbGetPacket
    BY <2>7 DEF CbStep, CbGetPacket
  <2>8. CASE CbSend
    BY <2>8 DEF CbStep, CbSend
  <2>9. CASE CbLeave
    BY <2>9 DEF CbStep, CbLeave, CamReturn
  <2>10. CASE CbEmptyPacket
    BY <2>10 DEF CbStep, CbEmptyPacket, CamReturn
  <2> QED
    BY <2>1, <2>2, <2>3, <2>4, <2>5, <2>6, <2>7, <2>8, <2>9, <2>10 DEF CbStep
<1>5. CASE Acquire
  BY <1>5 DEF Acquire, YoloLock, YoloGo, YoloFrame, LockFrame, cbVars, detsVars
<1>6. CASE Wakeup
  BY <1>6 DEF Wakeup, YoloSpuriousWakeup, YoloGo, YoloFrame, cbVars, detsVars
<1>7. CASE YoloStep
  <2> USE <1>7 DEF YoloGo, YoloFrame, cbVars, detsVars
  <2>1. CASE YoloInit
    BY <2>1 DEF YoloStep, YoloInit
  <2>2. CASE YoloLoop
    BY <2>2 DEF YoloStep, YoloLoop
  <2>3. CASE YoloPredicate
    BY <2>3 DEF YoloStep, YoloPredicate, WaitPredicate
  <2>4. CASE YoloPark
    BY <2>4 DEF YoloStep, YoloPark, UnlockFrame
  <2>5. CASE YoloBreak
    BY <2>5 DEF YoloStep, YoloBreak, UnlockFrame
  <2>6. CASE YoloCopyTop
    BY <2>6 DEF YoloStep, YoloCopyTop
  <2>7. CASE YoloCopyBottom
    BY <2>7 DEF YoloStep, YoloCopyBottom, UnlockFrame, FrameTaken
  <2>8. CASE YoloInfer
    BY <2>8 DEF YoloStep, YoloInfer
  <2>9. CASE YoloPublishDets
    BY <2>9 DEF YoloStep, YoloPublishDets, LockDets
  <2>10. CASE YoloPublishFps
    BY <2>10 DEF YoloStep, YoloPublishFps, UnlockDets
  <2>11. CASE YoloUnload
    BY <2>11 DEF YoloStep, YoloUnload
  <2> QED
    BY <2>1, <2>2, <2>3, <2>4, <2>5, <2>6, <2>7, <2>8, <2>9, <2>10, <2>11 DEF YoloStep
<1>8. CASE UNCHANGED vars \/ Terminated
  BY <1>8 DEF Terminated, vars, cbVars, bufferVars, detsVars
<1> QED
  BY <1>1, <1>2, <1>3, <1>4, <1>5, <1>6, <1>7, <1>8 DEF Next

-----------------------------------------------------------------------------
(* Theorems of the specification.                                          *)

\* The variables keep their kinds: in particular the encoder never holds
\* more packets than its queue has room for.
THEOREM TypeCorrect == Spec => []TypeOK
<1>1. ASSUME Init PROVE TypeOK
  <2>1. g_stop \in BOOLEAN /\ sock \in BOOLEAN /\ g_frame_ready \in BOOLEAN
    BY <1>1, Zenon DEF Init
  <2> QED
    BY <1>1, <2>1, BoundsAssumption DEF Init, TypeOK, CamInit, CamState,
       MainPc, CbPc, YoloPc, Thread, Detections
<1> QED
  BY <1>1, TypeStep, PTL DEF Spec

\* IInv is an invariant: it holds at the start, and is inductive with TypeOK.
THEOREM Inductive == Spec => []IInv
<1>1. Init => IInv
  BY DEF Init, IInv, LockInv, FrameInv, DetsInv, Whole, OverlayConsistent,
     CamInit, InCallback, CamStopped
<1>2. TypeOK /\ TypeOK' /\ IInv /\ [Next]_vars => IInv'
  BY LockStep, FrameStep, DetsStep DEF IInv
<1> QED
  BY <1>1, <1>2, TypeCorrect, PTL DEF Spec

\* The worker never infers a mix of two frames.
THEOREM NeverTorn == Spec => []NoTornFrame
<1>1. IInv => NoTornFrame
  BY DEF IInv, FrameInv, NoTornFrame
<1> QED
  BY <1>1, Inductive, PTL

\* Whenever no thread is at the frame buffer, a frame is pending in it or
\* the worker has a copy of it.
THEOREM NeverForgotten == Spec => []NoFrameForgotten
<1>1. TypeOK /\ IInv => NoFrameForgotten
  <2> SUFFICES ASSUME TypeOK, IInv, g_frame_mtx = "free"
               PROVE  IF g_frame_ready
                        THEN g_latest_nv12.bottom > local_nv12.bottom
                        ELSE g_latest_nv12 = local_nv12
    BY DEF NoFrameForgotten
  <2>1. cbPc # "copy" /\ yoloPc # "copy"
    BY DEF IInv, LockInv
  <2>2. Whole(g_latest_nv12) /\ Whole(local_nv12)
    BY <2>1 DEF IInv, FrameInv
  <2> QED
    BY <2>2, BoundsAssumption DEF IInv, FrameInv, TypeOK, Whole
<1> QED
  BY <1>1, TypeCorrect, Inductive, PTL

\* The overlay of a frame is of one publication, and not of a later frame.
THEOREM OverlayCorrect == Spec => []OverlayConsistent
<1>1. IInv => OverlayConsistent
  BY DEF IInv, DetsInv
<1> QED
  BY <1>1, Inductive, PTL

\* The encoder and the socket are freed after the last callback.
THEOREM FreedAfterCallbacks == Spec => []ResourcesOutliveCallbacks
<1>1. IInv => ResourcesOutliveCallbacks
  BY DEF IInv, LockInv, ResourcesOutliveCallbacks, CamStopped, InCallback
<1> QED
  BY <1>1, Inductive, PTL

\* Published detections are of later and later frames, and none is skipped
\* in the count.
THEOREM DetectionsOnlyAdvance == Spec => DetectionsAdvance
<1> DEFINE Advance == g_latest_dets' # g_latest_dets =>
                        /\ g_latest_dets'.of > g_latest_dets.of
                        /\ g_latest_dets'.nth = g_latest_dets.nth + 1
<1>1. TypeOK /\ IInv /\ [Next]_vars => [Advance]_vars
  <2> SUFFICES ASSUME TypeOK, IInv, Next, g_latest_dets' # g_latest_dets
               PROVE  Advance
    OBVIOUS
  <2>1. YoloPublishDets
    BY DEF Next, signal_handler, MainStep, Capture, CbStep, Acquire, Wakeup,
       YoloStep, Terminated, vars, detsVars, CbSkip, CbEnter, CbCopyTop,
       CbCopyBottom, CbNotify, CbReadDets, CbReadFps, CbEncode, CbGetPacket,
       CbSend, CbLeave, CbEmptyPacket, YoloInit, YoloLoop, YoloLock, YoloPredicate, YoloPark,
       YoloSpuriousWakeup, YoloBreak, YoloCopyTop, YoloCopyBottom, YoloInfer,
       YoloPublishFps, YoloUnload
  <2> QED
    BY <2>1, BoundsAssumption DEF YoloPublishDets, YoloGo, IInv, DetsInv, TypeOK, Detections
<1> QED
  BY <1>1, TypeCorrect, Inductive, PTL DEF Spec, DetectionsAdvance

\* The hand-over of frames implements the mailbox of one place: the end of
\* the callback's memcpy() is its Put, the end of the worker's its Take, and
\* no other step is visible to it.
THEOREM HandOverIsMailbox == Spec => ImplementsMailbox
<1>1. Init => Mailbox!Init
  BY DEF Init, Mailbox!Init
<1>2. TypeOK /\ TypeOK' /\ IInv /\ [Next]_vars
        => [Mailbox!Next]_(Mailbox!mailboxVars)
  <2> SUFFICES ASSUME TypeOK, TypeOK', IInv, [Next]_vars
               PROVE  [Mailbox!Next]_(Mailbox!mailboxVars)
    OBVIOUS
  <2>1. CASE CbStep /\ CbCopyBottom
    <3>1. Mailbox!Put
      BY <2>1, BoundsAssumption DEF CbStep, CbFrame, CbCopyBottom, CbGo,
         Mailbox!Put, IInv, FrameInv, TypeOK
    <3> QED
      BY <3>1 DEF Mailbox!Next
  <2>2. CASE YoloStep /\ YoloCopyBottom
    <3>1. Mailbox!Take
      BY <2>2 DEF YoloStep, YoloFrame, YoloCopyBottom, YoloGo, FrameTaken,
         Mailbox!Take, IInv, FrameInv, TypeOK
    <3> QED
      BY <3>1 DEF Mailbox!Next
  <2>3. CASE ~(CbStep /\ CbCopyBottom) /\ ~(YoloStep /\ YoloCopyBottom)
    <3>1. /\ UNCHANGED g_latest_nv12.bottom
          /\ UNCHANGED g_frame_ready
          /\ UNCHANGED local_nv12.bottom
      BY <2>3 DEF Next, signal_handler, MainStep, Capture, CbStep, Acquire,
         Wakeup, YoloStep, Terminated, vars, bufferVars, CbFrame, YoloFrame,
         CbSkip, CbEnter, CbCopyTop, CbNotify, CbReadDets, CbReadFps,
         CbEncode, CbGetPacket, CbSend, CbLeave, CbEmptyPacket, YoloInit, YoloLoop, YoloLock,
         YoloPredicate, YoloPark, YoloSpuriousWakeup, YoloBreak, YoloCopyTop,
         YoloInfer, YoloPublishDets, YoloPublishFps, YoloUnload, TypeOK
    <3> QED
      BY <3>1 DEF Mailbox!mailboxVars
  <2> QED
    BY <2>1, <2>2, <2>3
<1> QED
  BY <1>1, <1>2, TypeCorrect, Inductive, PTL
     DEF Spec, ImplementsMailbox, Mailbox!Spec
-----------------------------------------------------------------------------
(* Why a stop gets through: nobody is stuck, and every step counts.         *)

\* Nobody waits for somebody who waits, and no frame is missed by a sleeping
\* worker: who holds a mutex can always go on and release it.
THEOREM NobodyIsStuck == Spec => []NobodyStuck
<1>1. TypeOK /\ IInv => NobodyStuck
  <2> SUFFICES ASSUME TypeOK, IInv
               PROVE  NobodyStuck
    OBVIOUS
  <2> USE DEF TypeOK, IInv, LockInv, CbMayGo, YoloMayGo
  <2>1. cbPc \in {"frame", "dets"} => CbMayGo \/ YoloMayGo
    BY DEF Thread, CbPc, YoloPc
  <2>2. yoloPc \in {"lock", "publish"} => YoloMayGo \/ CbMayGo
    BY DEF Thread, CbPc, YoloPc
  <2>3. yoloPc = "blocked" /\ g_frame_ready => cbPc = "notify"
    BY DEF FrameInv
  <2>4. ASSUME g_stop
        PROVE  \/ MainMayGo \/ CbMayGo \/ YoloMayGo
               \/ mainPc \in {"done", "failed"}
               \/ mainPc = "join" /\ yoloPc = "blocked"
    <3>1. CASE mainPc \notin {"join", "stopping", "done", "failed"}
      BY <2>4, <3>1 DEF MainMayGo
    <3>2. CASE mainPc = "join"
      <4>1. CASE yoloPc \notin {"lock", "publish", "exited"}
        BY <3>2, <4>1
      <4>2. CASE yoloPc = "exited" \/ yoloPc \in {"lock", "publish"}
        BY <2>2, <3>2, <4>2 DEF MainMayGo
      <4> QED
        BY <3>2, <4>1, <4>2
    <3>3. CASE mainPc = "stopping"
      <4>1. CASE cbPc = "idle"
        BY <3>3, <4>1 DEF MainMayGo, CamStopped, InCallback, CamState
      <4>2. CASE cbPc # "idle"
        BY <2>1, <4>2
      <4> QED
        BY <4>1, <4>2
    <3> QED
      BY <3>1, <3>2, <3>3
  <2> QED
    BY <2>1, <2>2, <2>3, <2>4 DEF NobodyStuck
<1> QED
  BY <1>1, TypeCorrect, Inductive, PTL

\* After a stop every step decreases the steps that are left, but for a frame
\* that the callback drops.
LEMMA StopStep ==
  TypeOK /\ TypeOK' /\ LockInv /\ [Next]_vars /\ g_stop
    => \/ StepsLeft' < StepsLeft
       \/ UNCHANGED <<mainPc, cbPc, yoloPc, queued>>
<1> SUFFICES ASSUME TypeOK, TypeOK', LockInv, [Next]_vars, g_stop
             PROVE  \/ StepsLeft' < StepsLeft
                    \/ UNCHANGED <<mainPc, cbPc, yoloPc, queued>>
  OBVIOUS
<1> DEFINE MLeft == MainLeft[mainPc]
           YLeft == YoloLeft[yoloPc]
           CLeft == IF cbPc = "idle" THEN 0 ELSE CbLeft[cbPc] + 2 * queued
<1>1. MLeft \in Nat /\ MLeft' \in Nat
  BY DEF TypeOK, MainPc, MainLeft
<1>2. YLeft \in Nat /\ YLeft' \in Nat
  BY DEF TypeOK, YoloPc, YoloLeft
<1>3. CLeft \in Nat /\ CLeft' \in Nat
  BY DEF TypeOK, CbPc, CbLeft
<1>4. /\ StepsLeft = MLeft + YLeft + CLeft
      /\ StepsLeft' = MLeft' + YLeft' + CLeft'
  BY DEF StepsLeft
<1> SUFFICES \/ /\ MLeft' <= MLeft
                /\ YLeft' <= YLeft
                /\ CLeft' <= CLeft
                /\ (MLeft' < MLeft \/ YLeft' < YLeft \/ CLeft' < CLeft)
             \/ UNCHANGED <<mainPc, cbPc, yoloPc, queued>>
  BY <1>1, <1>2, <1>3, <1>4
<1> HIDE DEF MLeft, YLeft, CLeft
<1> USE DEF TypeOK
<1>5. CASE signal_handler
  BY <1>5 DEF signal_handler, cbVars
<1>6. CASE MainStep
  <2>1. MLeft' < MLeft
    BY <1>6 DEF MainStep, MainOpenCamera, MainSetUp, MainStartCamera,
       MainSeesStop, MainNotifyAll, MainJoinWorker, MainStopCamera,
       MainCameraStopped, MainDeinitEncoder, MainCloseSocket, MainGo, MLeft, MainLeft
  <2>2. YLeft' <= YLeft
    BY <1>2, <1>6 DEF MainStep, MainOpenCamera, MainSetUp, MainStartCamera,
       MainSeesStop, MainNotifyAll, MainJoinWorker, MainStopCamera,
       MainCameraStopped, MainDeinitEncoder, MainCloseSocket, MainGo, LockInv,
       Notify, YLeft, YoloLeft
  <2>3. CLeft' <= CLeft
    <3>1. UNCHANGED <<cbPc, queued>> \/ (cbPc = "idle" /\ UNCHANGED cbPc)
      BY <1>6 DEF MainStep, MainOpenCamera, MainSetUp, MainStartCamera,
         MainSeesStop, MainNotifyAll, MainJoinWorker, MainStopCamera,
         MainCameraStopped, MainDeinitEncoder, MainCloseSocket, MainGo, cbVars,
         LockInv, CamStopped, InCallback
    <3> QED
      BY <1>3, <3>1 DEF CLeft, CbLeft
  <2> QED
    BY <1>1, <1>2, <1>3, <2>1, <2>2, <2>3
<1>7. CASE Capture
  BY <1>7 DEF Capture, CbSkip, CbEnter, CbFrame
<1>8. CASE CbStep
  <2>1. CLeft' < CLeft
    BY <1>8, <1>3 DEF CbStep, CbCopyTop, CbCopyBottom, CbNotify, CbReadDets,
       CbReadFps, CbEncode, CbGetPacket, CbSend, CbLeave, CbEmptyPacket, CbGo, CLeft, CbLeft
  <2>2. YLeft' <= YLeft
    BY <1>2, <1>8 DEF CbStep, CbCopyTop, CbCopyBottom, CbNotify, CbReadDets,
       CbReadFps, CbEncode, CbGetPacket, CbSend, CbLeave, CbEmptyPacket, Notify, YLeft, YoloLeft
  <2>3. MLeft' <= MLeft
    BY <1>1, <1>8 DEF CbStep, CbFrame, MLeft, MainLeft
  <2> QED
    BY <1>1, <1>2, <1>3, <2>1, <2>2, <2>3
<1>9. CASE Acquire \/ Wakeup \/ YoloStep
  <2>1. YLeft' < YLeft
    BY <1>9 DEF Acquire, Wakeup, YoloStep, YoloInit, YoloLoop, YoloLock,
       YoloPredicate, WaitPredicate, YoloPark, YoloSpuriousWakeup, YoloBreak,
       YoloCopyTop, YoloCopyBottom, YoloInfer, YoloPublishDets,
       YoloPublishFps, YoloUnload, YoloGo, YLeft, YoloLeft
  <2>2. UNCHANGED <<mainPc, cbPc, queued>>
    BY <1>9 DEF Acquire, Wakeup, YoloStep, YoloFrame, cbVars
  <2> QED
    BY <1>1, <1>2, <1>3, <2>1, <2>2 DEF MLeft, MainLeft, CbLeft, CLeft
<1>10. CASE UNCHANGED vars \/ Terminated
  BY <1>10 DEF Terminated, vars, cbVars
<1> QED
  BY <1>5, <1>6, <1>7, <1>8, <1>9, <1>10 DEF Next

\* A stop only advances: with NobodyStuck this is all of StopEndsOrSleeps that
\* does not speak of fairness.
THEOREM StopOnlyAdvances == Spec => StopAdvances
<1> DEFINE Advance == g_stop => \/ StepsLeft' < StepsLeft
                                \/ UNCHANGED <<mainPc, cbPc, yoloPc, queued>>
<1>1. TypeOK /\ TypeOK' /\ IInv /\ [Next]_vars => [Advance]_vars
  BY StopStep DEF IInv
<1>2. TypeOK => StepsLeft \in Nat
  BY BoundsAssumption DEF TypeOK, MainPc, CbPc, YoloPc, StepsLeft, MainLeft, CbLeft, YoloLeft
<1> QED
  BY <1>1, <1>2, TypeCorrect, Inductive, NobodyIsStuck, PTL DEF Spec, StopAdvances
=============================================================================
