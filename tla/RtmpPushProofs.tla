--------------------------- MODULE RtmpPushProofs ---------------------------
(***************************************************************************)
(* Theorems about RtmpPush, for any number of frames.  The parts of IInv    *)
(* do not depend on each other and are proved one by one.                   *)
(***************************************************************************)
EXTENDS RtmpPush, TLAPS

\* Every step keeps the types.
LEMMA TypeStep ==
  TypeOK /\ [Next]_vars => TypeOK'
<1> SUFFICES ASSUME TypeOK, [Next]_vars
             PROVE  TypeOK'
  OBVIOUS
<1> USE MaxFramesAssumption DEF TypeOK, MainPc, CbPc, CamState
<1>1. CASE signal_handler
  BY <1>1 DEF signal_handler, statsVars, serverVars
<1>2. CASE SessionLost \/ SessionRestored
  BY <1>2 DEF SessionLost, SessionRestored, statsVars, serverVars
<1>3. CASE MainStep
  <2> USE <1>3 DEF MainGo, MainFrame, statsVars, serverVars
  <2>1. CASE OpenCamera
    BY <2>1 DEF MainStep, OpenCamera, CamOpen
  <2>2. CASE FirstConnect
    BY <2>2 DEF MainStep, FirstConnect
  <2>3. CASE StartCamera
    BY <2>3 DEF MainStep, StartCamera, CamStart, LoopHead
  <2>4. CASE Abort
    BY <2>4 DEF MainStep, Abort
  <2>5. CASE ReportSecond
    BY <2>5 DEF MainStep, ReportSecond, CanLock
  <2>6. CASE NoReconnect
    BY <2>6 DEF MainStep, NoReconnect, LoopHead
  <2>7. CASE BeginReconnect
    BY <2>7 DEF MainStep, BeginReconnect
  <2>8. CASE Disconnect
    BY <2>8 DEF MainStep, Disconnect
  <2>9. CASE WaitBeforeReconnect
    BY <2>9 DEF MainStep, WaitBeforeReconnect
  <2>10. CASE ReconnectFails
    BY <2>10 DEF MainStep, ReconnectFails, LoopHead
  <2>11. CASE SetConnected
    BY <2>11 DEF MainStep, SetConnected
  <2>12. CASE CountReconnect
    BY <2>12 DEF MainStep, CountReconnect, CanLock, LoopHead
  <2>13. CASE StopCamera
    BY <2>13 DEF MainStep, StopCamera, CamStopRequest
  <2>14. CASE CameraStopped
    BY <2>14 DEF MainStep, CameraStopped, CamStopped
  <2>15. CASE HangUp
    BY <2>15 DEF MainStep, HangUp
  <2>16. CASE ResetSecond
    BY <2>16 DEF MainStep, ResetSecond, NextSecond
  <2> QED
    BY <2>1, <2>2, <2>3, <2>4, <2>5, <2>6, <2>7, <2>8, <2>9, <2>10, <2>11,
       <2>12, <2>13, <2>14, <2>15, <2>16 DEF MainStep
<1>4. CASE ReconnectStep
  BY <1>4 DEF ReconnectStep, Reconnect, MainGo, MainFrame, statsVars, serverVars
<1>5. CASE Capture
  BY <1>5 DEF Capture, SkipStopping, EnterCallback, CbGo, CbFrame, CamDeliver, statsVars, serverVars
<1>6. CASE CbStep
  <2> USE <1>6 DEF CbGo, CbFrame, statsVars, serverVars
  <2>1. CASE SkipDisconnected
    BY <2>1 DEF CbStep, SkipDisconnected, CamReturn
  <2>2. CASE BeginPush
    BY <2>2 DEF CbStep, BeginPush
  <2>3. CASE PushOk
    BY <2>3 DEF CbStep, PushOk
  <2>4. CASE PushFails
    BY <2>4 DEF CbStep, PushFails, PtsAfterFailure
  <2>5. CASE ClearConnected
    BY <2>5 DEF CbStep, ClearConnected, CamReturn
  <2>6. CASE CountFrame
    BY <2>6 DEF CbStep, CountFrame, CanLock
  <2>7. CASE CountInSecond
    BY <2>7 DEF CbStep, CountInSecond, CamReturn
  <2> QED
    BY <2>1, <2>2, <2>3, <2>4, <2>5, <2>6, <2>7 DEF CbStep
<1>7. CASE UNCHANGED vars \/ Terminated
  BY <1>7 DEF Terminated, vars, statsVars, serverVars
<1> QED
  BY <1>1, <1>2, <1>3, <1>4, <1>5, <1>6, <1>7 DEF Next

\* Every step keeps the flag, the session and the threads in accord.
LEMMA SessionStep ==
  TypeOK /\ SessionInv /\ [Next]_vars => SessionInv'
<1> SUFFICES ASSUME TypeOK, SessionInv, [Next]_vars
             PROVE  SessionInv'
  OBVIOUS
<1> USE DEF SessionInv, TypeOK, InCallback, CamStopped, CamState
<1>1. CASE signal_handler
  BY <1>1 DEF signal_handler, statsVars, serverVars
<1>2. CASE SessionLost \/ SessionRestored
  BY <1>2 DEF SessionLost, SessionRestored, statsVars, serverVars
<1>3. CASE MainStep
  <2> USE <1>3 DEF MainGo, MainFrame, statsVars, serverVars
  <2>1. CASE OpenCamera
    BY <2>1 DEF MainStep, OpenCamera, CamOpen
  <2>2. CASE FirstConnect
    BY <2>2 DEF MainStep, FirstConnect
  <2>3. CASE StartCamera
    BY <2>3 DEF MainStep, StartCamera, CamStart, LoopHead
  <2>4. CASE Abort
    BY <2>4 DEF MainStep, Abort
  <2>5. CASE ReportSecond
    BY <2>5 DEF MainStep, ReportSecond, CanLock
  <2>6. CASE NoReconnect
    BY <2>6 DEF MainStep, NoReconnect, LoopHead
  <2>7. CASE BeginReconnect
    BY <2>7 DEF MainStep, BeginReconnect
  <2>8. CASE Disconnect
    BY <2>8 DEF MainStep, Disconnect
  <2>9. CASE WaitBeforeReconnect
    BY <2>9 DEF MainStep, WaitBeforeReconnect
  <2>10. CASE ReconnectFails
    BY <2>10 DEF MainStep, ReconnectFails, LoopHead
  <2>11. CASE SetConnected
    BY <2>11 DEF MainStep, SetConnected
  <2>12. CASE CountReconnect
    BY <2>12 DEF MainStep, CountReconnect, CanLock, LoopHead
  <2>13. CASE StopCamera
    BY <2>13 DEF MainStep, StopCamera, CamStopRequest
  <2>14. CASE CameraStopped
    BY <2>14 DEF MainStep, CameraStopped, CamStopped
  <2>15. CASE HangUp
    BY <2>15 DEF MainStep, HangUp
  <2>16. CASE ResetSecond
    BY <2>16 DEF MainStep, ResetSecond, NextSecond
  <2> QED
    BY <2>1, <2>2, <2>3, <2>4, <2>5, <2>6, <2>7, <2>8, <2>9, <2>10, <2>11,
       <2>12, <2>13, <2>14, <2>15, <2>16 DEF MainStep
<1>4. CASE ReconnectStep
  BY <1>4 DEF ReconnectStep, Reconnect, MainGo, MainFrame, statsVars, serverVars
<1>5. CASE Capture
  BY <1>5 DEF Capture, SkipStopping, EnterCallback, CbGo, CbFrame, CamDeliver, statsVars, serverVars
<1>6. CASE CbStep
  <2> USE <1>6 DEF CbGo, CbFrame, statsVars, serverVars
  <2>1. CASE SkipDisconnected
    BY <2>1 DEF CbStep, SkipDisconnected, CamReturn
  <2>2. CASE BeginPush
    BY <2>2 DEF CbStep, BeginPush
  <2>3. CASE PushOk
    BY <2>3 DEF CbStep, PushOk
  <2>4. CASE PushFails
    BY <2>4 DEF CbStep, PushFails, PtsAfterFailure
  <2>5. CASE ClearConnected
    BY <2>5 DEF CbStep, ClearConnected, CamReturn
  <2>6. CASE CountFrame
    BY <2>6 DEF CbStep, CountFrame, CanLock
  <2>7. CASE CountInSecond
    BY <2>7 DEF CbStep, CountInSecond, CamReturn
  <2> QED
    BY <2>1, <2>2, <2>3, <2>4, <2>5, <2>6, <2>7 DEF CbStep
<1>7. CASE UNCHANGED vars \/ Terminated
  BY <1>7 DEF Terminated, vars, statsVars, serverVars
<1> QED
  BY <1>1, <1>2, <1>3, <1>4, <1>5, <1>6, <1>7 DEF Next

\* Every step keeps the sums of the statistics: the lock keeps each section
\* that works on them whole.
LEMMA StatsStep ==
  TypeOK /\ MutexInv /\ StatsTrue /\ [Next]_vars => MutexInv' /\ StatsTrue'
<1> SUFFICES ASSUME TypeOK, MutexInv, StatsTrue, [Next]_vars
             PROVE  MutexInv' /\ StatsTrue'
  OBVIOUS
<1> USE DEF MutexInv, StatsTrue, TypeOK
<1>1. CASE signal_handler
  BY <1>1 DEF signal_handler, statsVars, serverVars
<1>2. CASE SessionLost \/ SessionRestored
  BY <1>2 DEF SessionLost, SessionRestored, statsVars, serverVars
<1>3. CASE MainStep
  <2> USE <1>3 DEF MainGo, MainFrame, statsVars, serverVars
  <2>1. CASE OpenCamera
    BY <2>1 DEF MainStep, OpenCamera, CamOpen
  <2>2. CASE FirstConnect
    BY <2>2 DEF MainStep, FirstConnect
  <2>3. CASE StartCamera
    BY <2>3 DEF MainStep, StartCamera, CamStart, LoopHead
  <2>4. CASE Abort
    BY <2>4 DEF MainStep, Abort
  <2>5. CASE ReportSecond
    BY <2>5 DEF MainStep, ReportSecond, CanLock
  <2>6. CASE NoReconnect
    BY <2>6 DEF MainStep, NoReconnect, LoopHead
  <2>7. CASE BeginReconnect
    BY <2>7 DEF MainStep, BeginReconnect
  <2>8. CASE Disconnect
    BY <2>8 DEF MainStep, Disconnect
  <2>9. CASE WaitBeforeReconnect
    BY <2>9 DEF MainStep, WaitBeforeReconnect
  <2>10. CASE ReconnectFails
    BY <2>10 DEF MainStep, ReconnectFails, LoopHead
  <2>11. CASE SetConnected
    BY <2>11 DEF MainStep, SetConnected
  <2>12. CASE CountReconnect
    BY <2>12 DEF MainStep, CountReconnect, CanLock, LoopHead
  <2>13. CASE StopCamera
    BY <2>13 DEF MainStep, StopCamera, CamStopRequest
  <2>14. CASE CameraStopped
    BY <2>14 DEF MainStep, CameraStopped, CamStopped
  <2>15. CASE HangUp
    BY <2>15 DEF MainStep, HangUp
  <2>16. CASE ResetSecond
    BY <2>16 DEF MainStep, ResetSecond, NextSecond
  <2> QED
    BY <2>1, <2>2, <2>3, <2>4, <2>5, <2>6, <2>7, <2>8, <2>9, <2>10, <2>11,
       <2>12, <2>13, <2>14, <2>15, <2>16 DEF MainStep
<1>4. CASE ReconnectStep
  BY <1>4 DEF ReconnectStep, Reconnect, MainGo, MainFrame, statsVars, serverVars
<1>5. CASE Capture
  BY <1>5 DEF Capture, SkipStopping, EnterCallback, CbGo, CbFrame, CamDeliver, statsVars, serverVars
<1>6. CASE CbStep
  <2> USE <1>6 DEF CbGo, CbFrame, statsVars, serverVars
  <2>1. CASE SkipDisconnected
    BY <2>1 DEF CbStep, SkipDisconnected, CamReturn
  <2>2. CASE BeginPush
    BY <2>2 DEF CbStep, BeginPush
  <2>3. CASE PushOk
    BY <2>3 DEF CbStep, PushOk
  <2>4. CASE PushFails
    BY <2>4 DEF CbStep, PushFails, PtsAfterFailure
  <2>5. CASE ClearConnected
    BY <2>5 DEF CbStep, ClearConnected, CamReturn
  <2>6. CASE CountFrame
    BY <2>6 DEF CbStep, CountFrame, CanLock
  <2>7. CASE CountInSecond
    BY <2>7 DEF CbStep, CountInSecond, CamReturn
  <2> QED
    BY <2>1, <2>2, <2>3, <2>4, <2>5, <2>6, <2>7 DEF CbStep
<1>7. CASE UNCHANGED vars \/ Terminated
  BY <1>7 DEF Terminated, vars, statsVars, serverVars
<1> QED
  BY <1>1, <1>2, <1>3, <1>4, <1>5, <1>6, <1>7 DEF Next

\* Every step keeps the next timestamp ahead of the stream.
LEMMA PtsStep ==
  TypeOK /\ PtsInv /\ [Next]_vars => PtsInv'
<1> SUFFICES ASSUME TypeOK, PtsInv, [Next]_vars
             PROVE  PtsInv'
  OBVIOUS
<1> USE DEF PtsInv, TypeOK
<1>1. CASE signal_handler
  BY <1>1 DEF signal_handler, statsVars, serverVars
<1>2. CASE SessionLost \/ SessionRestored
  BY <1>2 DEF SessionLost, SessionRestored, statsVars, serverVars
<1>3. CASE MainStep
  <2> USE <1>3 DEF MainGo, MainFrame, statsVars, serverVars
  <2>1. CASE OpenCamera
    BY <2>1 DEF MainStep, OpenCamera, CamOpen
  <2>2. CASE FirstConnect
    BY <2>2 DEF MainStep, FirstConnect
  <2>3. CASE StartCamera
    BY <2>3 DEF MainStep, StartCamera, CamStart, LoopHead
  <2>4. CASE Abort
    BY <2>4 DEF MainStep, Abort
  <2>5. CASE ReportSecond
    BY <2>5 DEF MainStep, ReportSecond, CanLock
  <2>6. CASE NoReconnect
    BY <2>6 DEF MainStep, NoReconnect, LoopHead
  <2>7. CASE BeginReconnect
    BY <2>7 DEF MainStep, BeginReconnect
  <2>8. CASE Disconnect
    BY <2>8 DEF MainStep, Disconnect
  <2>9. CASE WaitBeforeReconnect
    BY <2>9 DEF MainStep, WaitBeforeReconnect
  <2>10. CASE ReconnectFails
    BY <2>10 DEF MainStep, ReconnectFails, LoopHead
  <2>11. CASE SetConnected
    BY <2>11 DEF MainStep, SetConnected
  <2>12. CASE CountReconnect
    BY <2>12 DEF MainStep, CountReconnect, CanLock, LoopHead
  <2>13. CASE StopCamera
    BY <2>13 DEF MainStep, StopCamera, CamStopRequest
  <2>14. CASE CameraStopped
    BY <2>14 DEF MainStep, CameraStopped, CamStopped
  <2>15. CASE HangUp
    BY <2>15 DEF MainStep, HangUp
  <2>16. CASE ResetSecond
    BY <2>16 DEF MainStep, ResetSecond, NextSecond
  <2> QED
    BY <2>1, <2>2, <2>3, <2>4, <2>5, <2>6, <2>7, <2>8, <2>9, <2>10, <2>11,
       <2>12, <2>13, <2>14, <2>15, <2>16 DEF MainStep
<1>4. CASE ReconnectStep
  BY <1>4 DEF ReconnectStep, Reconnect, MainGo, MainFrame, statsVars, serverVars
<1>5. CASE Capture
  BY <1>5 DEF Capture, SkipStopping, EnterCallback, CbGo, CbFrame, CamDeliver, statsVars, serverVars
<1>6. CASE CbStep
  <2> USE <1>6 DEF CbGo, CbFrame, statsVars, serverVars
  <2>1. CASE SkipDisconnected
    BY <2>1 DEF CbStep, SkipDisconnected, CamReturn
  <2>2. CASE BeginPush
    BY <2>2 DEF CbStep, BeginPush
  <2>3. CASE PushOk
    BY <2>3 DEF CbStep, PushOk
  <2>4. CASE PushFails
    BY <2>4 DEF CbStep, PushFails, PtsAfterFailure
  <2>5. CASE ClearConnected
    BY <2>5 DEF CbStep, ClearConnected, CamReturn
  <2>6. CASE CountFrame
    BY <2>6 DEF CbStep, CountFrame, CanLock
  <2>7. CASE CountInSecond
    BY <2>7 DEF CbStep, CountInSecond, CamReturn
  <2> QED
    BY <2>1, <2>2, <2>3, <2>4, <2>5, <2>6, <2>7 DEF CbStep
<1>7. CASE UNCHANGED vars \/ Terminated
  BY <1>7 DEF Terminated, vars, statsVars, serverVars
<1> QED
  BY <1>1, <1>2, <1>3, <1>4, <1>5, <1>6, <1>7 DEF Next

-----------------------------------------------------------------------------
(* Theorems of the specification.                                          *)

\* The variables keep their kinds.
THEOREM TypeCorrect == Spec => []TypeOK
<1>1. ASSUME Init PROVE TypeOK
  <2>1. g_stop \in BOOLEAN /\ connected \in BOOLEAN
    BY <1>1, Zenon DEF Init
  <2> QED
    BY <1>1, <2>1, MaxFramesAssumption
       DEF Init, TypeOK, CamInit, CamState, MainPc, CbPc
<1> QED
  BY <1>1, TypeStep, PTL DEF Spec

\* IInv is an invariant.
THEOREM Inductive == Spec => []IInv
<1>1. Init => IInv
  BY DEF Init, IInv, SessionInv, MutexInv, StatsTrue, PtsInv, CamInit, InCallback,
     CamStopped
<1>2. TypeOK /\ IInv /\ [Next]_vars => IInv'
  BY SessionStep, StatsStep, PtsStep DEF IInv
<1> QED
  BY <1>1, <1>2, TypeCorrect, PTL DEF Spec

\* No push meets a call of main to the pusher, nor a session torn down.
THEOREM PushIsExclusive == Spec => []PusherExclusive
<1>1. IInv => PusherExclusive
  BY DEF IInv, SessionInv, PusherExclusive, MainUsesPusher, CamStopped,
     InCallback
<1> QED
  BY <1>1, Inductive, PTL

\* The statistics add up to what the server confirmed.
THEOREM StatsAddUp == Spec => []StatsTrue
  BY Inductive, PTL DEF IInv

\* The timestamps of the stream strictly increase, across reconnections and
\* for the frames whose push was not confirmed, too.
THEOREM PtsOnlyAdvance == Spec => TimestampsAdvance
<1> DEFINE Advance == /\ streamPts' >= streamPts
                      /\ delivered' # delivered => streamPts' > streamPts
<1>1. TypeOK /\ IInv /\ [Next]_vars => [Advance]_vars
  <2> SUFFICES ASSUME TypeOK, IInv, Next
               PROVE  Advance
    BY DEF vars
  <2>1. CASE PushOk \/ PushFails
    BY <2>1 DEF PushOk, PushFails, IInv, PtsInv, PtsAfterFailure, TypeOK
  <2>2. CASE UNCHANGED <<delivered, streamPts>>
    BY <2>2 DEF TypeOK
  <2> QED
    BY <2>1, <2>2 DEF Next, signal_handler, SessionLost, SessionRestored,
       MainStep, ReconnectStep, MainFrame, Capture, SkipStopping,
       EnterCallback, CbStep, SkipDisconnected, BeginPush, ClearConnected,
       CountFrame, CountInSecond, Terminated, vars, serverVars
<1> QED
  BY <1>1, TypeCorrect, Inductive, PTL DEF Spec, TimestampsAdvance

\* The pusher that two threads share without a lock is used as SharedPusher
\* promises: each step is one of its steps, or invisible to it.  In
\* particular no session is set up over one that was lost.
THEOREM PusherIsShared == Spec => ImplementsPusher
<1> DEFINE link == IF session = "down" THEN "down"
                   ELSE IF connected \/ mainPc = "store" THEN "up" ELSE "lost"
           push == CASE cbPc = "push"  -> "busy"
                     [] cbPc = "clear" -> "failed"
                     [] OTHER          -> "none"
<1>1. Init => Pusher!Init
  BY DEF Init, Pusher!Init
<1>2. TypeOK /\ TypeOK' /\ IInv /\ [Next]_vars
        => [Pusher!Next]_(Pusher!pusherVars)
  <2> SUFFICES ASSUME TypeOK, TypeOK', IInv, [Next]_vars
               PROVE  \/ UNCHANGED <<link, push>>
                      \/ /\ push = "none" /\ link = "down"
                         /\ link' = "up" /\ UNCHANGED push
                      \/ /\ push = "none" /\ link = "up"
                         /\ push' = "busy" /\ UNCHANGED link
                      \/ /\ push = "busy"
                         /\ push' \in {"none", "failed"} /\ UNCHANGED link
                      \/ /\ push = "failed"
                         /\ push' = "none" /\ link' = "lost"
                      \/ /\ push = "none" /\ link # "down"
                         /\ link' = "down" /\ UNCHANGED push
    BY DEF Pusher!Next, Pusher!Connect, Pusher!Begin, Pusher!End,
       Pusher!GiveUp, Pusher!Disconnect, Pusher!pusherVars
  <2> USE DEF TypeOK, IInv, SessionInv
  <2>1. CASE MainStep
    <3> USE <2>1 DEF MainGo, MainFrame
    <3>1. CASE FirstConnect
      <4>1. push = "none" /\ UNCHANGED push
        BY <3>1 DEF MainStep, FirstConnect, CamStopped, InCallback
      <4>2. (link = "down" /\ link' = "up") \/ UNCHANGED link
        BY <3>1 DEF FirstConnect
      <4> QED
        BY <4>1, <4>2
    <3>2. CASE Abort \/ HangUp \/ Disconnect
      <4>1. push = "none" /\ UNCHANGED push
        BY <3>2 DEF MainStep, Abort, HangUp, Disconnect, CamStopped, InCallback
      <4>2. (link # "down" /\ link' = "down") \/ UNCHANGED link
        BY <3>2 DEF Abort, HangUp, Disconnect
      <4> QED
        BY <4>1, <4>2
    <3>3. CASE UNCHANGED <<connected, session>> /\ mainPc # "store" /\ mainPc' # "store"
      BY <3>3 DEF MainStep
    <3>4. CASE SetConnected \/ CountReconnect
      BY <3>4 DEF MainStep, SetConnected, CountReconnect, LoopHead
    <3> QED
      BY <3>1, <3>2, <3>3, <3>4 DEF MainStep, OpenCamera, StartCamera,
         ReportSecond, ResetSecond, NoReconnect, BeginReconnect, WaitBeforeReconnect,
         ReconnectFails, StopCamera, CameraStopped, LoopHead
  <2>2. CASE ReconnectStep
    BY <2>2 DEF ReconnectStep, Reconnect, MainGo, MainFrame
  <2>3. CASE CbStep
    <3>1. UNCHANGED <<session, mainPc>>
      BY <2>3 DEF CbStep, CbFrame
    <3> USE <2>3, <3>1 DEF CbGo
    <3>2. CASE BeginPush
      <4>1. link = "up" /\ UNCHANGED link
        BY <3>2 DEF BeginPush, CamStopped, InCallback
      <4> QED
        BY <3>2, <4>1 DEF BeginPush
    <3>3. CASE PushOk \/ PushFails
      BY <3>3 DEF PushOk, PushFails
    <3>4. CASE ClearConnected
      <4>1. link' = "lost"
        BY <3>4 DEF ClearConnected, CamStopped, InCallback
      <4> QED
        BY <3>4, <4>1 DEF ClearConnected
    <3>5. CASE SkipDisconnected \/ CountFrame \/ CountInSecond
      BY <3>5 DEF SkipDisconnected, CountFrame, CountInSecond
    <3> QED
      BY <3>2, <3>3, <3>4, <3>5 DEF CbStep
  <2>4. CASE SessionLost \/ SessionRestored
    BY <2>4 DEF SessionLost, SessionRestored
  <2>5. CASE signal_handler \/ Capture \/ Terminated \/ UNCHANGED vars
    BY <2>5 DEF signal_handler, Capture, SkipStopping, EnterCallback, CbGo,
       CbFrame, Terminated, vars
  <2> QED
    BY <2>1, <2>2, <2>3, <2>4, <2>5 DEF Next
<1> QED
  BY <1>1, <1>2, TypeCorrect, Inductive, PTL
     DEF Spec, ImplementsPusher, Pusher!Spec

-----------------------------------------------------------------------------
(* Why a stop gets through.                                                *)

\* After a stop every step of the two threads decreases the steps left.
LEMMA StopStep ==
  TypeOK /\ TypeOK' /\ [Next]_vars /\ g_stop
    => StepsLeft' < StepsLeft \/ UNCHANGED <<mainPc, cbPc>>
<1> SUFFICES ASSUME TypeOK, TypeOK', [Next]_vars, g_stop
             PROVE  StepsLeft' < StepsLeft \/ UNCHANGED <<mainPc, cbPc>>
  OBVIOUS
<1> DEFINE MLeft == MainLeft[mainPc]
           CLeft == CbLeft[cbPc]
<1>1. MLeft \in Nat /\ MLeft' \in Nat
  BY DEF TypeOK, MainPc, MainLeft
<1>2. CLeft \in Nat /\ CLeft' \in Nat
  BY DEF TypeOK, CbPc, CbLeft
<1>3. StepsLeft = MLeft + CLeft /\ StepsLeft' = MLeft' + CLeft'
  BY DEF StepsLeft
<1>4. CASE MainStep \/ ReconnectStep
  <2>1. MLeft' < MLeft
    BY <1>4 DEF MainStep, ReconnectStep, OpenCamera, FirstConnect,
       StartCamera, Abort, ReportSecond, ResetSecond, NoReconnect,
       BeginReconnect, Disconnect, WaitBeforeReconnect, ReconnectFails, Reconnect,
       SetConnected, CountReconnect, StopCamera, CameraStopped, HangUp,
       LoopHead, MainGo, MainLeft
  <2>2. CLeft' = CLeft
    BY <1>4 DEF MainStep, ReconnectStep, MainFrame, CbLeft
  <2> QED
    BY <1>1, <1>2, <1>3, <2>1, <2>2
<1>5. CASE CbStep
  <2>1. CLeft' < CLeft
    BY <1>5 DEF CbStep, SkipDisconnected, BeginPush, PushOk, PushFails,
       ClearConnected, CountFrame, CountInSecond, CbGo, CbLeft
  <2>2. MLeft' = MLeft
    BY <1>5 DEF CbStep, CbFrame, MainLeft
  <2> QED
    BY <1>1, <1>2, <1>3, <2>1, <2>2
<1>6. CASE signal_handler \/ SessionLost \/ SessionRestored \/ Capture
            \/ Terminated \/ UNCHANGED vars
  BY <1>6 DEF signal_handler, SessionLost, SessionRestored, Capture,
     SkipStopping, EnterCallback, CbFrame, Terminated, vars
<1> QED
  BY <1>4, <1>5, <1>6 DEF Next

\* A stop only advances: all of StopEnds that does not speak of fairness.
THEOREM StopOnlyAdvances == Spec => StopAdvances
<1> DEFINE Advance == g_stop => \/ StepsLeft' < StepsLeft
                                \/ UNCHANGED <<mainPc, cbPc>>
<1>1. TypeOK /\ TypeOK' /\ [Next]_vars => [Advance]_vars
  BY StopStep
<1>2. TypeOK /\ IInv => (MainWaits => cbPc # "idle" /\ ~CbWaits)
  BY DEF TypeOK, IInv, SessionInv, MutexInv, MainWaits, CbWaits, CamStopped,
     InCallback, CamState
<1>3. TypeOK /\ IInv => (CbWaits => mainPc \notin {"done", "failed"} /\ ~MainWaits)
  BY DEF TypeOK, IInv, SessionInv, MutexInv, MainWaits, CbWaits, CamStopped,
     InCallback, CamState
<1>4. TypeOK => StepsLeft \in Nat
  BY DEF TypeOK, MainPc, CbPc, StepsLeft, MainLeft, CbLeft
<1> QED
  BY <1>1, <1>2, <1>3, <1>4, TypeCorrect, Inductive, PTL DEF Spec, StopAdvances
=============================================================================
