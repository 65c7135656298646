---------------------------- MODULE ProgramsProofs ----------------------------
(***************************************************************************)
(* The programs on the board, for every number of frames, bytes, samples    *)
(* and clients: the invariants of the two servers and of the four programs  *)
(* without a camera, and the theorems about all nine.                       *)
(*                                                                         *)
(* The invariants of the servers say, for each list of what main() still    *)
(* has to stop, which of the parts run.                                     *)
(***************************************************************************)
EXTENDS CameraProgramsProofs, FiniteSetTheorems

-----------------------------------------------------------------------------
\* The operators on finite sets are those of the server's module.
LEMMA SameFiniteSets ==
  ASSUME NEW S
  PROVE  (Rtsp!IsFiniteSet(S) <=> IsFiniteSet(S)) /\ Rtsp!Cardinality(S) = Cardinality(S)
<1>1. Rtsp!IsFiniteSet(S) <=> IsFiniteSet(S)
  BY DEF Rtsp!IsFiniteSet, IsFiniteSet
<1>2. Rtsp!Cardinality(S) = Cardinality(S)
  BY DEF Rtsp!Cardinality, Cardinality
<1> QED
  BY <1>1, <1>2

(* The RTSP service, which both servers use.                               *)

\* What the service does to its variables.
ServiceStep ==
  \/ Rtsp!RtspStart \/ Rtsp!RtspStop \/ (\E pts \in Nat : Rtsp!RtspPush(pts))
  \/ \E c \in Client : \/ Rtsp!Told(c, DefaultPort) \/ Rtsp!Told(c, ServerPort)
                       \/ Rtsp!Connect(c) \/ Rtsp!Leave(c)
  \/ UNCHANGED Rtsp!rtspVars

LEMMA RtspServiceKept ==
  ASSUME Rtsp!RtspTypeOK, Rtsp!Ports, ServiceStep
  PROVE  Rtsp!RtspTypeOK'
<1> USE DEF Rtsp!RtspTypeOK, Rtsp!Ports
<1>1. CASE Rtsp!RtspStart
  BY <1>1 DEF Rtsp!RtspStart
<1>2. CASE Rtsp!RtspStop
  BY <1>2 DEF Rtsp!RtspStop
<1>3. ASSUME NEW pts \in Nat, Rtsp!RtspPush(pts) PROVE Rtsp!RtspTypeOK'
  <2>1. \A d \in Client : Append(seen[d], pts) \in Seq(Nat)
    OBVIOUS
  <2> QED
    BY <1>3, <2>1 DEF Rtsp!RtspPush
<1>4. ASSUME NEW c \in Client, Rtsp!Told(c, DefaultPort) \/ Rtsp!Told(c, ServerPort)
      PROVE  Rtsp!RtspTypeOK'
  BY <1>4 DEF Rtsp!Told
<1>5. ASSUME NEW c \in Client, Rtsp!Connect(c) PROVE Rtsp!RtspTypeOK'
  BY <1>5 DEF Rtsp!Connect
<1>6. ASSUME NEW c \in Client, Rtsp!Leave(c) PROVE Rtsp!RtspTypeOK'
  BY <1>6 DEF Rtsp!Leave
<1>7. CASE UNCHANGED Rtsp!rtspVars
  BY <1>7 DEF Rtsp!rtspVars
<1> QED
  BY <1>1, <1>2, <1>3, <1>4, <1>5, <1>6, <1>7 DEF ServiceStep

\* The lists of what main() has to stop, and what is left after one step.
LEMMA Lists ==
  /\ <<"camera", "rtsp">> \in Seq({"rtsp", "camera"}) /\ <<"camera">> \in Seq({"rtsp", "camera"})
  /\ <<"rtsp">> \in Seq({"rtsp", "camera"}) /\ <<>> \in Seq({"rtsp", "camera"})
  /\ Head(<<"camera", "rtsp">>) = "camera" /\ Tail(<<"camera", "rtsp">>) = <<"rtsp">>
  /\ Head(<<"camera">>) = "camera" /\ Tail(<<"camera">>) = <<>>
  /\ Head(<<"rtsp">>) = "rtsp" /\ Tail(<<"rtsp">>) = <<>>
  /\ <<"camera", "rtsp">> # <<>> /\ <<"camera">> # <<>> /\ <<"rtsp">> # <<>>
OBVIOUS

-----------------------------------------------------------------------------
(* rtsp_server.                                                            *)

\* What runs, by the place of main and by what it still has to stop.
RtspPhase ==
  /\ callback # "idle" => Rtsp!Running
  /\ callback = "count" => frame_count < MaxFrames
  /\ main = "open" => cam = "closed" /\ ~Rtsp!Running
  /\ main = "rtsp" => cam = "open" /\ ~Rtsp!Running
  /\ main = "camera" => cam = "open" /\ Rtsp!Running
  /\ main = "serve" => Rtsp!Running
  /\ main \in {"open", "rtsp", "camera", "serve"} => todo = <<>>
  /\ main \in {"stop", "stopping"} =>
       \/ todo = <<"camera", "rtsp">> /\ Rtsp!Running
       \/ todo = <<"camera">> /\ Rtsp!CamStopped /\ ~Rtsp!Running
       \/ todo = <<"rtsp">> /\ main = "stop" /\ Rtsp!CamStopped /\ Rtsp!Running
       \/ todo = <<>> /\ main = "stop" /\ Rtsp!CamStopped /\ ~Rtsp!Running
  /\ main = "stopping" => cam \notin {"running", "delivering"}
  /\ main = "returned" => todo = <<>> /\ Rtsp!CamStopped /\ ~Rtsp!Running

RtspControl ==
  /\ Rtsp!RtspTypeOK
  /\ cam \in Rtsp!CamState
  /\ callback \in {"idle", "count", "status"} /\ (callback # "idle" <=> Rtsp!InCallback)
  /\ main \in {"open", "rtsp", "camera", "serve", "stop", "stopping", "returned"}
  /\ frame_count \in 0..MaxFrames /\ pts_us = frame_count
  /\ joined \in [Client -> 0..MaxFrames]
  /\ status.pushed \in 0..MaxFrames /\ status.clients \in 0..Cardinality(Client)
  /\ RtspPhase

RtspInv == g_stop \in BOOLEAN /\ RtspControl

LEMMA RtspStarts == Rtsp!Init => RtspInv
<1> SUFFICES ASSUME Rtsp!Init PROVE RtspInv
  OBVIOUS
<1>1. /\ Rtsp!Ports /\ IsFiniteSet(Client) /\ MaxFrames \in Nat
      /\ Cardinality(Client) \in Nat
  BY ProgramsAssumption, SameFiniteSets, FS_CardinalityType DEF Rtsp!Bounds
<1>2. g_stop \in BOOLEAN
  BY Zenon DEF Rtsp!Init
<1>3. Rtsp!RtspTypeOK
  BY <1>1 DEF Rtsp!Init, Rtsp!RtspInit, Rtsp!RtspTypeOK, Rtsp!Ports
<1>4. joined \in [Client -> 0..MaxFrames]
  BY <1>1 DEF Rtsp!Init
<1> QED
  BY <1>1, <1>2, <1>3, <1>4 DEF Rtsp!Init, Rtsp!RtspInit, Rtsp!CamInit, RtspInv, RtspControl,
     RtspPhase, Rtsp!CamState, Rtsp!InCallback, Rtsp!CamStopped, Rtsp!Running, Rtsp!NoStatus

LEMMA RtspKept ==
  ASSUME RtspInv, Rtsp!Next
  PROVE  RtspInv'
<1>1. /\ Rtsp!Ports /\ IsFiniteSet(Client) /\ MaxFrames \in Nat
      /\ StatusEvery \in Nat \ {0} /\ Cardinality(Client) \in Nat
  BY ProgramsAssumption, SameFiniteSets, FS_CardinalityType DEF Rtsp!Bounds
<1>2. g_stop' \in BOOLEAN
  BY Zenon DEF RtspInv, Rtsp!Next, Rtsp!MainStep, Rtsp!CallbackStep, Rtsp!OpenCamera,
     Rtsp!StartRtsp, Rtsp!StartCamera, Rtsp!LeaveLoop, Rtsp!StopRtsp, Rtsp!RequestStop,
     Rtsp!CameraStopped, Rtsp!Return, Rtsp!Deliver, Rtsp!Count, Rtsp!PrintStatus,
     Rtsp!signal_handler, Rtsp!StartPlayer, Rtsp!Join, Rtsp!Part, Rtsp!Terminated, Rtsp!vars
<1>3. SUFFICES RtspControl'
  BY <1>2 DEF RtspInv
<1>4. Rtsp!RtspTypeOK'
  <2>1. ServiceStep
    BY DEF ServiceStep, Rtsp!Next, Rtsp!MainStep, Rtsp!CallbackStep, Rtsp!OpenCamera,
     Rtsp!StartRtsp, Rtsp!StartCamera, Rtsp!LeaveLoop, Rtsp!StopRtsp, Rtsp!RequestStop,
     Rtsp!CameraStopped, Rtsp!Return, Rtsp!Deliver, Rtsp!Count, Rtsp!PrintStatus,
     Rtsp!signal_handler, Rtsp!StartPlayer, Rtsp!Join, Rtsp!Part, Rtsp!Terminated, Rtsp!vars,
     Rtsp!printed_url_port
  <2> QED
    BY <1>1, <2>1, RtspServiceKept DEF RtspInv, RtspControl
<1>5. Rtsp!client_count \in 0..Cardinality(Client)
  <2>1. watching \subseteq Client
    BY DEF RtspInv, RtspControl, Rtsp!RtspTypeOK
  <2>2. IsFiniteSet(watching) /\ Cardinality(watching) <= Cardinality(Client)
    BY <1>1, <2>1, FS_Subset
  <2>3. Cardinality(watching) \in Nat
    BY <2>2, FS_CardinalityType
  <2>4. Rtsp!client_count = Cardinality(watching)
    BY SameFiniteSets DEF Rtsp!client_count
  <2> QED
    BY <1>1, <2>2, <2>3, <2>4
<1> USE <1>1, <1>4 DEF RtspInv, RtspControl, RtspPhase, Rtsp!CamState, Rtsp!InCallback,
        Rtsp!CamStopped, Rtsp!Running, Rtsp!counters, Rtsp!rtspVars
<1>6. CASE Rtsp!OpenCamera
  BY <1>6 DEF Rtsp!OpenCamera, Rtsp!CamOpen
<1>7. CASE Rtsp!StartRtsp
  BY <1>7 DEF Rtsp!StartRtsp, Rtsp!RtspStart, Rtsp!Ports
<1>8. CASE Rtsp!StartCamera
  BY <1>8 DEF Rtsp!StartCamera, Rtsp!CamStart, Rtsp!StopAfterFailure
<1>9. CASE Rtsp!LeaveLoop
  BY <1>9 DEF Rtsp!LeaveLoop, Rtsp!StopOrder
<1>10. CASE Rtsp!StopRtsp
  BY <1>10, Lists DEF Rtsp!StopRtsp, Rtsp!RtspStop
<1>11. CASE Rtsp!RequestStop
  BY <1>11 DEF Rtsp!RequestStop, Rtsp!CamStopRequest
<1>12. CASE Rtsp!CameraStopped
  BY <1>12, Lists DEF Rtsp!CameraStopped
<1>13. CASE Rtsp!Return
  BY <1>13 DEF Rtsp!Return
<1>14. CASE Rtsp!Deliver
  BY <1>14 DEF Rtsp!Deliver, Rtsp!CamDeliver
<1>15. CASE Rtsp!Count
  BY <1>15 DEF Rtsp!Count, Rtsp!CamReturn, Rtsp!Counted
<1>16. CASE Rtsp!PrintStatus
  BY <1>16, <1>5 DEF Rtsp!PrintStatus, Rtsp!CamReturn
<1>17. CASE Rtsp!signal_handler
  BY <1>17 DEF Rtsp!signal_handler
<1>18. CASE Rtsp!Terminated
  BY <1>18 DEF Rtsp!Terminated, Rtsp!vars
<1>19. ASSUME NEW c \in Client, Rtsp!StartPlayer(c) PROVE RtspControl'
  BY <1>19 DEF Rtsp!StartPlayer, Rtsp!Told
<1>20. ASSUME NEW c \in Client, Rtsp!Join(c) PROVE RtspControl'
  BY <1>20 DEF Rtsp!Join, Rtsp!Connect
<1>21. ASSUME NEW c \in Client, Rtsp!Part(c) PROVE RtspControl'
  BY <1>21 DEF Rtsp!Part, Rtsp!Leave
<1> QED
  BY <1>6, <1>7, <1>8, <1>9, <1>10, <1>11, <1>12, <1>13, <1>14, <1>15,
     <1>16, <1>17, <1>18, <1>19, <1>20, <1>21 DEF Rtsp!Next, Rtsp!MainStep, Rtsp!CallbackStep

LEMMA RtspSafe ==
  ASSUME RtspInv
  PROVE  Rtsp!TypeOK /\ Rtsp!StatusOfRunningServer /\ Rtsp!NothingOutlivesMain
<1>1. todo \in Seq({"rtsp", "camera"})
  BY Lists DEF RtspInv, RtspControl, RtspPhase
<1>2. Rtsp!TypeOK
  <2>1. status.clients \in 0..Rtsp!Cardinality(Client)
    BY SameFiniteSets DEF RtspInv, RtspControl
  <2> QED
    BY <1>1, <2>1 DEF RtspInv, RtspControl, Rtsp!TypeOK, Rtsp!InCallback
<1>3. Rtsp!StatusOfRunningServer /\ Rtsp!NothingOutlivesMain
  BY DEF RtspInv, RtspControl, RtspPhase, Rtsp!StatusOfRunningServer, Rtsp!NothingOutlivesMain
<1> QED
  BY <1>2, <1>3

LEMMA ListLengths ==
  /\ Len(<<"onvif", "rtsp", "camera">>) = 3 /\ Len(<<"camera", "rtsp">>) = 2
  /\ Len(<<"rtsp", "camera">>) = 2 /\ Len(<<"camera">>) = 1 /\ Len(<<"rtsp">>) = 1
  /\ Len(<<>>) = 0
OBVIOUS

\* One part less to stop, of whatever list.
LEMMA OneStopped ==
  ASSUME NEW S, NEW s \in Seq(S), s # <<>>
  PROVE  Len(s) \in Nat /\ Len(Tail(s)) \in Nat /\ Len(Tail(s)) = Len(s) - 1
BY LenProperties, HeadTailProperties

\* The server is stopped after its camera, wherever a start failed.
LEMMA RtspScope ==
  ASSUME program = "rtsp_server", program' = program, RtspInv, Rtsp!Next
  PROVE  CallbackData!Next \/ UNCHANGED CallbackData!scopeVars
<1> DEFINE scope  == Scope(Rtsp!Running, {"open", "rtsp"})
           inside == cam \in {"delivering", "draining"}
<1>1. DataScope = scope /\ DataScope' = scope'
  BY DEF DataScope
<1>2. Rtsp!Ports
  BY ProgramsAssumption DEF Rtsp!Bounds
<1> USE <1>2 DEF RtspInv, RtspControl, RtspPhase, Rtsp!CamState, Rtsp!InCallback,
        Rtsp!CamStopped, Rtsp!Running, Rtsp!counters, Rtsp!rtspVars, Rtsp!Ports, Scope
<1>3. CASE Rtsp!OpenCamera
  BY <1>1, <1>3 DEF Rtsp!OpenCamera, Rtsp!CamOpen, CallbackData!Next, CallbackData!Abandon,
     CallbackData!scopeVars
<1>4. CASE Rtsp!StartRtsp
  BY <1>1, <1>4 DEF Rtsp!StartRtsp, Rtsp!RtspStart, CallbackData!Next, CallbackData!Open,
     CallbackData!Abandon
<1>5. CASE Rtsp!StartCamera
  BY <1>1, <1>5 DEF Rtsp!StartCamera, Rtsp!CamStart, CallbackData!scopeVars
<1>6. CASE Rtsp!StopRtsp
  BY <1>1, <1>6, Lists DEF Rtsp!StopRtsp, Rtsp!RtspStop, CallbackData!Next,
     CallbackData!Close
<1>7. CASE Rtsp!RequestStop
  BY <1>1, <1>7 DEF Rtsp!RequestStop, Rtsp!CamStopRequest, CallbackData!scopeVars
<1>8. CASE Rtsp!Deliver
  BY <1>1, <1>8 DEF Rtsp!Deliver, Rtsp!CamDeliver, CallbackData!Next, CallbackData!Enter
<1>9. CASE Rtsp!Count
  BY <1>1, <1>9 DEF Rtsp!Count, Rtsp!CamReturn, CallbackData!Next, CallbackData!Leave,
     CallbackData!scopeVars
<1>10. CASE Rtsp!PrintStatus
  BY <1>1, <1>10 DEF Rtsp!PrintStatus, Rtsp!CamReturn, CallbackData!Next, CallbackData!Leave
<1>11. CASE Rtsp!LeaveLoop \/ Rtsp!CameraStopped \/ Rtsp!Return
  BY <1>1, <1>11 DEF Rtsp!LeaveLoop, Rtsp!CameraStopped, Rtsp!Return, CallbackData!scopeVars
<1>12. CASE \/ Rtsp!signal_handler \/ Rtsp!Terminated
            \/ \E c \in Client : Rtsp!StartPlayer(c) \/ Rtsp!Join(c) \/ Rtsp!Part(c)
  <2>1. UNCHANGED <<main, cam, port>>
    BY <1>12 DEF Rtsp!signal_handler, Rtsp!Terminated, Rtsp!vars, Rtsp!StartPlayer, Rtsp!Told,
       Rtsp!Join, Rtsp!Connect, Rtsp!Part, Rtsp!Leave
  <2> QED
    BY <1>1, <2>1 DEF CallbackData!scopeVars
<1> QED
  BY <1>3, <1>4, <1>5, <1>6, <1>7, <1>8, <1>9, <1>10, <1>11, <1>12
     DEF Rtsp!Next, Rtsp!MainStep, Rtsp!CallbackStep

\* Every step of main brings its return closer, wherever a start failed.
LEMMA RtspEnd ==
  ASSUME RtspInv, Rtsp!Next
  PROVE  /\ Rtsp!MainStep => Rtsp!MainLeft' < Rtsp!MainLeft
         /\ ~Rtsp!MainStep => Rtsp!MainLeft' = Rtsp!MainLeft
<1>1. /\ todo \in Seq({"rtsp", "camera"}) /\ Len(todo) \in Nat
      /\ main \notin {"stop", "stopping"} => todo = <<>>
      /\ main = "stopping" => todo # <<>>
  <2>1. todo \in Seq({"rtsp", "camera"})
    BY RtspSafe DEF Rtsp!TypeOK
  <2> QED
    BY <2>1, LenProperties, Lists DEF RtspInv, RtspControl, RtspPhase
<1>2. CASE Rtsp!OpenCamera \/ Rtsp!StartRtsp \/ Rtsp!StartCamera \/ Rtsp!LeaveLoop
  <2>1. todo = <<>> /\ Len(todo) = 0
    BY <1>1, <1>2, ListLengths DEF Rtsp!OpenCamera, Rtsp!StartRtsp, Rtsp!StartCamera,
       Rtsp!LeaveLoop, Rtsp!StopAfterFailure, Rtsp!StopOrder
  <2>2. \/ todo' = todo /\ <<main, main'>> \in {<<"open", "rtsp">>, <<"open", "stop">>,
                                            <<"rtsp", "camera">>, <<"camera", "serve">>}
        \/ main = "rtsp" /\ main' = "stop" /\ todo' = <<"camera">>
        \/ main = "camera" /\ main' = "stop" /\ todo' = <<"rtsp">>
        \/ main = "serve" /\ main' = "stop" /\ todo' = <<"camera", "rtsp">>
    BY <1>2, <2>1 DEF Rtsp!OpenCamera, Rtsp!StartRtsp, Rtsp!StartCamera,
       Rtsp!LeaveLoop, Rtsp!StopAfterFailure, Rtsp!StopOrder
  <2>3. CASE todo' = todo
    BY <1>2, <2>1, <2>2, <2>3 DEF Rtsp!MainLeft, Rtsp!MainStep
  <2>4. CASE main = "rtsp" /\ main' = "stop" /\ todo' = <<"camera">>
    <3>1. Len(todo') = 1
      BY <2>4, ListLengths
    <3> QED
      BY <1>2, <2>1, <2>4, <3>1 DEF Rtsp!MainLeft, Rtsp!MainStep
  <2>5. CASE main = "camera" /\ main' = "stop" /\ todo' = <<"rtsp">>
    <3>1. Len(todo') = 1
      BY <2>5, ListLengths
    <3> QED
      BY <1>2, <2>1, <2>5, <3>1 DEF Rtsp!MainLeft, Rtsp!MainStep
  <2>6. CASE main = "serve" /\ main' = "stop" /\ todo' = <<"camera", "rtsp">>
    <3>1. Len(todo') = 2
      BY <2>6, ListLengths
    <3> QED
      BY <1>2, <2>1, <2>6, <3>1 DEF Rtsp!MainLeft, Rtsp!MainStep
  <2> QED
    BY <2>2, <2>3, <2>4, <2>5, <2>6
<1>3. CASE Rtsp!StopRtsp \/ Rtsp!CameraStopped
  <2>1. /\ todo # <<>> /\ todo' = Tail(todo)
        /\ \/ main = "stop" /\ main' = "stop"
           \/ main = "stopping" /\ main' = "stop"
    BY <1>1, <1>3 DEF Rtsp!StopRtsp, Rtsp!CameraStopped
  <2>2. Len(todo') \in Nat /\ Len(todo') = Len(todo) - 1
    BY <1>1, <2>1, OneStopped
  <2> QED
    BY <1>1, <1>3, <2>1, <2>2 DEF Rtsp!MainLeft, Rtsp!MainStep
<1>4. CASE Rtsp!RequestStop \/ Rtsp!Return
  <2>1. /\ todo' = todo
        /\ \/ main = "stop" /\ main' = "stopping"
           \/ main = "stop" /\ main' = "returned"
    BY <1>4 DEF Rtsp!RequestStop, Rtsp!Return
  <2> QED
    BY <1>1, <1>4, <2>1 DEF Rtsp!MainLeft, Rtsp!MainStep
<1>5. CASE ~Rtsp!MainStep
  <2>1. UNCHANGED <<main, todo>>
    BY <1>5 DEF Rtsp!Next, Rtsp!CallbackStep, Rtsp!Count, Rtsp!PrintStatus, Rtsp!Deliver,
       Rtsp!signal_handler, Rtsp!StartPlayer, Rtsp!Join, Rtsp!Part, Rtsp!Terminated, Rtsp!vars
  <2> QED
    BY <1>5, <2>1 DEF Rtsp!MainLeft
<1> QED
  BY <1>2, <1>3, <1>4, <1>5 DEF Rtsp!MainStep

-----------------------------------------------------------------------------
(* onvif_server.                                                           *)

\* What runs, by the place of main and by what it still has to stop.
OnvifPhase ==
  /\ main = "open" => cam = "closed" /\ ~Onvif!Running
  /\ main = "rtsp" => cam = "open" /\ ~Onvif!Running
  /\ main = "camera" => cam = "open" /\ Onvif!Running
  /\ main \in {"onvif", "serve"} =>
       Onvif!Running /\ (cam \in {"running", "delivering"} \/ unstarted)
  /\ onvif => main \in {"serve", "stop"}
  /\ main \notin {"stop", "stopping"} => todo = <<>>
  /\ main = "stop" =>
       \/ /\ todo = <<"onvif", "rtsp", "camera">> /\ Onvif!Running
          /\ cam \in {"running", "delivering"} \/ unstarted
       \/ todo = <<"rtsp", "camera">> /\ ~onvif
       \/ todo = <<"camera">> /\ ~onvif /\ ~Onvif!Running
       \/ todo = <<>> /\ ~onvif /\ ~Onvif!Running /\ Onvif!CamStopped
  /\ main = "stopping" =>
       todo = <<"camera">> /\ ~Onvif!Running /\ cam \notin {"running", "delivering"}
  /\ main = "returned" => ~Onvif!Running /\ Onvif!CamStopped

\* Each client has received frames of the past, in order.
OnvifSeen ==
  /\ Onvif!InCallback => pts_us < MaxFrames
  /\ Onvif!SeenInOrder
  /\ \A c \in Client : \A i \in 1..Len(seen[c]) : seen[c][i] < pts_us

OnvifControl ==
  /\ cam \in Onvif!CamState
  /\ main \in {"open", "rtsp", "camera", "onvif", "serve", "stop", "stopping", "returned"}
  /\ pts_us \in 0..MaxFrames /\ found \subseteq Client
  /\ OnvifPhase

OnvifInv ==
  /\ {onvif, g_stop, unstarted} \subseteq BOOLEAN
  /\ Onvif!RtspTypeOK
  /\ OnvifControl
  /\ OnvifSeen

LEMMA OnvifLists ==
  /\ Head(<<"onvif", "rtsp", "camera">>) = "onvif"
  /\ Tail(<<"onvif", "rtsp", "camera">>) = <<"rtsp", "camera">>
  /\ Head(<<"rtsp", "camera">>) = "rtsp" /\ Tail(<<"rtsp", "camera">>) = <<"camera">>
  /\ <<"onvif", "rtsp", "camera">> # <<>> /\ <<"rtsp", "camera">> # <<>>
  /\ <<"onvif", "rtsp", "camera">> \in Seq({"onvif", "rtsp", "camera"})
  /\ <<"rtsp", "camera">> \in Seq({"onvif", "rtsp", "camera"})
  /\ <<"camera">> \in Seq({"onvif", "rtsp", "camera"})
  /\ <<>> \in Seq({"onvif", "rtsp", "camera"})
OBVIOUS

LEMMA OnvifStarts == Onvif!Init => OnvifInv
<1> SUFFICES ASSUME Onvif!Init PROVE OnvifInv
  OBVIOUS
<1>1. Onvif!Ports /\ MaxFrames \in Nat
  BY ProgramsAssumption DEF Onvif!Bounds
<1>2. {onvif, g_stop, unstarted} \subseteq BOOLEAN
  BY Zenon DEF Onvif!Init
<1>3. Onvif!RtspTypeOK
  BY <1>1 DEF Onvif!Init, Onvif!RtspInit, Onvif!RtspTypeOK, Onvif!Ports
<1>4. OnvifSeen
  <2>1. \A c \in Client : seen[c] = <<>>
    BY DEF Onvif!Init, Onvif!RtspInit
  <2> QED
    BY <2>1 DEF Onvif!Init, Onvif!CamInit, OnvifSeen, Onvif!SeenInOrder, Onvif!InCallback
<1>5. OnvifControl
  BY <1>1 DEF Onvif!Init, Onvif!RtspInit, Onvif!CamInit, OnvifControl, OnvifPhase,
     Onvif!CamState, Onvif!Running
<1> QED
  BY <1>2, <1>3, <1>4, <1>5 DEF OnvifInv

LEMMA OnvifServiceKept ==
  ASSUME OnvifInv, Onvif!Next
  PROVE  Onvif!RtspTypeOK' /\ {onvif, g_stop, unstarted}' \subseteq BOOLEAN
<1>1. Onvif!Ports
  BY ProgramsAssumption DEF Onvif!Bounds
<1>2. {onvif, g_stop, unstarted}' \subseteq BOOLEAN
  BY Zenon DEF OnvifInv, Onvif!Next, Onvif!MainStep,
     Onvif!OpenCamera, Onvif!StartRtsp, Onvif!StartCamera, Onvif!StartOnvif,
     Onvif!LeaveLoop, Onvif!StopOnvif, Onvif!StopRtsp, Onvif!RequestStop,
     Onvif!CameraStopped, Onvif!Return, Onvif!Deliver, Onvif!FrameCallback,
     Onvif!signal_handler, Onvif!Terminated, Onvif!AddByAddress, Onvif!GetStreamUri,
     Onvif!PlayWithPort, Onvif!Watch, Onvif!vars
<1>3. pts_us \in Nat
  BY ProgramsAssumption DEF OnvifInv, OnvifControl, Onvif!Bounds
<1>4. \/ Onvif!RtspStart \/ Onvif!RtspStop \/ Onvif!RtspPush(pts_us)
      \/ \E c \in Client : \/ Onvif!Told(c, DefaultPort) \/ Onvif!Told(c, ServerPort)
                           \/ Onvif!Connect(c) \/ Onvif!Leave(c)
      \/ UNCHANGED Onvif!rtspVars
  BY DEF Onvif!Next, Onvif!MainStep,
     Onvif!OpenCamera, Onvif!StartRtsp, Onvif!StartCamera, Onvif!StartOnvif,
     Onvif!LeaveLoop, Onvif!StopOnvif, Onvif!StopRtsp, Onvif!RequestStop,
     Onvif!CameraStopped, Onvif!Return, Onvif!Deliver, Onvif!FrameCallback,
     Onvif!signal_handler, Onvif!Terminated, Onvif!AddByAddress, Onvif!GetStreamUri,
     Onvif!PlayWithPort, Onvif!Watch, Onvif!vars, Onvif!rtsp_url_port
<1>5. ServiceStep
  BY <1>3, <1>4 DEF ServiceStep, Onvif!RtspStart, Onvif!RtspStop, Onvif!RtspPush, Onvif!Told,
     Onvif!Connect, Onvif!Leave, Onvif!rtspVars, Rtsp!RtspStart, Rtsp!RtspStop, Rtsp!RtspPush,
     Rtsp!Told, Rtsp!Connect, Rtsp!Leave, Rtsp!rtspVars, Onvif!Running, Rtsp!Running
<1>6. Rtsp!RtspTypeOK /\ Rtsp!Ports
  BY <1>1 DEF OnvifInv, Onvif!RtspTypeOK, Rtsp!RtspTypeOK, Onvif!Ports, Rtsp!Ports
<1>7. Rtsp!RtspTypeOK'
  BY <1>5, <1>6, RtspServiceKept
<1> QED
  BY <1>2, <1>7 DEF Onvif!RtspTypeOK, Rtsp!RtspTypeOK

LEMMA OnvifControlKept ==
  ASSUME OnvifInv, Onvif!Next
  PROVE  OnvifControl'
<1>1. Onvif!Ports /\ MaxFrames \in Nat
  BY ProgramsAssumption DEF Onvif!Bounds
<1> USE <1>1 DEF OnvifInv, OnvifControl, OnvifPhase, Onvif!CamState, Onvif!InCallback,
        Onvif!CamStopped, Onvif!Running, Onvif!rtspVars
<1>2. CASE Onvif!OpenCamera
  BY <1>2 DEF Onvif!OpenCamera, Onvif!CamOpen
<1>3. CASE Onvif!StartRtsp
  BY <1>3 DEF Onvif!StartRtsp, Onvif!RtspStart, Onvif!Ports
<1>4. CASE Onvif!StartCamera
  BY <1>4 DEF Onvif!StartCamera, Onvif!CamStart
<1>5. CASE Onvif!StartOnvif
  BY <1>5, Lists, OnvifLists DEF Onvif!StartOnvif, Onvif!StopAfterFailure
<1>6. CASE Onvif!LeaveLoop
  BY <1>6, Lists, OnvifLists DEF Onvif!LeaveLoop, Onvif!StopOrder
<1>7. CASE Onvif!StopOnvif
  BY <1>7, Lists, OnvifLists DEF Onvif!StopOnvif
<1>8. CASE Onvif!StopRtsp
  BY <1>8, Lists, OnvifLists DEF Onvif!StopRtsp, Onvif!RtspStop
<1>9. CASE Onvif!RequestStop
  BY <1>9, Lists, OnvifLists DEF Onvif!RequestStop, Onvif!CamStopRequest
<1>10. CASE Onvif!CameraStopped
  BY <1>10, Lists, OnvifLists DEF Onvif!CameraStopped
<1>11. CASE Onvif!Return
  BY <1>11 DEF Onvif!Return
<1>12. CASE Onvif!Deliver
  BY <1>12 DEF Onvif!Deliver, Onvif!CamDeliver
<1>13. CASE Onvif!FrameCallback
  BY <1>13 DEF Onvif!FrameCallback, Onvif!CamReturn, Onvif!NextPts, Onvif!RtspPush, OnvifSeen
<1>14. CASE Onvif!signal_handler
  BY <1>14 DEF Onvif!signal_handler
<1>15. CASE Onvif!Terminated
  BY <1>15 DEF Onvif!Terminated, Onvif!vars
<1>16. ASSUME NEW c \in Client, Onvif!AddByAddress(c) PROVE OnvifControl'
  BY <1>16 DEF Onvif!AddByAddress
<1>17. ASSUME NEW c \in Client, Onvif!GetStreamUri(c) PROVE OnvifControl'
  BY <1>17 DEF Onvif!GetStreamUri, Onvif!Told
<1>18. ASSUME NEW c \in Client, Onvif!PlayWithPort(c) PROVE OnvifControl'
  BY <1>18 DEF Onvif!PlayWithPort, Onvif!Told
<1>19. ASSUME NEW c \in Client, Onvif!Watch(c) PROVE OnvifControl'
  BY <1>19 DEF Onvif!Watch, Onvif!Connect, Onvif!Leave
<1> QED
  BY <1>2, <1>3, <1>4, <1>5, <1>6, <1>7, <1>8, <1>9, <1>10, <1>11, <1>12, <1>13, <1>14,
     <1>15, <1>16, <1>17, <1>18, <1>19
     DEF Onvif!Next, Onvif!MainStep

\* One more frame keeps the order of those before it.
LEMMA OneMore ==
  ASSUME NEW s \in Seq(Nat), NEW pts \in Nat,
         \A i \in 1..Len(s) : s[i] < pts,
         \A i, j \in 1..Len(s) : i < j => s[i] < s[j]
  PROVE  /\ \A i \in 1..Len(s) : s[i] < pts + 1
         /\ \A i \in 1..Len(Append(s, pts)) : Append(s, pts)[i] < pts + 1
         /\ \A i, j \in 1..Len(Append(s, pts)) :
              i < j => Append(s, pts)[i] < Append(s, pts)[j]
<1>1. Len(s) \in Nat /\ \A i \in 1..Len(s) : s[i] \in Nat
  OBVIOUS
<1>2. /\ Len(Append(s, pts)) = Len(s) + 1 /\ Append(s, pts)[Len(s) + 1] = pts
      /\ \A i \in 1..Len(s) : Append(s, pts)[i] = s[i]
  OBVIOUS
<1> QED
  BY <1>1, <1>2

LEMMA OnvifSeenKept ==
  ASSUME OnvifInv, Onvif!Next
  PROVE  OnvifSeen'
<1>1. MaxFrames \in Nat
  BY ProgramsAssumption DEF Onvif!Bounds
<1>2. pts_us \in 0..MaxFrames /\ cam \in Onvif!CamState /\ seen \in [Client -> Seq(Nat)]
  BY DEF OnvifInv, OnvifControl, Onvif!RtspTypeOK
<1>3. CASE Onvif!FrameCallback
  <2>1. pts_us' = pts_us + 1 /\ ~Onvif!InCallback'
    BY <1>2, <1>3 DEF Onvif!FrameCallback, Onvif!NextPts, Onvif!CamReturn, Onvif!InCallback
  <2>2. ASSUME NEW c \in Client
        PROVE  /\ \A i \in 1..Len(seen'[c]) : seen'[c][i] < pts_us + 1
               /\ \A i, j \in 1..Len(seen'[c]) : i < j => seen'[c][i] < seen'[c][j]
    <3>1. /\ \A i \in 1..Len(seen[c]) : seen[c][i] < pts_us
          /\ \A i, j \in 1..Len(seen[c]) : i < j => seen[c][i] < seen[c][j]
      BY DEF OnvifInv, OnvifSeen, Onvif!SeenInOrder
    <3>2. seen[c] \in Seq(Nat) /\ pts_us \in Nat
      BY <1>1, <1>2
    <3>3. CASE seen'[c] = seen[c]
      <4>1. /\ \A i \in 1..Len(seen[c]) : seen[c][i] < pts_us + 1
            /\ \A i, j \in 1..Len(seen[c]) : i < j => seen[c][i] < seen[c][j]
        BY <3>1, <3>2, OneMore
      <4> QED
        BY <3>3, <4>1
    <3>4. CASE seen'[c] = Append(seen[c], pts_us)
      <4> DEFINE later == Append(seen[c], pts_us)
      <4>1. /\ \A i \in 1..Len(later) : later[i] < pts_us + 1
            /\ \A i, j \in 1..Len(later) : i < j => later[i] < later[j]
        BY <3>1, <3>2, OneMore
      <4> QED
        BY <3>4, <4>1
    <3> QED
      BY <1>3, <3>3, <3>4 DEF Onvif!FrameCallback, Onvif!RtspPush
  <2> QED
    BY <2>1, <2>2 DEF OnvifSeen, Onvif!SeenInOrder
<1>4. CASE Onvif!Deliver
  BY <1>2, <1>4 DEF OnvifInv, OnvifSeen, Onvif!SeenInOrder, Onvif!Deliver, Onvif!rtspVars
<1>5. ASSUME UNCHANGED <<seen, pts_us>>, Onvif!InCallback' => Onvif!InCallback
      PROVE  OnvifSeen'
  BY <1>5 DEF OnvifInv, OnvifSeen, Onvif!SeenInOrder
<1>6. CASE ~Onvif!FrameCallback /\ ~Onvif!Deliver
  <2>1. UNCHANGED <<seen, pts_us>>
    BY <1>6 DEF Onvif!Next, Onvif!MainStep, Onvif!RtspStart, Onvif!RtspStop, Onvif!rtspVars,
       Onvif!Told, Onvif!Connect, Onvif!Leave, Onvif!vars,
       Onvif!OpenCamera, Onvif!StartRtsp, Onvif!StartCamera, Onvif!StartOnvif,
       Onvif!LeaveLoop, Onvif!StopOnvif, Onvif!StopRtsp, Onvif!RequestStop,
       Onvif!CameraStopped, Onvif!Return, Onvif!Deliver, Onvif!FrameCallback,
       Onvif!signal_handler, Onvif!Terminated, Onvif!AddByAddress, Onvif!GetStreamUri,
       Onvif!PlayWithPort, Onvif!Watch
  <2>2. Onvif!InCallback' => Onvif!InCallback
    BY <1>2, <1>6 DEF Onvif!Next, Onvif!MainStep, Onvif!CamOpen, Onvif!CamStart, Onvif!vars,
       Onvif!CamStopRequest, Onvif!CamState, Onvif!InCallback,
       Onvif!OpenCamera, Onvif!StartRtsp, Onvif!StartCamera, Onvif!StartOnvif,
       Onvif!LeaveLoop, Onvif!StopOnvif, Onvif!StopRtsp, Onvif!RequestStop,
       Onvif!CameraStopped, Onvif!Return, Onvif!Deliver, Onvif!FrameCallback,
       Onvif!signal_handler, Onvif!Terminated, Onvif!AddByAddress, Onvif!GetStreamUri,
       Onvif!PlayWithPort, Onvif!Watch
  <2> QED
    BY <1>5, <2>1, <2>2
<1> QED
  BY <1>3, <1>4, <1>6

LEMMA OnvifKept == ASSUME OnvifInv, Onvif!Next PROVE OnvifInv'
  BY OnvifServiceKept, OnvifControlKept, OnvifSeenKept DEF OnvifInv

LEMMA OnvifSafe ==
  ASSUME OnvifInv
  PROVE  /\ Onvif!TypeOK /\ Onvif!AdvertisedServed /\ Onvif!NothingOutlivesMain
         /\ Onvif!SeenInOrder
<1>1. todo \in Seq({"onvif", "rtsp", "camera"})
  BY OnvifLists DEF OnvifInv, OnvifControl, OnvifPhase
<1>2. Onvif!TypeOK
  BY <1>1 DEF OnvifInv, OnvifControl, OnvifPhase, Onvif!TypeOK
<1>3. Onvif!AdvertisedServed /\ Onvif!NothingOutlivesMain
  BY DEF OnvifInv, OnvifControl, OnvifPhase, Onvif!AdvertisedServed, Onvif!NothingOutlivesMain
<1> QED
  BY <1>2, <1>3 DEF OnvifInv, OnvifSeen

\* The locals of main outlive the camera, although the RTSP server does not.
LEMMA OnvifScope ==
  ASSUME program = "onvif_server", program' = program, OnvifInv, Onvif!Next
  PROVE  CallbackData!Next \/ UNCHANGED CallbackData!scopeVars
<1> DEFINE scope  == Scope(main \notin {"open", "rtsp", "returned"}, {"open", "rtsp"})
           inside == cam \in {"delivering", "draining"}
<1>1. DataScope = scope /\ DataScope' = scope'
  BY DEF DataScope
<1> USE DEF OnvifInv, OnvifControl, OnvifPhase, Onvif!CamState, Onvif!InCallback,
        Onvif!CamStopped, Scope
<1>2. CASE Onvif!OpenCamera
  BY <1>1, <1>2 DEF Onvif!OpenCamera, Onvif!CamOpen, CallbackData!Next, CallbackData!Open,
     CallbackData!scopeVars
<1>3. CASE Onvif!StartRtsp
  BY <1>1, <1>3 DEF Onvif!StartRtsp, CallbackData!Next, CallbackData!Open
<1>4. CASE Onvif!StartCamera
  BY <1>1, <1>4 DEF Onvif!StartCamera, Onvif!CamStart, CallbackData!scopeVars
<1>5. CASE Onvif!RequestStop
  BY <1>1, <1>5 DEF Onvif!RequestStop, Onvif!CamStopRequest, CallbackData!scopeVars
<1>6. CASE Onvif!Return
  BY <1>1, <1>6, OnvifLists, Lists DEF Onvif!Return, CallbackData!Next, CallbackData!Close
<1>7. CASE Onvif!Deliver
  BY <1>1, <1>7 DEF Onvif!Deliver, Onvif!CamDeliver, CallbackData!Next, CallbackData!Enter
<1>8. CASE Onvif!FrameCallback
  BY <1>1, <1>8 DEF Onvif!FrameCallback, Onvif!CamReturn, CallbackData!Next,
     CallbackData!Leave
<1>9. CASE \/ Onvif!StartOnvif \/ Onvif!LeaveLoop \/ Onvif!StopOnvif \/ Onvif!StopRtsp
           \/ Onvif!CameraStopped
  BY <1>1, <1>9 DEF Onvif!StartOnvif, Onvif!LeaveLoop, Onvif!StopOnvif, Onvif!StopRtsp,
     Onvif!CameraStopped, CallbackData!scopeVars
<1>10. CASE \/ Onvif!signal_handler \/ Onvif!Terminated
            \/ \E c \in Client : \/ Onvif!AddByAddress(c) \/ Onvif!GetStreamUri(c)
                                 \/ Onvif!PlayWithPort(c) \/ Onvif!Watch(c)
  <2>1. UNCHANGED <<main, cam>>
    BY <1>10 DEF Onvif!signal_handler, Onvif!Terminated, Onvif!vars, Onvif!AddByAddress,
       Onvif!GetStreamUri, Onvif!PlayWithPort, Onvif!Watch
  <2> QED
    BY <1>1, <2>1 DEF CallbackData!scopeVars
<1> QED
  BY <1>2, <1>3, <1>4, <1>5, <1>6, <1>7, <1>8, <1>9, <1>10 DEF Onvif!Next, Onvif!MainStep

LEMMA OnvifEnd ==
  ASSUME OnvifInv, Onvif!Next
  PROVE  /\ Onvif!MainStep => Onvif!MainLeft' < Onvif!MainLeft
         /\ ~Onvif!MainStep => Onvif!MainLeft' = Onvif!MainLeft
<1>1. /\ todo \in Seq({"onvif", "rtsp", "camera"}) /\ Len(todo) \in Nat
      /\ main \notin {"stop", "stopping"} => todo = <<>>
      /\ main = "stopping" => todo # <<>>
  <2>1. todo \in Seq({"onvif", "rtsp", "camera"})
    BY OnvifSafe DEF Onvif!TypeOK
  <2> QED
    BY <2>1, LenProperties, Lists DEF OnvifInv, OnvifControl, OnvifPhase
<1>2. CASE \/ Onvif!OpenCamera \/ Onvif!StartRtsp \/ Onvif!StartCamera \/ Onvif!StartOnvif
           \/ Onvif!LeaveLoop
  <2>1. todo = <<>> /\ Len(todo) = 0
    BY <1>1, <1>2, ListLengths DEF Onvif!OpenCamera, Onvif!StartRtsp, Onvif!StartCamera,
       Onvif!StartOnvif, Onvif!LeaveLoop, Onvif!StopAfterFailure, Onvif!StopOrder
  <2>2. \/ todo' = todo /\ <<main, main'>> \in {<<"open", "rtsp">>, <<"open", "stop">>,
                      <<"rtsp", "camera">>, <<"camera", "onvif">>, <<"onvif", "serve">>}
        \/ main = "rtsp" /\ main' = "stop" /\ todo' = <<"camera">>
        \/ main = "onvif" /\ main' = "stop" /\ todo' = <<"rtsp", "camera">>
        \/ main = "serve" /\ main' = "stop" /\ todo' = <<"onvif", "rtsp", "camera">>
    BY <1>2, <2>1 DEF Onvif!OpenCamera, Onvif!StartRtsp, Onvif!StartCamera,
       Onvif!StartOnvif, Onvif!LeaveLoop, Onvif!StopAfterFailure, Onvif!StopOrder
  <2>3. CASE todo' = todo
    BY <1>2, <2>1, <2>2, <2>3 DEF Onvif!MainLeft, Onvif!MainStep
  <2>4. CASE main = "rtsp" /\ main' = "stop" /\ todo' = <<"camera">>
    <3>1. Len(todo') = 1
      BY <2>4, ListLengths
    <3> QED
      BY <1>2, <2>1, <2>4, <3>1 DEF Onvif!MainLeft, Onvif!MainStep
  <2>5. CASE main = "onvif" /\ main' = "stop" /\ todo' = <<"rtsp", "camera">>
    <3>1. Len(todo') = 2
      BY <2>5, ListLengths
    <3> QED
      BY <1>2, <2>1, <2>5, <3>1 DEF Onvif!MainLeft, Onvif!MainStep
  <2>6. CASE main = "serve" /\ main' = "stop" /\ todo' = <<"onvif", "rtsp", "camera">>
    <3>1. Len(todo') = 3
      BY <2>6, ListLengths
    <3> QED
      BY <1>2, <2>1, <2>6, <3>1 DEF Onvif!MainLeft, Onvif!MainStep
  <2> QED
    BY <2>2, <2>3, <2>4, <2>5, <2>6
<1>3. CASE Onvif!StopOnvif \/ Onvif!StopRtsp \/ Onvif!CameraStopped
  <2>1. /\ todo # <<>> /\ todo' = Tail(todo)
        /\ \/ main = "stop" /\ main' = "stop"
           \/ main = "stopping" /\ main' = "stop"
    BY <1>1, <1>3 DEF Onvif!StopOnvif, Onvif!StopRtsp, Onvif!CameraStopped
  <2>2. Len(todo') \in Nat /\ Len(todo') = Len(todo) - 1
    BY <1>1, <2>1, OneStopped
  <2> QED
    BY <1>1, <1>3, <2>1, <2>2 DEF Onvif!MainLeft, Onvif!MainStep
<1>4. CASE Onvif!RequestStop \/ Onvif!Return
  <2>1. /\ todo' = todo
        /\ \/ main = "stop" /\ main' = "stopping"
           \/ main = "stop" /\ main' = "returned"
    BY <1>4 DEF Onvif!RequestStop, Onvif!Return
  <2> QED
    BY <1>1, <1>4, <2>1 DEF Onvif!MainLeft, Onvif!MainStep
<1>5. CASE ~Onvif!MainStep
  <2>1. UNCHANGED <<main, todo>>
    BY <1>5 DEF Onvif!Next, Onvif!FrameCallback, Onvif!Deliver, Onvif!signal_handler,
       Onvif!AddByAddress, Onvif!GetStreamUri, Onvif!PlayWithPort, Onvif!Watch,
       Onvif!Terminated, Onvif!vars
  <2> QED
    BY <1>5, <2>1 DEF Onvif!MainLeft
<1> QED
  BY <1>2, <1>3, <1>4, <1>5 DEF Onvif!MainStep

-----------------------------------------------------------------------------
(* uart_echo.                                                              *)

\* The bytes that were sent are some of those read before the last read().
UartBefore == IF main = "write" THEN total_rx - Len(rx_buf) ELSE total_rx

UartFlags == {g_stop, is_open} \subseteq BOOLEAN

UartPlaces ==
  /\ main \in {"open", "test", "read", "write", "close", "done", "failed"}
  /\ main = "done" => ~is_open

UartBytes ==
  /\ arrived \in 0..MaxFrames /\ total_rx \in 0..arrived /\ total_tx = Len(sent)
  /\ rx_buf \in Seq(1..MaxFrames) /\ Len(rx_buf) <= BufferSize
  /\ main = "write" => /\ Len(rx_buf) <= total_rx
                       /\ \A i \in 1..Len(rx_buf) : rx_buf[i] = total_rx - Len(rx_buf) + i
  /\ sent \in Seq(1..MaxFrames) /\ Len(sent) <= UartBefore
  /\ \A i \in 1..Len(sent) : sent[i] <= UartBefore
  /\ \A i, j \in 1..Len(sent) : i < j => sent[i] < sent[j]

UartInv == UartFlags /\ UartPlaces /\ UartBytes

LEMMA UartStarts == Uart!Init => UartInv
<1>1. BufferSize \in Nat \ {0} /\ MaxFrames \in Nat
  BY ProgramsAssumption DEF Uart!Bounds
<1>2. Uart!Init => UartFlags /\ UartPlaces
  BY DEF Uart!Init, UartFlags, UartPlaces
<1>3. Uart!Init => UartBytes
  BY <1>1 DEF Uart!Init, UartBytes, UartBefore
<1> QED
  BY <1>2, <1>3 DEF UartInv

LEMMA UartKept ==
  ASSUME UartInv, Uart!Next
  PROVE  UartInv'
<1>1. BufferSize \in Nat \ {0} /\ MaxFrames \in Nat
  BY ProgramsAssumption DEF Uart!Bounds
<1>2. UartFlags'
  BY Zenon DEF UartInv, UartFlags, Uart!Next, Uart!MainStep, Uart!OpenDevice, Uart!TestStop,
     Uart!ReadBytes, Uart!ReadNothing, Uart!WriteBytes, Uart!WriteFails, Uart!CloseDevice,
     Uart!Arrive, Uart!signal_handler, Uart!Terminated, Uart!vars
<1>3. UartPlaces'
  BY DEF UartInv, UartPlaces, Uart!Next, Uart!MainStep, Uart!OpenDevice, Uart!TestStop,
     Uart!ReadBytes, Uart!ReadNothing, Uart!WriteBytes, Uart!WriteFails, Uart!CloseDevice,
     Uart!Arrive, Uart!signal_handler, Uart!Terminated, Uart!vars
<1>4. UartBytes'
  <2>1. /\ arrived \in Nat /\ total_rx \in Nat /\ total_rx <= arrived /\ arrived <= MaxFrames
        /\ Len(sent) \in Nat /\ Len(rx_buf) \in Nat
        /\ \A i \in 1..Len(sent) : sent[i] \in Nat
    BY <1>1, LenProperties, ElementOfSeq DEF UartInv, UartBytes
  <2>2. UartBefore \in Nat /\ UartBefore <= total_rx
    BY <2>1 DEF UartInv, UartBytes, UartBefore
  <2>3. ASSUME UNCHANGED <<total_rx, total_tx, sent, rx_buf>>, UNCHANGED arrived,
               UartBefore' = UartBefore, main' = "write" => main = "write"
        PROVE  UartBytes'
    BY <2>3 DEF UartInv, UartBytes
  <2>4. ASSUME UNCHANGED <<total_rx, total_tx, sent, rx_buf, arrived>>, main' # "write"
        PROVE  UartBytes'
    <3>1. UartBefore' = total_rx
      BY <2>4 DEF UartBefore
    <3>2. \A i \in 1..Len(sent) : sent[i] <= total_rx
      BY <2>1, <2>2 DEF UartInv, UartBytes
    <3>3. Len(sent) <= total_rx
      BY <2>1, <2>2 DEF UartInv, UartBytes
    <3> QED
      BY <2>4, <3>1, <3>2, <3>3 DEF UartInv, UartBytes
  <2>5. CASE Uart!Arrive
    BY <1>1, <2>1, <2>5 DEF Uart!Arrive, UartInv, UartBytes, UartBefore, Uart!totals
  <2>6. CASE Uart!OpenDevice
    BY <2>4, <2>6 DEF Uart!OpenDevice, Uart!totals
  <2>7. CASE Uart!TestStop
    BY <2>4, <2>7 DEF Uart!TestStop, Uart!totals
  <2>8. CASE Uart!ReadNothing
    BY <2>4, <2>8 DEF Uart!ReadNothing, Uart!totals
  <2>9. CASE Uart!WriteFails
    BY <2>4, <2>9 DEF Uart!WriteFails, Uart!totals
  <2>10. CASE Uart!CloseDevice
    BY <2>4, <2>10 DEF Uart!CloseDevice, Uart!totals
  <2>11. CASE Uart!signal_handler
    BY <2>3, <2>11 DEF Uart!signal_handler, UartBefore, Uart!totals
  <2>12. CASE Uart!Terminated
    BY <2>3, <2>12 DEF Uart!Terminated, Uart!vars, UartBefore, Uart!totals
  <2>13. CASE Uart!ReadBytes
    <3>1. PICK n \in 1..BufferSize : /\ total_rx + n <= arrived
                                     /\ rx_buf' = [i \in 1..n |-> total_rx + i]
                                     /\ total_rx' = total_rx + n
      BY <2>13 DEF Uart!ReadBytes
    <3>2. n \in Nat /\ n >= 1 /\ n <= BufferSize
      BY <1>1
    <3>3. /\ rx_buf' \in Seq(1..MaxFrames) /\ Len(rx_buf') = n
          /\ \A i \in 1..n : rx_buf'[i] = total_rx + i
      <4>1. \A i \in 1..n : total_rx + i \in 1..MaxFrames
        BY <1>1, <2>1, <3>1, <3>2
      <4> QED
        BY <3>1, <3>2, <4>1
    <3>4. /\ main = "read" /\ main' = "write" /\ UNCHANGED <<arrived, total_tx, sent>>
      BY <2>13 DEF Uart!ReadBytes
    <3>5. UartBefore = total_rx /\ UartBefore' = total_rx
      BY <2>1, <3>1, <3>2, <3>3, <3>4 DEF UartBefore
    <3>6. /\ arrived' \in 0..MaxFrames /\ total_rx' \in 0..arrived' /\ Len(rx_buf') <= BufferSize
          /\ Len(rx_buf') <= total_rx'
          /\ \A i \in 1..Len(rx_buf') : rx_buf'[i] = total_rx' - Len(rx_buf') + i
      BY <1>1, <2>1, <3>1, <3>2, <3>3, <3>4
    <3> QED
      BY <3>3, <3>4, <3>5, <3>6 DEF UartInv, UartBytes
  <2>14. CASE Uart!WriteBytes
    <3>1. PICK n \in 0..Len(rx_buf) : /\ sent' = sent \o SubSeq(rx_buf, 1, n)
                                      /\ total_tx' = total_tx + n
      BY <2>14 DEF Uart!WriteBytes, Uart!Written
    <3> DEFINE part == SubSeq(rx_buf, 1, n)
               base == total_rx - Len(rx_buf)
    <3>2. /\ main = "write" /\ main' = "test"
          /\ UNCHANGED <<arrived, rx_buf, total_rx>>
          /\ UartBefore = base /\ UartBefore' = total_rx
      BY <2>14 DEF Uart!WriteBytes, UartBefore
    <3>3. n \in Nat /\ n <= Len(rx_buf) /\ base \in Nat
      BY <2>1, <2>2, <3>2
    <3>4. \A i \in 1..Len(rx_buf) : rx_buf[i] = base + i /\ rx_buf[i] \in 1..MaxFrames
      BY <3>2, ElementOfSeq DEF UartInv, UartBytes
    <3>5. /\ part \in Seq(1..MaxFrames) /\ Len(part) = n
          /\ \A i \in 1..n : part[i] = base + i
      <4>1. \A i \in 1..n : rx_buf[i] = base + i /\ rx_buf[i] \in 1..MaxFrames
        BY <2>1, <3>3, <3>4
      <4>2. /\ part \in Seq(1..MaxFrames)
            /\ Len(part) = (IF 1 <= n THEN n - 1 + 1 ELSE 0)
            /\ \A i \in 1..(n - 1 + 1) : part[i] = rx_buf[1 + i - 1]
        BY <3>3, <4>1, SubSeqProperties
      <4> HIDE DEF part
      <4>3. Len(part) = n
        BY <3>3, <4>2
      <4>4. \A i \in 1..n : part[i] = base + i
        BY <3>3, <4>1, <4>2
      <4> QED
        BY <4>2, <4>3, <4>4
    <3> HIDE DEF part, base
    <3>6. /\ \A i \in 1..Len(sent) : sent[i] <= base
          /\ \A i, j \in 1..Len(sent) : i < j => sent[i] < sent[j]
          /\ Len(sent) <= base /\ sent \in Seq(1..MaxFrames) /\ total_tx = Len(sent)
      BY <3>2 DEF UartInv, UartBytes
    <3>7. /\ sent' \in Seq(1..MaxFrames) /\ Len(sent') = Len(sent) + n
          /\ \A i \in 1..(Len(sent) + n) :
               sent'[i] = IF i <= Len(sent) THEN sent[i] ELSE part[i - Len(sent)]
      BY <3>1, <3>5, <3>6, ConcatProperties DEF part
    <3>8. base + n <= total_rx
      BY <2>1, <3>3 DEF base
    <3>9. ASSUME NEW i \in 1..(Len(sent) + n)
          PROVE  /\ i <= Len(sent) => sent'[i] = sent[i] /\ sent'[i] <= base
                 /\ i > Len(sent) => sent'[i] = base + (i - Len(sent))
      BY <2>1, <3>3, <3>5, <3>6, <3>7
    <3>10. \A i \in 1..Len(sent') : sent'[i] <= total_rx
      BY <2>1, <3>3, <3>7, <3>8, <3>9
    <3>11. \A i, j \in 1..Len(sent') : i < j => sent'[i] < sent'[j]
      <4> SUFFICES ASSUME NEW i \in 1..Len(sent'), NEW j \in 1..Len(sent'), i < j
                   PROVE  sent'[i] < sent'[j]
        OBVIOUS
      <4>1. CASE j <= Len(sent)
        BY <2>1, <3>6, <3>7, <3>9, <4>1
      <4>2. CASE i <= Len(sent) /\ j > Len(sent)
        BY <2>1, <3>3, <3>6, <3>7, <3>9, <4>2
      <4>3. CASE i > Len(sent)
        <5>1. i \in 1..(Len(sent) + n) /\ j \in 1..(Len(sent) + n) /\ j > Len(sent)
          BY <2>1, <3>3, <3>7, <4>3
        <5>2. sent'[i] = base + (i - Len(sent)) /\ sent'[j] = base + (j - Len(sent))
          BY <3>9, <4>3, <5>1
        <5>3. i \in Int /\ j \in Int
          OBVIOUS
        <5> QED
          BY <2>1, <3>3, <5>2, <5>3
      <4> QED
        BY <2>1, <3>3, <3>7, <4>1, <4>2, <4>3
    <3>12. Len(sent') <= total_rx /\ total_tx' = Len(sent')
      BY <2>1, <3>1, <3>3, <3>6, <3>7, <3>8
    <3> QED
      BY <3>2, <3>7, <3>10, <3>11, <3>12 DEF UartInv, UartBytes
  <2> QED
    BY <2>5, <2>6, <2>7, <2>8, <2>9, <2>10, <2>11, <2>12, <2>13, <2>14
       DEF Uart!Next, Uart!MainStep
<1> QED
  BY <1>2, <1>3, <1>4 DEF UartInv

LEMMA UartSafe == ASSUME UartInv PROVE Uart!TypeOK /\ Uart!TotalsTrue
<1>1. BufferSize \in Nat \ {0} /\ MaxFrames \in Nat
  BY ProgramsAssumption DEF Uart!Bounds
<1>2. /\ sent \in Seq(1..MaxFrames) /\ rx_buf \in Seq(1..MaxFrames)
      /\ Len(sent) \in Nat /\ Len(rx_buf) \in Nat /\ DOMAIN sent = 1..Len(sent)
      /\ \A i \in 1..Len(sent) : sent[i] \in Nat
  BY <1>1, LenProperties, ElementOfSeq DEF UartInv, UartBytes
<1>3. UartBefore \in Int /\ UartBefore <= total_rx /\ total_rx \in Nat
  BY <1>1, <1>2 DEF UartInv, UartBytes, UartBefore
<1>4. Uart!TotalsTrue
  BY <1>1, <1>2, <1>3 DEF UartInv, UartPlaces, UartBytes, Uart!TotalsTrue
<1>5. Uart!TypeOK
  BY <1>1, <1>2, <1>3 DEF UartInv, UartFlags, UartPlaces, UartBytes, Uart!TypeOK
<1> QED
  BY <1>4, <1>5

\* Once Ctrl+C was pressed no byte on the line keeps the program.
LEMMA UartEnd ==
  ASSUME Uart!Next
  PROVE  /\ Uart!MainStep /\ g_stop => Uart!MainLeft' < Uart!MainLeft
         /\ ~Uart!MainStep => Uart!MainLeft' = Uart!MainLeft
<1>1. CASE Uart!MainStep
  <2>1. g_stop => \/ main = "open" /\ main' \in {"test", "failed"}
                  \/ main = "test" /\ main' = "close"
                  \/ main = "read" /\ main' \in {"write", "test", "close"}
                  \/ main = "write" /\ main' \in {"test", "close"}
                  \/ main = "close" /\ main' = "done"
    BY <1>1 DEF Uart!MainStep, Uart!OpenDevice, Uart!TestStop, Uart!ReadBytes,
       Uart!ReadNothing, Uart!WriteBytes, Uart!WriteFails, Uart!CloseDevice
  <2> QED
    BY <1>1, <2>1 DEF Uart!MainLeft
<1>2. CASE ~Uart!MainStep
  <2>1. UNCHANGED main
    BY <1>2 DEF Uart!Next, Uart!Arrive, Uart!signal_handler, Uart!Terminated, Uart!vars
  <2> QED
    BY <1>2, <2>1 DEF Uart!MainLeft
<1> QED
  BY <1>1, <1>2

-----------------------------------------------------------------------------
(* isp_control.                                                            *)

\* The settings that were given back so far are automatic, or insisted on.
IspGiven ==
  /\ main \in {"auto_wb", "hdr_off", "say"} => ("exposure" \in manual => "exposure" \in insisted)
  /\ main \in {"hdr_off", "say"} => ("wb" \in manual => "wb" \in insisted)
  /\ main = "say" => ("hdr" \in manual => "hdr" \in insisted)
  /\ restored => main = "done"

IspPlaces == {"open", "wait", "test", "say", "done", "failed", "exposure", "wb", "color",
              "noise", "hdr", "auto_exposure", "auto_wb", "hdr_off"}

IspFlags == {g_stop, restored} \subseteq BOOLEAN

IspControl ==
  /\ main \in IspPlaces /\ elapsed \in 0..Duration
  /\ manual \subseteq {"exposure", "wb", "color", "noise", "hdr"}
  /\ insisted \subseteq {"exposure", "wb", "hdr"}
  /\ IspGiven
  /\ Isp!RestoredMeansAuto

IspInv == IspFlags /\ IspControl

LEMMA IspStarts == Isp!Init => IspInv
<1>1. Duration \in Nat \ {0}
  BY ProgramsAssumption DEF Isp!Bounds
<1>2. Isp!Init => IspFlags
  BY Zenon DEF Isp!Init, IspFlags
<1> QED
  BY <1>1, <1>2 DEF Isp!Init, IspInv, IspControl, IspGiven, IspPlaces, Isp!RestoredMeansAuto

LEMMA IspKept ==
  ASSUME IspInv, Isp!Next
  PROVE  IspInv'
<1>1. Duration \in Nat \ {0}
  BY ProgramsAssumption DEF Isp!Bounds
<1>0. IspFlags'
  BY Zenon DEF IspInv, IspFlags, Isp!Next, Isp!MainStep, Isp!InitIsp, Isp!Change, Isp!Wait,
     Isp!TestStop, Isp!Restore, Isp!SayRestored, Isp!signal_handler, Isp!Terminated, Isp!vars
<1> SUFFICES IspControl'
  BY <1>0 DEF IspInv
<1> USE <1>1 DEF IspInv, IspControl, IspGiven, IspPlaces, Isp!RestoredMeansAuto
<1>2. CASE Isp!InitIsp
  BY <1>2 DEF Isp!InitIsp
<1>3. CASE Isp!Change
  BY <1>3 DEF Isp!Change, Isp!AfterChange
<1>4. CASE Isp!Wait
  BY <1>4 DEF Isp!Wait, Isp!WaitIsOver
<1>5. CASE Isp!TestStop
  BY <1>5 DEF Isp!TestStop
<1>6. CASE Isp!Restore
  <2>1. /\ DOMAIN Isp!Restores = {"auto_exposure", "auto_wb", "hdr_off"}
        /\ Isp!Restores["auto_exposure"] = "exposure"
        /\ Isp!Restores["auto_wb"] = "wb" /\ Isp!Restores["hdr_off"] = "hdr"
        /\ Isp!AfterRestore["auto_exposure"] = "auto_wb"
        /\ Isp!AfterRestore["auto_wb"] = "hdr_off" /\ Isp!AfterRestore["hdr_off"] = "say"
    BY DEF Isp!Restores, Isp!AfterRestore
  <2>2. /\ main \in {"auto_exposure", "auto_wb", "hdr_off"}
        /\ main' = Isp!AfterRestore[main] /\ UNCHANGED <<g_stop, elapsed, restored>>
        /\ \/ manual' = manual \ {Isp!Restores[main]} /\ UNCHANGED insisted
           \/ insisted' = insisted \union {Isp!Restores[main]} /\ UNCHANGED manual
    BY <1>6, <2>1 DEF Isp!Restore
  <2>3. CASE main = "auto_exposure"
    BY <2>1, <2>2, <2>3
  <2>4. CASE main = "auto_wb"
    BY <2>1, <2>2, <2>4
  <2>5. CASE main = "hdr_off"
    BY <2>1, <2>2, <2>5
  <2> QED
    BY <2>2, <2>3, <2>4, <2>5
<1>7. CASE Isp!SayRestored
  BY <1>7 DEF Isp!SayRestored
<1>8. CASE Isp!signal_handler
  BY <1>8 DEF Isp!signal_handler
<1>9. CASE Isp!Terminated
  BY <1>9 DEF Isp!Terminated, Isp!vars
<1> QED
  BY <1>2, <1>3, <1>4, <1>5, <1>6, <1>7, <1>8, <1>9
     DEF Isp!Next, Isp!MainStep

LEMMA IspSafe == ASSUME IspInv PROVE Isp!TypeOK /\ Isp!RestoredMeansAuto
<1>1. /\ DOMAIN Isp!AfterChange = {"exposure", "wb", "color", "noise", "hdr"}
      /\ DOMAIN Isp!Restores = {"auto_exposure", "auto_wb", "hdr_off"}
      /\ {Isp!Restores[r] : r \in DOMAIN Isp!Restores} = {"exposure", "wb", "hdr"}
  BY DEF Isp!AfterChange, Isp!Restores
<1> QED
  BY <1>1 DEF IspInv, IspFlags, IspControl, IspPlaces, Isp!TypeOK

LEMMA IspEnd ==
  ASSUME IspInv, Isp!Next
  PROVE  /\ Isp!MainStep => Isp!MainLeft' < Isp!MainLeft
         /\ ~Isp!MainStep => Isp!MainLeft' = Isp!MainLeft
<1>1. Duration \in Nat /\ elapsed \in 0..Duration
  BY ProgramsAssumption DEF Isp!Bounds, IspInv, IspControl
<1>2. CASE Isp!MainStep
  <2>1. \/ /\ elapsed' = elapsed
           /\ \/ main = "open" /\ main' \in {"exposure", "failed"}
              \/ main = "exposure" /\ main' = "wb"
              \/ main = "wb" /\ main' = "color"
              \/ main = "color" /\ main' = "noise"
              \/ main = "noise" /\ main' = "hdr"
              \/ main = "hdr" /\ main' = "wait"
              \/ main = "wait" /\ main' = "test"
              \/ main = "test" /\ main' \in {"done", "auto_exposure"}
              \/ main = "auto_exposure" /\ main' = "auto_wb"
              \/ main = "auto_wb" /\ main' = "hdr_off"
              \/ main = "hdr_off" /\ main' = "say"
              \/ main = "say" /\ main' = "done"
        \/ main = "wait" /\ main' = "wait" /\ elapsed' = elapsed + 1
    <3>1. CASE Isp!InitIsp \/ Isp!Wait \/ Isp!TestStop \/ Isp!SayRestored
      BY <3>1 DEF Isp!InitIsp, Isp!Wait, Isp!TestStop, Isp!SayRestored
    <3>2. CASE Isp!Change
      <4>1. main \in {"exposure", "wb", "color", "noise", "hdr"} /\ elapsed' = elapsed
        BY <3>2 DEF Isp!Change, Isp!AfterChange
      <4> QED
        BY <3>2, <4>1 DEF Isp!Change, Isp!AfterChange
    <3>3. CASE Isp!Restore
      <4>1. main \in {"auto_exposure", "auto_wb", "hdr_off"} /\ elapsed' = elapsed
        BY <3>3 DEF Isp!Restore, Isp!Restores
      <4> QED
        BY <3>3, <4>1 DEF Isp!Restore, Isp!AfterRestore
    <3> QED
      BY <1>2, <3>1, <3>2, <3>3 DEF Isp!MainStep
  <2> QED
    BY <1>1, <1>2, <2>1 DEF Isp!MainLeft
<1>3. CASE ~Isp!MainStep
  <2>1. UNCHANGED <<main, elapsed>>
    BY <1>3 DEF Isp!Next, Isp!signal_handler, Isp!Terminated, Isp!vars
  <2> QED
    BY <1>3, <2>1 DEF Isp!MainLeft
<1> QED
  BY <1>2, <1>3

-----------------------------------------------------------------------------
(* gpio_control.                                                           *)

\* Which pin is open, and when the LED may be on.
GpioFlags == {g_stop, ignored, deadline} \subseteq BOOLEAN

GpioControl ==
  /\ main \in {"open", "blink", "light", "on", "between", "input", "poll", "close", "done"}
  /\ pin \in {"none", "led", "input"} /\ led \in {"found", "low", "high"}
  /\ blink_count \in 0..Blinks /\ last_level \in -1..1
  /\ main \in {"open", "between", "input", "done"} => pin = "none"
  /\ led = "high" /\ main # "on" => ignored
  /\ main = "light" => blink_count < Blinks

GpioInv == GpioFlags /\ GpioControl

LEMMA GpioStarts == Gpio!Init => GpioInv
<1>1. Blinks \in Nat \ {0}
  BY ProgramsAssumption DEF Gpio!Bounds
<1>2. Gpio!Init => GpioFlags
  BY Zenon DEF Gpio!Init, GpioFlags
<1> QED
  BY <1>1, <1>2 DEF Gpio!Init, GpioInv, GpioControl

LEMMA GpioKept ==
  ASSUME GpioInv, Gpio!Next
  PROVE  GpioInv'
<1>1. Blinks \in Nat \ {0}
  BY ProgramsAssumption DEF Gpio!Bounds
<1>0. GpioFlags'
  BY Zenon DEF GpioInv, GpioFlags, Gpio!Next, Gpio!MainStep, Gpio!OpenLed, Gpio!BlinkAgain,
     Gpio!LedOn, Gpio!LedOff, Gpio!CloseLed, Gpio!TestStop, Gpio!OpenInput, Gpio!ReadLevel,
     Gpio!LeavePoll, Gpio!CloseInput, Gpio!DeadlinePasses, Gpio!signal_handler, Gpio!Set,
     Gpio!Terminated, Gpio!vars, Gpio!output, Gpio!input
<1> SUFFICES GpioControl'
  BY <1>0 DEF GpioInv
<1> USE <1>1 DEF GpioInv, GpioControl, Gpio!output, Gpio!input
<1>2. CASE Gpio!OpenLed
  BY <1>2 DEF Gpio!OpenLed
<1>3. CASE Gpio!LedOn
  BY <1>3 DEF Gpio!LedOn, Gpio!Set
<1>4. CASE Gpio!LedOff
  BY <1>4 DEF Gpio!LedOff, Gpio!Set
<1>5. CASE Gpio!CloseLed
  BY <1>5 DEF Gpio!CloseLed
<1>6. CASE Gpio!TestStop
  BY <1>6 DEF Gpio!TestStop
<1>7. CASE Gpio!OpenInput
  BY <1>7 DEF Gpio!OpenInput
<1>8. CASE Gpio!ReadLevel
  BY <1>8 DEF Gpio!ReadLevel
<1>9. CASE Gpio!LeavePoll
  BY <1>9 DEF Gpio!LeavePoll
<1>10. CASE Gpio!CloseInput
  BY <1>10 DEF Gpio!CloseInput
<1>11. CASE Gpio!DeadlinePasses
  BY <1>11 DEF Gpio!DeadlinePasses
<1>12. CASE Gpio!signal_handler
  BY <1>12 DEF Gpio!signal_handler
<1>13. CASE Gpio!Terminated
  BY <1>13 DEF Gpio!Terminated, Gpio!vars
<1>14. CASE Gpio!BlinkAgain
  BY <1>14 DEF Gpio!BlinkAgain
<1> QED
  BY <1>2, <1>3, <1>4, <1>5, <1>6, <1>7, <1>8, <1>9, <1>10, <1>11, <1>12, <1>13, <1>14
     DEF Gpio!Next, Gpio!MainStep

LEMMA GpioSafe == ASSUME GpioInv PROVE Gpio!TypeOK /\ Gpio!LeftOff
BY DEF GpioInv, GpioFlags, GpioControl, Gpio!TypeOK, Gpio!LeftOff

\* Ctrl+C cuts the blinking short and nothing makes it longer.
LEMMA GpioEnd ==
  ASSUME GpioInv, Gpio!Next
  PROVE  /\ Gpio!MainStep /\ ~(main = "poll" /\ ~g_stop /\ ~deadline)
              => Gpio!MainLeft' < Gpio!MainLeft
         /\ ~Gpio!MainStep => Gpio!MainLeft' = Gpio!MainLeft
<1>1. Blinks \in Nat /\ blink_count \in 0..Blinks
  BY ProgramsAssumption DEF Gpio!Bounds, GpioInv, GpioControl
<1>2. ASSUME Gpio!MainStep, ~(main = "poll" /\ ~g_stop /\ ~deadline)
      PROVE  Gpio!MainLeft' < Gpio!MainLeft
  <2>1. \/ main = "light" /\ main' = "on" /\ blink_count' = blink_count + 1
        \/ /\ blink_count' = blink_count
           /\ \/ main = "open" /\ main' \in {"blink", "between"}
              \/ main = "on" /\ main' = "blink"
              \/ main = "blink" /\ main' \in {"light", "between"}
              \/ main = "between" /\ main' \in {"done", "input"}
              \/ main = "input" /\ main' \in {"poll", "done"}
              \/ main = "poll" /\ main' = "close"
              \/ main = "close" /\ main' = "done"
    BY <1>2 DEF Gpio!MainStep, Gpio!OpenLed, Gpio!BlinkAgain, Gpio!LedOn, Gpio!LedOff,
       Gpio!CloseLed, Gpio!TestStop, Gpio!OpenInput, Gpio!ReadLevel, Gpio!LeavePoll, Gpio!CloseInput,
       Gpio!output
  <2> QED
    BY <1>1, <2>1 DEF Gpio!MainLeft
<1>3. CASE ~Gpio!MainStep
  <2>1. UNCHANGED <<main, blink_count>>
    BY <1>3 DEF Gpio!Next, Gpio!DeadlinePasses, Gpio!signal_handler, Gpio!Terminated,
       Gpio!vars, Gpio!output
  <2> QED
    BY <1>3, <2>1 DEF Gpio!MainLeft
<1> QED
  BY <1>2, <1>3

-----------------------------------------------------------------------------
(* imu_read.                                                               *)

ImuFlags == {g_stop, broken} \subseteq BOOLEAN

\* The statistics are those of the readings so far.
ImuStats ==
  /\ sample \in 0..TARGET_SAMPLES
  /\ values \in Seq(Readings) /\ Len(values) = sample
  /\ channel \in [min_val : Int, max_val : Int, sum : Int, count : {sample}]
  /\ sample = 0 => channel.min_val = Extreme /\ channel.max_val = -Extreme /\ channel.sum = 0
  /\ \A i \in 1..sample : channel.min_val <= values[i] /\ values[i] <= channel.max_val
  /\ sample > 0 => \E i, j \in 1..sample : channel.min_val = values[i] /\ channel.max_val = values[j]
  /\ channel.min_val * sample <= channel.sum /\ channel.sum <= channel.max_val * sample

ImuPlaces ==
  /\ main \in {"open", "test", "read", "summary", "done", "failed"}
  /\ main = "read" => sample < TARGET_SAMPLES
  /\ main \in {"summary", "done"} => sample = TARGET_SAMPLES \/ g_stop \/ broken

ImuInv == ImuFlags /\ ImuStats /\ ImuPlaces

LEMMA ImuStarts == Imu!Init => ImuInv
<1> SUFFICES ASSUME Imu!Init PROVE ImuInv
  OBVIOUS
<1>1. TARGET_SAMPLES \in Nat /\ Extreme \in Nat \ {0} /\ Readings \subseteq (-Extreme)..Extreme
  BY ProgramsAssumption DEF Imu!Bounds
<1>2. ImuFlags
  BY Zenon DEF Imu!Init, ImuFlags
<1>3. ImuStats
  BY <1>1 DEF Imu!Init, ImuStats
<1> QED
  BY <1>1, <1>2, <1>3 DEF Imu!Init, ImuInv, ImuPlaces

\* One more reading: the extremes and the sum.
LEMMA OneMoreReading ==
  ASSUME NEW n \in Nat, NEW least \in Int, NEW greatest \in Int, NEW sum \in Int, NEW v \in Int,
         least * n <= sum, sum <= greatest * n,
         NEW lower \in Int, lower = IF v < least THEN v ELSE least,
         NEW upper \in Int, upper = IF v > greatest THEN v ELSE greatest
  PROVE  lower * (n + 1) <= sum + v /\ sum + v <= upper * (n + 1)
<1>1. /\ lower * (n + 1) = lower * n + lower /\ lower * n \in Int /\ least * n \in Int
      /\ upper * (n + 1) = upper * n + upper /\ upper * n \in Int /\ greatest * n \in Int
  OBVIOUS
<1>2. ASSUME NEW a \in Int, NEW b \in Int, a <= b PROVE a * n <= b * n
  <2>1. PICK d \in Nat : b = a + d
    BY <1>2, b - a \in Nat, b = a + (b - a)
  <2>2. b * n = a * n + d * n /\ d * n \in Nat /\ a * n \in Int
    BY <2>1
  <2> QED
    BY <2>2
<1>3. lower * n <= least * n /\ greatest * n <= upper * n
  <2>1. lower <= least /\ greatest <= upper
    OBVIOUS
  <2> QED
    BY <1>2, <2>1
<1>4. lower <= v /\ v <= upper
  OBVIOUS
<1> QED
  BY <1>1, <1>3, <1>4

LEMMA ImuKept ==
  ASSUME ImuInv, Imu!Next
  PROVE  ImuInv'
<1>1. TARGET_SAMPLES \in Nat /\ Extreme \in Nat \ {0} /\ Readings \subseteq (-Extreme)..Extreme
  BY ProgramsAssumption DEF Imu!Bounds
<1>2. ImuFlags'
  BY Zenon DEF ImuInv, ImuFlags, Imu!Next, Imu!MainStep, Imu!InitImu, Imu!TestLoop, Imu!Read,
     Imu!ReadFails, Imu!PrintSummary, Imu!signal_handler, Imu!Terminated, Imu!vars
<1>3. ImuPlaces'
  <2>1. sample \in 0..TARGET_SAMPLES
    BY DEF ImuInv, ImuStats
  <2> USE <1>1, <2>1 DEF ImuInv, ImuPlaces
  <2>2. CASE Imu!InitImu
    BY <2>2 DEF Imu!InitImu
  <2>3. CASE Imu!TestLoop
    BY <2>3 DEF Imu!TestLoop
  <2>4. CASE Imu!Read
    BY <2>4 DEF Imu!Read
  <2>5. CASE Imu!ReadFails
    BY <2>5 DEF Imu!ReadFails
  <2>6. CASE Imu!PrintSummary
    BY <2>6 DEF Imu!PrintSummary
  <2>7. CASE Imu!signal_handler
    BY <2>7 DEF Imu!signal_handler
  <2>8. CASE Imu!Terminated
    BY <2>8 DEF Imu!Terminated, Imu!vars
  <2> QED
    BY <2>2, <2>3, <2>4, <2>5, <2>6, <2>7, <2>8 DEF Imu!Next, Imu!MainStep
<1>4. ImuStats'
  <2>1. CASE UNCHANGED <<sample, channel, values>>
    BY <2>1 DEF ImuInv, ImuStats
  <2>2. CASE Imu!Read
    <3>1. PICK v \in Readings : channel' = Imu!update(channel, v) /\ values' = Append(values, v)
      BY <2>2 DEF Imu!Read
    <3> DEFINE lower == IF v < channel.min_val THEN v ELSE channel.min_val
               upper == IF v > channel.max_val THEN v ELSE channel.max_val
    <3>2. /\ sample \in Nat /\ sample < TARGET_SAMPLES /\ sample' = sample + 1
          /\ v \in Int /\ -Extreme <= v /\ v <= Extreme
          /\ channel.min_val \in Int /\ channel.max_val \in Int /\ channel.sum \in Int
          /\ channel.count = sample
      BY <1>1, <2>2 DEF Imu!Read, ImuInv, ImuStats, ImuPlaces
    <3>3. channel' = [min_val |-> lower, max_val |-> upper, sum |-> channel.sum + v,
                      count |-> sample + 1]
      BY <3>1, <3>2 DEF Imu!update
    <3>4. lower \in Int /\ upper \in Int
      BY <3>2
    <3>5. /\ values' \in Seq(Readings) /\ Len(values') = sample + 1
          /\ values'[sample + 1] = v
          /\ \A i \in 1..sample : values'[i] = values[i] /\ values[i] \in Int
      <4>1. values \in Seq(Readings) /\ Len(values) = sample
        BY DEF ImuInv, ImuStats
      <4>2. \A i \in 1..sample : values[i] \in Int
        <5>1. \A i \in 1..sample : values[i] \in Readings
          BY <4>1, ElementOfSeq
        <5>2. \A r \in Readings : r \in Int
          BY <1>1
        <5> QED
          BY Zenon, <5>1, <5>2
      <4>3. /\ Append(values, v) \in Seq(Readings) /\ Len(Append(values, v)) = sample + 1
            /\ Append(values, v)[sample + 1] = v
            /\ \A i \in 1..sample : Append(values, v)[i] = values[i]
        BY <4>1, AppendProperties
      <4> QED
        BY <3>1, <4>2, <4>3
    <3>6. lower * (sample + 1) <= channel.sum + v /\ channel.sum + v <= upper * (sample + 1)
      <4>1. channel.min_val * sample <= channel.sum /\ channel.sum <= channel.max_val * sample
        BY DEF ImuInv, ImuStats
      <4>2. /\ lower = (IF v < channel.min_val THEN v ELSE channel.min_val)
            /\ upper = (IF v > channel.max_val THEN v ELSE channel.max_val)
        OBVIOUS
      <4> HIDE DEF lower, upper
      <4> QED
        BY <3>2, <3>4, <4>1, <4>2, OneMoreReading
    <3>7. \A i \in 1..(sample + 1) : lower <= values'[i] /\ values'[i] <= upper
      <4> SUFFICES ASSUME NEW i \in 1..(sample + 1)
                   PROVE  lower <= values'[i] /\ values'[i] <= upper
        OBVIOUS
      <4>1. CASE i = sample + 1
        BY <3>2, <3>5, <4>1
      <4>2. CASE i \in 1..sample
        <5>1. channel.min_val <= values[i] /\ values[i] <= channel.max_val
          BY <4>2 DEF ImuInv, ImuStats
        <5> QED
          BY <3>2, <3>5, <4>2, <5>1
      <4> QED
        BY <3>2, <4>1, <4>2
    <3>8. \E i, j \in 1..(sample + 1) : lower = values'[i] /\ upper = values'[j]
      <4>1. CASE sample = 0
        <5>1. lower = v /\ upper = v
          <6>1. channel.min_val = Extreme /\ channel.max_val = -Extreme
            BY <4>1 DEF ImuInv, ImuStats
          <6>2. v = Extreme \/ v < Extreme
            BY <1>1, <3>2
          <6>3. v = -Extreme \/ v > -Extreme
            BY <1>1, <3>2
          <6> QED
            BY <1>1, <3>2, <6>1, <6>2, <6>3
        <5> QED
          BY <3>2, <3>5, <5>1, sample + 1 \in 1..(sample + 1)
      <4>2. CASE sample > 0
        <5>1. PICK i \in 1..sample, j \in 1..sample :
                channel.min_val = values[i] /\ channel.max_val = values[j]
          BY <4>2 DEF ImuInv, ImuStats
        <5>2. /\ i \in 1..(sample + 1) /\ j \in 1..(sample + 1)
              /\ sample + 1 \in 1..(sample + 1)
          BY <3>2
        <5>3. lower \in {v, values[i]} /\ upper \in {v, values[j]}
          BY <5>1
        <5> HIDE DEF lower, upper
        <5> QED
          BY <3>5, <5>2, <5>3
      <4> QED
        BY <3>2, <4>1, <4>2
    <3> HIDE DEF lower, upper
    <3>9. /\ channel'.min_val = lower /\ channel'.max_val = upper
          /\ channel'.sum = channel.sum + v
          /\ channel' \in [min_val : Int, max_val : Int, sum : Int, count : {sample'}]
      BY <3>2, <3>3, <3>4
    <3> QED
      BY <1>1, <3>2, <3>5, <3>6, <3>7, <3>8, <3>9 DEF ImuStats
  <2> QED
    BY <2>1, <2>2 DEF Imu!Next, Imu!MainStep, Imu!InitImu, Imu!TestLoop, Imu!ReadFails,
       Imu!PrintSummary, Imu!signal_handler, Imu!Terminated, Imu!vars
<1> QED
  BY <1>2, <1>3, <1>4 DEF ImuInv

LEMMA ImuSafe == ASSUME ImuInv PROVE Imu!TypeOK /\ Imu!SummaryTrue
<1>1. TARGET_SAMPLES \in Nat /\ Extreme \in Nat \ {0} /\ Readings \subseteq (-Extreme)..Extreme
  BY ProgramsAssumption DEF Imu!Bounds
<1>2. Imu!TypeOK
  BY DEF ImuInv, ImuFlags, ImuStats, ImuPlaces, Imu!TypeOK
<1>3. /\ DOMAIN values = 1..sample /\ \A i \in 1..sample : values[i] \in Int
      /\ channel.min_val \in Int /\ channel.max_val \in Int
  <2>1. values \in Seq(Readings) /\ Len(values) = sample
    BY DEF ImuInv, ImuStats
  <2>2. channel.min_val \in Int /\ channel.max_val \in Int
    BY DEF ImuInv, ImuStats
  <2>3. DOMAIN values = 1..sample
    BY <2>1, LenProperties
  <2>4. \A i \in 1..sample : values[i] \in Readings
    BY <2>1, ElementOfSeq
  <2>5. \A r \in Readings : r \in Int
    BY <1>1
  <2>6. \A i \in 1..sample : values[i] \in Int
    BY Zenon, <2>4, <2>5
  <2> QED
    BY <2>2, <2>3, <2>6
<1>4. \A i \in DOMAIN values : values[i] \in channel.min_val..channel.max_val
  BY <1>3 DEF ImuInv, ImuStats
<1>5. sample = 0 => channel.min_val > channel.max_val
  BY <1>1 DEF ImuInv, ImuStats
<1>6. sample # 0 =>
        /\ \E i, j \in DOMAIN values : channel.min_val = values[i] /\ channel.max_val = values[j]
        /\ channel.min_val * sample <= channel.sum /\ channel.sum <= channel.max_val * sample
  <2>1. sample # 0 => sample > 0
    BY <1>1 DEF ImuInv, ImuStats
  <2>2. sample > 0 => \E i, j \in 1..sample :
          channel.min_val = values[i] /\ channel.max_val = values[j]
    BY DEF ImuInv, ImuStats
  <2>3. channel.min_val * sample <= channel.sum /\ channel.sum <= channel.max_val * sample
    BY DEF ImuInv, ImuStats
  <2> QED
    BY <1>3, <2>1, <2>2, <2>3
<1>7. main = "done" => sample = TARGET_SAMPLES \/ g_stop \/ broken
  BY DEF ImuInv, ImuPlaces
<1> QED
  BY <1>2, <1>4, <1>5, <1>6, <1>7 DEF Imu!SummaryTrue

LEMMA ImuEnd ==
  ASSUME ImuInv, Imu!Next
  PROVE  /\ Imu!MainStep => Imu!MainLeft' < Imu!MainLeft
         /\ ~Imu!MainStep => Imu!MainLeft' = Imu!MainLeft
<1>1. TARGET_SAMPLES \in Nat /\ sample \in 0..TARGET_SAMPLES
  BY ProgramsAssumption DEF Imu!Bounds, ImuInv, ImuStats
<1>2. CASE Imu!MainStep
  <2>1. \/ main = "read" /\ main' = "test" /\ sample' = sample + 1
        \/ /\ sample' = sample
           /\ \/ main = "open" /\ main' \in {"test", "failed"}
              \/ main = "test" /\ main' \in {"read", "summary"}
              \/ main = "read" /\ main' = "summary"
              \/ main = "summary" /\ main' = "done"
    BY <1>2 DEF Imu!MainStep, Imu!InitImu, Imu!TestLoop, Imu!Read, Imu!ReadFails,
       Imu!PrintSummary
  <2> QED
    BY <1>1, <1>2, <2>1 DEF Imu!MainLeft
<1>3. CASE ~Imu!MainStep
  <2>1. UNCHANGED <<main, sample>>
    BY <1>3 DEF Imu!Next, Imu!signal_handler, Imu!Terminated, Imu!vars
  <2> QED
    BY <1>3, <2>1 DEF Imu!MainLeft
<1> QED
  BY <1>2, <1>3

-----------------------------------------------------------------------------
(* The nine programs together: the invariant of the one that runs.         *)

ProgramsInv ==
  /\ program \in {"record_video", "camera_preview", "capture_image", "rtsp_server",
                  "onvif_server", "uart_echo", "isp_control", "gpio_control", "imu_read"}
  /\ program = "record_video" => RecordInv
  /\ program = "camera_preview" => PreviewInv
  /\ program = "capture_image" => CaptureInv
  /\ program = "rtsp_server" => RtspInv
  /\ program = "onvif_server" => OnvifInv
  /\ program = "uart_echo" => UartInv
  /\ program = "isp_control" => IspInv
  /\ program = "gpio_control" => GpioInv
  /\ program = "imu_read" => ImuInv

LEMMA ProgramsStart == Init => ProgramsInv
BY RecordStarts, PreviewStarts, CaptureStarts, RtspStarts, OnvifStarts, UartStarts,
   IspStarts, GpioStarts, ImuStarts DEF Init, ProgramsInv

\* A step of the program that runs is a step of its own module, and keeps what
\* that module promises.
LEMMA ProgramsKept ==
  ASSUME ProgramsInv, [Next]_vars
  PROVE  ProgramsInv'
<1>0. program \in {"record_video", "camera_preview", "capture_image", "rtsp_server",
                  "onvif_server", "uart_echo", "isp_control", "gpio_control", "imu_read"}
  BY DEF ProgramsInv
<1>1. CASE InRecord /\ Record!Next
  <2>1. program = "record_video" /\ program' = program
    BY <1>1 DEF InRecord, Runs
  <2>2. RecordInv
    BY <2>1 DEF ProgramsInv
  <2>3. RecordInv'
    BY <1>1, <2>2, RecordKept
  <2> QED
    BY <2>1, <2>3 DEF ProgramsInv
<1>2. CASE InPreview /\ Preview!Next
  <2>1. program = "camera_preview" /\ program' = program
    BY <1>2 DEF InPreview, Runs
  <2>2. PreviewInv
    BY <2>1 DEF ProgramsInv
  <2>3. PreviewInv'
    BY <1>2, <2>2, PreviewKept
  <2> QED
    BY <2>1, <2>3 DEF ProgramsInv
<1>3. CASE InCapture /\ Capture!Next
  <2>1. program = "capture_image" /\ program' = program
    BY <1>3 DEF InCapture, Runs
  <2>2. CaptureInv
    BY <2>1 DEF ProgramsInv
  <2>3. CaptureInv'
    BY <1>3, <2>2, CaptureKept
  <2> QED
    BY <2>1, <2>3 DEF ProgramsInv
<1>4. CASE InRtsp /\ Rtsp!Next
  <2>1. program = "rtsp_server" /\ program' = program
    BY <1>4 DEF InRtsp, Runs
  <2>2. RtspInv
    BY <2>1 DEF ProgramsInv
  <2>3. RtspInv'
    BY <1>4, <2>2, RtspKept
  <2> QED
    BY <2>1, <2>3 DEF ProgramsInv
<1>5. CASE InOnvif /\ Onvif!Next
  <2>1. program = "onvif_server" /\ program' = program
    BY <1>5 DEF InOnvif, Runs
  <2>2. OnvifInv
    BY <2>1 DEF ProgramsInv
  <2>3. OnvifInv'
    BY <1>5, <2>2, OnvifKept
  <2> QED
    BY <2>1, <2>3 DEF ProgramsInv
<1>6. CASE InUart /\ Uart!Next
  <2>1. program = "uart_echo" /\ program' = program
    BY <1>6 DEF InUart, Runs
  <2>2. UartInv
    BY <2>1 DEF ProgramsInv
  <2>3. UartInv'
    BY <1>6, <2>2, UartKept
  <2> QED
    BY <2>1, <2>3 DEF ProgramsInv
<1>7. CASE InIsp /\ Isp!Next
  <2>1. program = "isp_control" /\ program' = program
    BY <1>7 DEF InIsp, Runs
  <2>2. IspInv
    BY <2>1 DEF ProgramsInv
  <2>3. IspInv'
    BY <1>7, <2>2, IspKept
  <2> QED
    BY <2>1, <2>3 DEF ProgramsInv
<1>8. CASE InGpio /\ Gpio!Next
  <2>1. program = "gpio_control" /\ program' = program
    BY <1>8 DEF InGpio, Runs
  <2>2. GpioInv
    BY <2>1 DEF ProgramsInv
  <2>3. GpioInv'
    BY <1>8, <2>2, GpioKept
  <2> QED
    BY <2>1, <2>3 DEF ProgramsInv
<1>9. CASE InImu /\ Imu!Next
  <2>1. program = "imu_read" /\ program' = program
    BY <1>9 DEF InImu, Runs
  <2>2. ImuInv
    BY <2>1 DEF ProgramsInv
  <2>3. ImuInv'
    BY <1>9, <2>2, ImuKept
  <2> QED
    BY <2>1, <2>3 DEF ProgramsInv
<1>10. CASE UNCHANGED vars
  <2>0. program' = program
    BY <1>10 DEF vars
  <2>1. RecordInv => RecordInv'
    BY <1>10 DEF vars, cameraVars, serverVars, onvifVars, rtspVars, countVars, fileVars,
       captureVars, uartVars, ispVars, gpioVars, imuVars, RecordInv, RecordControl,
       RecordPhase, RecordSeconds, RecordFile, Held, RecordWritten, Record!InCallback,
       Record!CamStopped
  <2>2. PreviewInv => PreviewInv'
    BY <1>10 DEF vars, cameraVars, serverVars, onvifVars, rtspVars, countVars, fileVars,
       captureVars, uartVars, ispVars, gpioVars, imuVars, PreviewInv, PreviewPhase,
       PreviewSeconds, Preview!TypeOK, Preview!InCallback, Preview!CamStopped
  <2>3. CaptureInv => CaptureInv'
    BY <1>10 DEF vars, cameraVars, serverVars, onvifVars, rtspVars, countVars, fileVars,
       captureVars, uartVars, ispVars, gpioVars, imuVars, CaptureInv, CaptureFlags,
       CaptureControl, CapturePhase, CaptureSaved, Capture!WarningStaysTrue,
       Capture!StartsFresh, Capture!InCallback, Capture!CamStopped
  <2>4. RtspInv => RtspInv'
    BY <1>10 DEF vars, cameraVars, serverVars, onvifVars, rtspVars, countVars, fileVars,
       captureVars, uartVars, ispVars, gpioVars, imuVars, RtspInv, RtspControl, RtspPhase,
       Rtsp!RtspTypeOK, Rtsp!Running, Rtsp!InCallback, Rtsp!CamStopped
  <2>5. OnvifInv => OnvifInv'
    BY <1>10 DEF vars, cameraVars, serverVars, onvifVars, rtspVars, countVars, fileVars,
       captureVars, uartVars, ispVars, gpioVars, imuVars, OnvifInv, OnvifControl,
       OnvifPhase, OnvifSeen, Onvif!SeenInOrder, Onvif!RtspTypeOK, Onvif!Running,
       Onvif!InCallback, Onvif!CamStopped
  <2>6. UartInv => UartInv'
    BY <1>10 DEF vars, cameraVars, serverVars, onvifVars, rtspVars, countVars, fileVars,
       captureVars, uartVars, ispVars, gpioVars, imuVars, UartInv, UartFlags, UartPlaces,
       UartBytes, UartBefore
  <2>7. IspInv => IspInv'
    BY <1>10 DEF vars, cameraVars, serverVars, onvifVars, rtspVars, countVars, fileVars,
       captureVars, uartVars, ispVars, gpioVars, imuVars, IspInv, IspFlags, IspControl,
       IspGiven, Isp!RestoredMeansAuto
  <2>8. GpioInv => GpioInv'
    BY <1>10 DEF vars, cameraVars, serverVars, onvifVars, rtspVars, countVars, fileVars,
       captureVars, uartVars, ispVars, gpioVars, imuVars, GpioInv, GpioFlags, GpioControl
  <2>9. ImuInv => ImuInv'
    BY <1>10 DEF vars, cameraVars, serverVars, onvifVars, rtspVars, countVars, fileVars,
       captureVars, uartVars, ispVars, gpioVars, imuVars, ImuInv, ImuFlags, ImuStats,
       ImuPlaces
  <2> QED
    BY <1>0, <2>0, <2>1, <2>2, <2>3, <2>4, <2>5, <2>6, <2>7, <2>8, <2>9 DEF ProgramsInv
<1> QED
  BY <1>1, <1>2, <1>3, <1>4, <1>5, <1>6, <1>7, <1>8, <1>9, <1>10 DEF Next

LEMMA ProgramsAlways == FairSpec => []ProgramsInv
  BY ProgramsStart, ProgramsKept, PTL DEF FairSpec

\* What the invariant says, program by program.
LEMMA ProgramsSafe ==
  ASSUME ProgramsInv
  PROVE  /\ program = "record_video" =>
              /\ Record!TypeOK /\ Record!NoCallbackAfterStop
              /\ Record!WholeRecording /\ Record!SecondsAddUp
         /\ program = "camera_preview" =>
              Preview!TypeOK /\ Preview!SummaryIsFinal /\ Preview!SecondsAddUp
         /\ program = "capture_image" =>
              /\ Capture!TypeOK /\ Capture!CallbackInBlock
              /\ Capture!WarningStaysTrue /\ Capture!StartsFresh
         /\ program = "rtsp_server" =>
              Rtsp!TypeOK /\ Rtsp!StatusOfRunningServer /\ Rtsp!NothingOutlivesMain
         /\ program = "onvif_server" =>
              /\ Onvif!TypeOK /\ Onvif!AdvertisedServed
              /\ Onvif!NothingOutlivesMain /\ Onvif!SeenInOrder
         /\ program = "uart_echo" => Uart!TypeOK /\ Uart!TotalsTrue
         /\ program = "isp_control" => Isp!TypeOK /\ Isp!RestoredMeansAuto
         /\ program = "gpio_control" => Gpio!TypeOK /\ Gpio!LeftOff
         /\ program = "imu_read" => Imu!TypeOK /\ Imu!SummaryTrue
BY RecordSafe, PreviewSafe, CaptureSafe, RtspSafe, OnvifSafe, UartSafe, IspSafe, GpioSafe,
   ImuSafe DEF ProgramsInv

\* Every program keeps its variables in their kinds: with the camera, the
\* counters and the servers where main and the callback expect them.
THEOREM TypesOfPrograms == FairSpec => []TypeOK
<1>1. ProgramsInv => TypeOK
  BY ProgramsSafe DEF TypeOK, ProgramsInv
<1> QED
  BY <1>1, ProgramsAlways, PTL

\* In the five programs with a camera, no callback runs once the file is
\* closed, the summary printed, the block of got_frame left or main() returned,
\* for any number of frames and clients and whenever Ctrl+C comes.
THEOREM CallbackDataOutlivesCallback == FairSpec => []CallbackDataAlive
<1>1. ProgramsInv => CallbackDataAlive
  BY ProgramsSafe DEF CallbackDataAlive
<1> QED
  BY <1>1, ProgramsAlways, PTL

\* A recording with no failed write holds exactly the frames of its summary,
\* in order, however long it is and wherever the buffer is written out; and the
\* frames per second of record_video and camera_preview add up, although the
\* callback counts while main prints and resets.
THEOREM FramesAreAccountedFor == FairSpec => []FramesAddUp
<1>1. ProgramsInv => FramesAddUp
  BY ProgramsSafe DEF FramesAddUp
<1> QED
  BY <1>1, ProgramsAlways, PTL

\* The warning of capture_image is true and stays true, and the program never
\* starts to stream from a device that streamed before and was not opened
\* again.
THEOREM SnapshotsAreTrue == FairSpec => []SnapshotsTrue
<1>1. ProgramsInv => SnapshotsTrue
  BY ProgramsSafe DEF SnapshotsTrue
<1> QED
  BY <1>1, ProgramsAlways, PTL

\* The callback of rtsp_server prints its status only while the RTSP server
\* runs, in whichever order Ctrl+C and failures stop the parts.  As long as
\* onvif_server can be found it has its RTSP server and its camera, or said
\* that the camera does not start, and every client gets increasing
\* timestamps, for any number of clients that come and go.
THEOREM ClientsAreServed == FairSpec => []ClientsServed
<1>1. ProgramsInv => ClientsServed
  BY ProgramsSafe DEF ClientsServed
<1> QED
  BY <1>1, ProgramsAlways, PTL

\* uart_echo's totals, isp_control's restored settings, gpio_control's LED and
\* imu_read's summary are those of the device, for every buffer size, number of
\* samples and range of readings, and whichever calls are refused.
THEOREM DeviceReported == FairSpec => []DeviceAsReported
<1>1. ProgramsInv => DeviceAsReported
  BY ProgramsSafe DEF DeviceAsReported
<1> QED
  BY <1>1, ProgramsAlways, PTL

\* The five programs with a camera implement CallbackScope: what the callback
\* uses has one scope, calls are in it, and it closes between two calls.
THEOREM CallbackHasScope == FairSpec => ImplementsScope
<1>1. Init => CallbackData!Init
  <2> SUFFICES ASSUME Init PROVE CallbackData!Init
    OBVIOUS
  <2>1. /\ program \in {"record_video", "camera_preview", "capture_image", "rtsp_server",
                        "onvif_server", "uart_echo", "isp_control", "gpio_control", "imu_read"}
        /\ main = "open" /\ cam = "closed" /\ ~alive /\ ~Rtsp!Running
    BY DEF Init, Capture!Init, Capture!CamInit, Rtsp!Init, Rtsp!RtspInit, Rtsp!Running
  <2> QED
    BY <2>1 DEF CallbackData!Init, DataScope, Scope
<1>2. ProgramsInv /\ [Next]_vars => [CallbackData!Next]_CallbackData!scopeVars
  <2> SUFFICES ASSUME ProgramsInv, [Next]_vars
               PROVE  CallbackData!Next \/ UNCHANGED CallbackData!scopeVars
    OBVIOUS
  <2>1. CASE InRecord /\ Record!Next
    BY <2>1, RecordScope DEF InRecord, Runs, ProgramsInv
  <2>2. CASE InPreview /\ Preview!Next
    BY <2>2, PreviewScope DEF InPreview, Runs, ProgramsInv
  <2>3. CASE InCapture /\ Capture!Next
    BY <2>3, CaptureScope DEF InCapture, Runs, ProgramsInv
  <2>4. CASE InRtsp /\ Rtsp!Next
    BY <2>4, RtspScope DEF InRtsp, Runs, ProgramsInv
  <2>5. CASE InOnvif /\ Onvif!Next
    BY <2>5, OnvifScope DEF InOnvif, Runs, ProgramsInv
  <2>6. CASE \/ InUart /\ Uart!Next
             \/ InIsp /\ Isp!Next
             \/ InGpio /\ Gpio!Next
             \/ InImu /\ Imu!Next
    <3>1. /\ program \in {"uart_echo", "isp_control", "gpio_control", "imu_read"}
          /\ program' = program /\ UNCHANGED cam
      BY <2>6 DEF InUart, InIsp, InGpio, InImu, Runs, NoCamera, cameraVars
    <3>2. DataScope = "before" /\ DataScope' = "before"
      BY <3>1 DEF DataScope
    <3> QED
      BY <3>1, <3>2 DEF CallbackData!scopeVars
  <2>7. CASE UNCHANGED vars
    <3>1. UNCHANGED <<program, main, cam, alive, port>>
      BY <2>7 DEF vars, cameraVars, captureVars, serverVars
    <3>2. DataScope' = DataScope
      BY <3>1 DEF DataScope, Scope, Rtsp!Running
    <3> QED
      BY <3>1, <3>2 DEF CallbackData!scopeVars
  <2> QED
    BY <2>1, <2>2, <2>3, <2>4, <2>5, <2>6, <2>7 DEF Next
<1> QED
  BY <1>1, <1>2, ProgramsAlways, PTL DEF FairSpec, ImplementsScope, CallbackData!Spec

\* Whoever is neither finished nor waiting by design has a step of main or of
\* the callback: the holder of the mutex goes on, and so does the callback for
\* which camera.stop() waits.
LEMMA SomebodyMayGo == ProgramsInv => Finished \/ Waits \/ MainMayGo \/ CallbackMayGo
<1> SUFFICES ASSUME ProgramsInv, ~Finished, ~Waits, ~MainMayGo
             PROVE  CallbackMayGo
  OBVIOUS
<1> DEFINE ServeOver == program \in {"rtsp_server", "onvif_server"} \/ main # "serve"
           WaitOver  == main = "wait" /\ program = "capture_image" => Capture!WaitIsOver
           Blocked   == \/ main = "lock" /\ mtx # "free"
                        \/ program = "camera_preview" /\ main = "summary" /\ mtx # "free"
                        \/ main = "stopping" /\ cam \in {"running", "delivering", "draining"}
<1>0. WaitOver /\ (ServeOver => Blocked)
  BY Zenon DEF Waits, MainMayGo
<1>1. CASE program = "record_video"
  BY <1>0, <1>1 DEF ProgramsInv, RecordInv, RecordControl, RecordPhase, Record!MainState,
     Record!InCallback, Record!CamStopped, Record!CamState, Record!CallbackState,
     CallbackMayGo, UsesMutex
<1>2. CASE program = "camera_preview"
  BY <1>0, <1>2 DEF ProgramsInv, PreviewInv, PreviewPhase, Preview!TypeOK,
     Preview!InCallback, Preview!CamStopped, Preview!CamState, CallbackMayGo, UsesMutex
<1>3. CASE program = "capture_image"
  BY <1>0, <1>3 DEF ProgramsInv, CaptureInv, CaptureControl, CapturePhase,
     Capture!InCallback, Capture!CamStopped, Capture!CamState, CallbackMayGo, UsesMutex
<1>4. CASE program = "rtsp_server"
  BY <1>0, <1>4 DEF ProgramsInv, RtspInv, RtspControl, RtspPhase, Rtsp!InCallback,
     Rtsp!CamStopped, Rtsp!CamState, CallbackMayGo, UsesMutex
<1>5. CASE program = "onvif_server"
  BY <1>0, <1>5 DEF ProgramsInv, OnvifInv, OnvifControl, OnvifPhase, Onvif!InCallback,
     Onvif!CamStopped, Onvif!CamState, CallbackMayGo, UsesMutex
<1>6. CASE program \in {"uart_echo", "isp_control", "gpio_control", "imu_read"}
  BY <1>0, <1>6 DEF ProgramsInv, UartInv, UartPlaces, IspInv, IspControl, IspPlaces,
     GpioInv, GpioControl, ImuInv, ImuPlaces
<1> QED
  BY <1>1, <1>2, <1>3, <1>4, <1>5, <1>6 DEF ProgramsInv

\* A step of main brings its end closer, any other step leaves it where it is.
LEMMA EndStep ==
  ASSUME ProgramsInv, [Next]_vars
  PROVE  /\ MainStep /\ ~Waits => MainLeft' < MainLeft
         /\ ~MainStep => MainLeft' = MainLeft
<1>1. CASE InRecord /\ Record!Next
  <2>1. /\ program = "record_video" /\ program' = program
        /\ MainLeft = Record!MainLeft /\ MainLeft' = Record!MainLeft'
    BY <1>1 DEF InRecord, Runs, MainLeft
  <2>2. MainStep <=> Record!MainStep
    BY <1>1, <2>1 DEF MainStep, InRecord, InPreview, InCapture, InRtsp, InOnvif, InUart,
       InIsp, InGpio, InImu, Runs
  <2> QED
    BY <1>1, <2>1, <2>2, RecordEnd DEF ProgramsInv
<1>2. CASE InPreview /\ Preview!Next
  <2>1. /\ program = "camera_preview" /\ program' = program
        /\ MainLeft = Preview!MainLeft /\ MainLeft' = Preview!MainLeft'
    BY <1>2 DEF InPreview, Runs, MainLeft
  <2>2. MainStep <=> Preview!MainStep
    BY <1>2, <2>1 DEF MainStep, InRecord, InPreview, InCapture, InRtsp, InOnvif, InUart,
       InIsp, InGpio, InImu, Runs
  <2> QED
    BY <1>2, <2>1, <2>2, PreviewEnd DEF ProgramsInv
<1>3. CASE InCapture /\ Capture!Next
  <2>1. /\ program = "capture_image" /\ program' = program
        /\ MainLeft = Capture!MainLeft /\ MainLeft' = Capture!MainLeft'
    BY <1>3 DEF InCapture, Runs, MainLeft
  <2>2. MainStep <=> Capture!MainStep
    BY <1>3, <2>1 DEF MainStep, InRecord, InPreview, InCapture, InRtsp, InOnvif, InUart,
       InIsp, InGpio, InImu, Runs
  <2> QED
    BY <1>3, <2>1, <2>2, CaptureEnd DEF ProgramsInv
<1>4. CASE InRtsp /\ Rtsp!Next
  <2>1. /\ program = "rtsp_server" /\ program' = program
        /\ MainLeft = Rtsp!MainLeft /\ MainLeft' = Rtsp!MainLeft'
    BY <1>4 DEF InRtsp, Runs, MainLeft
  <2>2. MainStep <=> Rtsp!MainStep
    BY <1>4, <2>1 DEF MainStep, InRecord, InPreview, InCapture, InRtsp, InOnvif, InUart,
       InIsp, InGpio, InImu, Runs
  <2> QED
    BY <1>4, <2>1, <2>2, RtspEnd DEF ProgramsInv
<1>5. CASE InOnvif /\ Onvif!Next
  <2>1. /\ program = "onvif_server" /\ program' = program
        /\ MainLeft = Onvif!MainLeft /\ MainLeft' = Onvif!MainLeft'
    BY <1>5 DEF InOnvif, Runs, MainLeft
  <2>2. MainStep <=> Onvif!MainStep
    BY <1>5, <2>1 DEF MainStep, InRecord, InPreview, InCapture, InRtsp, InOnvif, InUart,
       InIsp, InGpio, InImu, Runs
  <2> QED
    BY <1>5, <2>1, <2>2, OnvifEnd DEF ProgramsInv
<1>6. CASE InUart /\ Uart!Next
  <2>1. /\ program = "uart_echo" /\ program' = program
        /\ MainLeft = Uart!MainLeft /\ MainLeft' = Uart!MainLeft'
    BY <1>6 DEF InUart, Runs, MainLeft
  <2>2. MainStep <=> Uart!MainStep
    BY <1>6, <2>1 DEF MainStep, InRecord, InPreview, InCapture, InRtsp, InOnvif, InUart,
       InIsp, InGpio, InImu, Runs
  <2> QED
    BY <1>6, <2>1, <2>2, UartEnd DEF ProgramsInv, Waits
<1>7. CASE InIsp /\ Isp!Next
  <2>1. /\ program = "isp_control" /\ program' = program
        /\ MainLeft = Isp!MainLeft /\ MainLeft' = Isp!MainLeft'
    BY <1>7 DEF InIsp, Runs, MainLeft
  <2>2. MainStep <=> Isp!MainStep
    BY <1>7, <2>1 DEF MainStep, InRecord, InPreview, InCapture, InRtsp, InOnvif, InUart,
       InIsp, InGpio, InImu, Runs
  <2> QED
    BY <1>7, <2>1, <2>2, IspEnd DEF ProgramsInv
<1>8. CASE InGpio /\ Gpio!Next
  <2>1. /\ program = "gpio_control" /\ program' = program
        /\ MainLeft = Gpio!MainLeft /\ MainLeft' = Gpio!MainLeft'
    BY <1>8 DEF InGpio, Runs, MainLeft
  <2>2. MainStep <=> Gpio!MainStep
    BY <1>8, <2>1 DEF MainStep, InRecord, InPreview, InCapture, InRtsp, InOnvif, InUart,
       InIsp, InGpio, InImu, Runs
  <2> QED
    BY <1>8, <2>1, <2>2, GpioEnd DEF ProgramsInv, Waits
<1>9. CASE InImu /\ Imu!Next
  <2>1. /\ program = "imu_read" /\ program' = program
        /\ MainLeft = Imu!MainLeft /\ MainLeft' = Imu!MainLeft'
    BY <1>9 DEF InImu, Runs, MainLeft
  <2>2. MainStep <=> Imu!MainStep
    BY <1>9, <2>1 DEF MainStep, InRecord, InPreview, InCapture, InRtsp, InOnvif, InUart,
       InIsp, InGpio, InImu, Runs
  <2> QED
    BY <1>9, <2>1, <2>2, ImuEnd DEF ProgramsInv
<1>10. CASE UNCHANGED vars
  <2>1. MainLeft' = MainLeft
    BY <1>10 DEF vars, captureVars, serverVars, cameraVars, gpioVars, imuVars, MainLeft,
       Record!MainLeft, Preview!MainLeft, Capture!MainLeft, Rtsp!MainLeft, Onvif!MainLeft,
       Uart!MainLeft, Isp!MainLeft, Gpio!MainLeft, Imu!MainLeft
  <2>2. Next \/ ~MainStep
    BY DEF Next, MainStep, Record!Next, Preview!Next, Capture!Next, Rtsp!Next, Onvif!Next,
       Uart!Next, Isp!Next, Gpio!Next, Imu!Next
  <2> QED
    BY <1>1, <1>2, <1>3, <1>4, <1>5, <1>6, <1>7, <1>8, <1>9, <2>1, <2>2 DEF Next
<1> QED
  BY <1>1, <1>2, <1>3, <1>4, <1>5, <1>6, <1>7, <1>8, <1>9, <1>10 DEF Next

\* The bound is never less than 0, so that it cannot fall for ever.
LEMMA LeftIsNat == ProgramsInv => MainLeft \in Nat
<1> SUFFICES ASSUME ProgramsInv PROVE MainLeft \in Nat
  OBVIOUS
<1> USE DEF MainLeft
<1>1. CASE program = "record_video"
  <2>1. Duration \in Nat /\ MaxLate \in Nat
    BY ProgramsAssumption DEF Record!Bounds
  <2> QED
    BY <1>1, <2>1 DEF ProgramsInv, RecordInv, RecordControl, RecordPhase, Record!MainState,
       Record!MainLeft
<1>2. CASE program = "camera_preview"
  <2>1. Duration \in Nat /\ MaxLate \in Nat
    BY ProgramsAssumption DEF Preview!Bounds
  <2> QED
    BY <1>2, <2>1 DEF ProgramsInv, PreviewInv, Preview!TypeOK, Preview!MainLeft
<1>3. CASE program = "capture_image"
  BY <1>3 DEF ProgramsInv, CaptureInv, CaptureControl, Capture!MainLeft
<1>4. CASE program = "rtsp_server"
  <2>1. todo \in Seq({"rtsp", "camera"})
    BY <1>4, RtspSafe DEF ProgramsInv, Rtsp!TypeOK
  <2> QED
    BY <1>4, <2>1, LenProperties DEF ProgramsInv, RtspInv, RtspControl, Rtsp!MainLeft
<1>5. CASE program = "onvif_server"
  <2>1. todo \in Seq({"onvif", "rtsp", "camera"})
    BY <1>5, OnvifSafe DEF ProgramsInv, Onvif!TypeOK
  <2> QED
    BY <1>5, <2>1, LenProperties DEF ProgramsInv, OnvifInv, OnvifControl, Onvif!MainLeft
<1>6. CASE program = "uart_echo"
  BY <1>6 DEF ProgramsInv, UartInv, UartPlaces, Uart!MainLeft
<1>7. CASE program = "isp_control"
  <2>1. Duration \in Nat
    BY ProgramsAssumption DEF Isp!Bounds
  <2> QED
    BY <1>7, <2>1 DEF ProgramsInv, IspInv, IspControl, IspPlaces, Isp!MainLeft
<1>8. CASE program = "gpio_control"
  <2>1. Blinks \in Nat
    BY ProgramsAssumption DEF Gpio!Bounds
  <2> QED
    BY <1>8, <2>1 DEF ProgramsInv, GpioInv, GpioControl, Gpio!MainLeft
<1>9. CASE program = "imu_read"
  <2>1. TARGET_SAMPLES \in Nat /\ sample \in 0..TARGET_SAMPLES
    BY <1>9, ProgramsAssumption DEF Imu!Bounds, ProgramsInv, ImuInv, ImuStats
  <2>2. main \in {"open", "test", "read", "summary", "done", "failed"}
    BY <1>9 DEF ProgramsInv, ImuInv, ImuPlaces
  <2> QED
    BY <1>9, <2>1, <2>2 DEF Imu!MainLeft
<1> QED
  BY <1>1, <1>2, <1>3, <1>4, <1>5, <1>6, <1>7, <1>8, <1>9 DEF ProgramsInv

\* What of Ends does not need fairness: nobody is stuck between the mutex and
\* camera.stop(), and main takes a bounded number of steps once it does not wait
\* for the user, for every length of recording and number of parts to stop.
THEOREM EndOnlyAdvances == FairSpec => EndAdvances
<1> DEFINE Advance == /\ MainStep /\ ~Waits => MainLeft' < MainLeft
                      /\ ~MainStep => MainLeft' = MainLeft
           Goes    == Finished \/ Waits \/ MainMayGo \/ CallbackMayGo
<1>1. ProgramsInv => Goes
  BY SomebodyMayGo
<1>2. ProgramsInv /\ [Next]_vars => [Advance]_vars
  BY EndStep
<1>3. ProgramsInv => MainLeft \in Nat
  BY LeftIsNat
<1> QED
  BY <1>1, <1>2, <1>3, ProgramsAlways, PTL DEF FairSpec, EndAdvances
=============================================================================
