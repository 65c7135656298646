---------------------------- MODULE SharedPusher ----------------------------
(***************************************************************************)
(* What a streaming client promises about a connection that one thread      *)
(* sets up and tears down and another one pushes frames to: a push never    *)
(* meets another use of the connection, a connection is given up only       *)
(* after a push over it failed, and a connection that was given up is torn  *)
(* down before the next one is set up.                                      *)
(***************************************************************************)
VARIABLES link,  \* the connection: "down", "up" or "lost" (given up)
          push   \* the pushing thread: "none", "busy" or "failed"

pusherVars == <<link, push>>

Init == link = "down" /\ push = "none"

\* The connection is set up: from nothing, never over another one.
Connect == /\ push = "none" /\ link = "down"
           /\ link' = "up"
           /\ UNCHANGED push

\* A frame is pushed over a connection that is set up.
Begin == /\ push = "none" /\ link = "up"
         /\ push' = "busy"
         /\ UNCHANGED link

\* The push is over.
End == /\ push = "busy"
       /\ push' \in {"none", "failed"}
       /\ UNCHANGED link

\* After a failure the connection is given up.
GiveUp == /\ push = "failed"
          /\ push' = "none"
          /\ link' = "lost"

\* The connection is torn down.
Disconnect == /\ push = "none" /\ link # "down"
              /\ link' = "down"
              /\ UNCHANGED push

Next == Connect \/ Begin \/ End \/ GiveUp \/ Disconnect

Spec == Init /\ [][Next]_pusherVars
=============================================================================
