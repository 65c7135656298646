---------------------------- MODULE CallbackScope ----------------------------
(***************************************************************************)
(* What a program that registers a callback with the camera promises about  *)
(* what the callback uses, a file, a local variable or a server: there is   *)
(* one scope in which it may be used, calls happen in it only and one after *)
(* the other, and it is closed between two calls, never during one and      *)
(* never for another time.                                                  *)
(***************************************************************************)
VARIABLES scope,  \* "before", "open" or "closed"
          inside  \* a call is under way

scopeVars == <<scope, inside>>

Init == scope = "before" /\ ~inside

Open == /\ scope = "before"
        /\ scope' = "open"
        /\ UNCHANGED inside

\* The program gives up before it got there.
Abandon == /\ scope = "before"
           /\ scope' = "closed"
           /\ UNCHANGED inside

Enter == /\ scope = "open" /\ ~inside
         /\ inside' = TRUE
         /\ UNCHANGED scope

Leave == /\ inside
         /\ inside' = FALSE
         /\ UNCHANGED scope

\* Whoever closes the scope has waited for the call that is under way.
Close == /\ scope = "open" /\ ~inside
         /\ scope' = "closed"
         /\ UNCHANGED inside

Next == Open \/ Abandon \/ Enter \/ Leave \/ Close

Spec == Init /\ [][Next]_scopeVars
=============================================================================
