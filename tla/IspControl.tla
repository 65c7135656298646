----------------------------- MODULE IspControl ------------------------------
(***************************************************************************)
(* examples/isp_control: five settings of the image processor are made by   *)
(* hand, and after three seconds exposure, white balance and HDR are given  *)
(* back, unless Ctrl+C came first.  Each call may be refused, which is      *)
(* printed the first time and ignored when the settings are given back.     *)
(***************************************************************************)
EXTENDS Naturals

CONSTANT Duration  \* seconds between the changes and the restoration

Bounds == Duration \in Nat \ {0}

VARIABLES
  main,       \* where the program is
  g_stop,     \* Ctrl+C was pressed
  elapsed,    \* seconds waited
  manual,     \* the settings that are not automatic
  insisted,   \* restored settings that the processor refused to give back
  restored    \* the program said that it restored them

vars == <<main, g_stop, elapsed, manual, insisted, restored>>

\* What follows on each change, and on each restoration.
AfterChange == [exposure |-> "wb", wb |-> "color", color |-> "noise",
                noise |-> "hdr", hdr |-> "wait"]
Restores == [auto_exposure |-> "exposure", auto_wb |-> "wb", hdr_off |-> "hdr"]
AfterRestore == [auto_exposure |-> "auto_wb", auto_wb |-> "hdr_off",
                 hdr_off |-> "say"]

Init ==
  /\ main = "open" /\ g_stop = FALSE /\ elapsed = 0
  /\ manual = {} /\ insisted = {} /\ restored = FALSE

\* isp.init().
InitIsp ==
  /\ main = "open"
  /\ main' \in {"exposure", "failed"}
  /\ UNCHANGED <<g_stop, elapsed, manual, insisted, restored>>

\* set_exposure() ... set_hdr_mode(): the change is made or refused.
Change ==
  /\ main \in DOMAIN AfterChange
  /\ manual' \in {manual, manual \union {main}}
  /\ main' = AfterChange[main]
  /\ UNCHANGED <<g_stop, elapsed, insisted, restored>>

WaitIsOver == g_stop \/ elapsed = Duration

Wait ==
  /\ main = "wait"
  /\ IF WaitIsOver THEN main' = "test" /\ UNCHANGED elapsed
                   ELSE elapsed' = elapsed + 1 /\ UNCHANGED main
  /\ UNCHANGED <<g_stop, manual, insisted, restored>>

TestStop ==
  /\ main = "test"
  /\ main' = IF g_stop THEN "done" ELSE "auto_exposure"
  /\ UNCHANGED <<g_stop, elapsed, manual, insisted, restored>>

Restore ==
  /\ main \in DOMAIN Restores
  /\ LET setting == Restores[main] IN
       \/ manual' = manual \ {setting} /\ UNCHANGED insisted
       \/ insisted' = insisted \union {setting} /\ UNCHANGED manual
  /\ main' = AfterRestore[main]
  /\ UNCHANGED <<g_stop, elapsed, restored>>

SayRestored ==
  /\ main = "say"
  /\ restored' = TRUE
  /\ main' = "done"
  /\ UNCHANGED <<g_stop, elapsed, manual, insisted>>

\* SIGINT or SIGTERM.
signal_handler ==
  /\ ~g_stop /\ main \notin {"done", "failed"}
  /\ g_stop' = TRUE
  /\ UNCHANGED <<main, elapsed, manual, insisted, restored>>

MainStep == InitIsp \/ Change \/ Wait \/ TestStop \/ Restore \/ SayRestored

Terminated == main \in {"done", "failed"} /\ UNCHANGED vars

Next == MainStep \/ signal_handler \/ Terminated

\* Fairness is stated in Programs.
Spec == Init /\ [][Next]_vars

-----------------------------------------------------------------------------
(* Properties.                                                             *)

TypeOK ==
  /\ main \in {"open", "wait", "test", "say", "done", "failed"}
              \union DOMAIN AfterChange \union DOMAIN Restores
  /\ {g_stop, restored} \subseteq BOOLEAN /\ elapsed \in 0..Duration
  /\ manual \subseteq DOMAIN AfterChange
  /\ insisted \subseteq {Restores[r] : r \in DOMAIN Restores}

\* When the program says that exposure and white balance are automatic and
\* HDR is off, they are, as far as the processor did not refuse; only Ctrl+C
\* keeps it from getting there.
RestoredMeansAuto ==
  /\ restored => {"exposure", "wb", "hdr"} \intersect manual \subseteq insisted
  /\ main = "done" => restored \/ g_stop

\* How many steps main has left at most, with those of the wait.
MainLeft == Duration - elapsed
            + [open |-> 12, exposure |-> 11, wb |-> 10, color |-> 9, noise |-> 8,
               hdr |-> 7, wait |-> 6, test |-> 5, auto_exposure |-> 4,
               auto_wb |-> 3, hdr_off |-> 2, say |-> 1, done |-> 0,
               failed |-> 0][main]

\* The program ends by itself.
EndsByItself == <>(main \in {"done", "failed"})
=============================================================================
