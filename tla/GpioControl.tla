----------------------------- MODULE GpioControl -----------------------------
(***************************************************************************)
(* examples/gpio_control: an LED blinks ten times, then an input pin is     *)
(* polled for five seconds.  Ctrl+C ends either loop; a pin that cannot be  *)
(* opened is passed over; what set() returns is not looked at.              *)
(***************************************************************************)
EXTENDS Integers

CONSTANT Blinks  \* 10 in the program

Bounds == Blinks \in Nat \ {0}

VARIABLES
  main,       \* where the program is
  g_stop,     \* Ctrl+C was pressed
  pin,        \* the pin that is open: "none", "led" or "input"
  led,        \* the level of the LED: "found" as it was, "low" or "high"
  ignored,    \* the last set() of the LED failed
  blink_count,
  last_level, \* last level of the input that was printed, -1 at first
  deadline    \* the five seconds are over

output == <<led, ignored, blink_count>>
input  == <<last_level, deadline>>
vars == <<main, g_stop, pin, output, input>>

Init ==
  /\ main = "open" /\ g_stop = FALSE /\ pin = "none"
  /\ led = "found" /\ ignored = FALSE /\ blink_count = 0
  /\ last_level = -1 /\ deadline = FALSE

\* Result<void> set(int).
Set(level) == \/ led' = level /\ ignored' = FALSE
              \/ led' = led /\ ignored' = TRUE

OpenLed ==
  /\ main = "open"
  /\ \/ pin' = "led" /\ main' = "blink"
     \/ UNCHANGED pin /\ main' = "between"
  /\ UNCHANGED <<g_stop, output, input>>

\* The test of the loop.
BlinkAgain ==
  /\ main = "blink" /\ ~g_stop /\ blink_count < Blinks
  /\ main' = "light"
  /\ UNCHANGED <<g_stop, pin, output, input>>

LedOn ==
  /\ main = "light"
  /\ Set("high")
  /\ blink_count' = blink_count + 1
  /\ main' = "on"
  /\ UNCHANGED <<g_stop, pin, input>>

\* Also after Ctrl+C, which cuts no sleep short.
LedOff ==
  /\ main = "on"
  /\ Set("low")
  /\ main' = "blink"
  /\ UNCHANGED <<g_stop, pin, blink_count, input>>

CloseLed ==
  /\ main = "blink" /\ (g_stop \/ blink_count = Blinks)
  /\ pin' = "none"
  /\ main' = "between"
  /\ UNCHANGED <<g_stop, output, input>>

\* if (g_stop.load()) goto cleanup.
TestStop ==
  /\ main = "between"
  /\ main' = IF g_stop THEN "done" ELSE "input"
  /\ UNCHANGED <<g_stop, pin, output, input>>

OpenInput ==
  /\ main = "input"
  /\ \/ pin' = "input" /\ main' = "poll"
     \/ UNCHANGED pin /\ main' = "done"
  /\ UNCHANGED <<g_stop, output, input>>

\* A level that is read; a change is printed.
ReadLevel ==
  /\ main = "poll" /\ ~g_stop /\ ~deadline
  /\ last_level' \in {0, 1}
  /\ UNCHANGED <<main, g_stop, pin, output, deadline>>

\* Ctrl+C, the five seconds, or a failed get().
LeavePoll ==
  /\ main = "poll"
  /\ main' = "close"
  /\ UNCHANGED <<g_stop, pin, output, input>>

CloseInput ==
  /\ main = "close"
  /\ pin' = "none"
  /\ main' = "done"
  /\ UNCHANGED <<g_stop, output, input>>

DeadlinePasses ==
  /\ main = "poll" /\ ~deadline
  /\ deadline' = TRUE
  /\ UNCHANGED <<main, g_stop, pin, output, last_level>>

\* SIGINT or SIGTERM.
signal_handler ==
  /\ ~g_stop /\ main # "done"
  /\ g_stop' = TRUE
  /\ UNCHANGED <<main, pin, output, input>>

MainStep == \/ OpenLed \/ BlinkAgain \/ LedOn \/ LedOff \/ CloseLed
            \/ TestStop \/ OpenInput \/ ReadLevel \/ LeavePoll \/ CloseInput

Terminated == main = "done" /\ UNCHANGED vars

Next == MainStep \/ DeadlinePasses \/ signal_handler \/ Terminated

\* Fairness is stated in Programs.
Spec == Init /\ [][Next]_vars

-----------------------------------------------------------------------------
(* Properties.                                                             *)

TypeOK ==
  /\ main \in {"open", "blink", "light", "on", "between", "input", "poll",
              "close", "done"}
  /\ {g_stop, ignored, deadline} \subseteq BOOLEAN
  /\ pin \in {"none", "led", "input"} /\ led \in {"found", "low", "high"}
  /\ blink_count \in 0..Blinks /\ last_level \in -1..1

\* However the program ends, no pin stays open and the LED is not left on,
\* unless switching it off failed.
LeftOff == main = "done" => pin = "none" /\ (led = "high" => ignored)

\* How many steps main has left at most, three for every blink.
MainLeft == 3 * (Blinks - blink_count)
            + [open |-> 8, on |-> 7, blink |-> 6, light |-> 5, between |-> 4, input |-> 3,
               poll |-> 2, close |-> 1, done |-> 0][main]

\* The program ends by itself.
EndsByItself == <>(main = "done")
=============================================================================
