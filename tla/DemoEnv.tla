------------------------------- MODULE DemoEnv -------------------------------
(***************************************************************************)
(* tools/demo_env.sh, run on a PC: "0" stops the vendor's camera service on *)
(* the device and installs the SDK library there, unless it finds it        *)
(* installed; "1" ends the programs that use the camera and starts the      *)
(* service again.                                                           *)
(*                                                                         *)
(* Each ssh or scp is a step.  It may fail, before or in the middle of what *)
(* it does, and the script looks at the outcome of none of them but the     *)
(* check.  The script may be interrupted after any step and run again, with *)
(* a newer SDK or the same; the device keeps what it was left with.         *)
(*                                                                         *)
(* tools/deploy.sh copies a program to the same device and, with RUN=1,     *)
(* runs it there.  It ends at the first command that fails.                 *)
(***************************************************************************)
EXTENDS Naturals

CONSTANTS MaxRuns,   \* runs of the script; bounds the model
          Releases   \* releases of the SDK, in order: 1..Releases

ASSUME DemoEnvAssumption ==
  MaxRuns \in Nat /\ Releases \in Nat \ {0}

VARIABLES
  reliable, \* no ssh or scp ever fails or is broken off
  pc,       \* where the script is, "idle" between two runs
  runs,     \* runs that were started
  sdk,      \* release on the PC
  message,  \* the last message of the last run: "none", "ready",
            \* "deployed", "restored" or "copied"
  dir,      \* /lib_c++ exists
  lib,      \* release of libreCamera_pro_sdk.so.1.0.0 in it, 0 without it
  whole,    \* all of the file is there
  link,     \* libreCamera_pro_sdk.so.1 points to it
  profile,  \* lines of /etc/profile that set LD_LIBRARY_PATH
  rkipc,    \* the camera service runs
  programs, \* a program of the SDK uses the camera
  app       \* the program that deploy.sh copies: "none", "part" or "whole"

env  == <<reliable, dir, lib, whole, link, profile, app>>
vars == <<pc, runs, sdk, message, env, rkipc, programs>>

DemoPc   == {"stop", "check", "setup", "upload", "link", "kill", "restop",
             "restart", "restored"}
DeployPc == {"connect", "copy", "chmod", "run", "running"}
ScriptPc == {"idle"} \union DemoPc \union DeployPc

Init ==
  /\ reliable \in BOOLEAN
  /\ pc = "idle" /\ runs = 0 /\ sdk = 1 /\ message = "none"
  /\ dir = FALSE /\ lib = 0 /\ whole = FALSE /\ link = FALSE /\ profile = 0
  /\ rkipc = TRUE /\ programs = FALSE /\ app = "none"

Go(from, to) == pc = from /\ pc' = to
Fails == ~reliable

\* demo_env.sh is started, with "0" or "1", or deploy.sh.
Start ==
  /\ pc = "idle" /\ runs < MaxRuns
  /\ runs' = runs + 1
  /\ pc' \in {"stop", "kill", "connect"}
  /\ message' = "none"
  /\ UNCHANGED <<sdk, env, rkipc, programs>>

\* Ctrl+C on the PC.
Interrupt ==
  /\ pc # "idle"
  /\ pc' = "idle"
  /\ UNCHANGED <<runs, sdk, message, env, rkipc, programs>>

\* A newer SDK comes to the PC.
Update ==
  /\ pc = "idle" /\ sdk < Releases
  /\ sdk' = sdk + 1 /\ message' = "none"
  /\ UNCHANGED <<pc, runs, env, rkipc, programs>>

\* A whole library that a program on the device finds.
Usable == lib > 0 /\ whole /\ link /\ profile > 0

\* A program is run on the device, or ends; without the library it does not
\* start, and while the service has the camera it ends at once.  It is the
\* one who runs the script who starts it.
RunProgram ==
  /\ programs \/ (pc = "idle" /\ Usable /\ ~rkipc)
  /\ programs' = ~programs
  /\ UNCHANGED <<pc, runs, sdk, message, env, rkipc>>

-----------------------------------------------------------------------------
(* demo_env.sh 0                                                           *)

\* RkLunch-stop.sh.
StopService ==
  /\ Go("stop", "check")
  /\ (rkipc' = FALSE) \/ (Fails /\ UNCHANGED rkipc)
  /\ UNCHANGED <<runs, sdk, message, env, programs>>

\* Variant: the check is for the line in /etc/profile only.
CheckProfile == profile > 0
\* The test of CHECK_ENV: [ -f ] follows the link.
Check == link /\ lib > 0 /\ profile > 0

\* The device is ready: the rest is skipped.
FindReady ==
  /\ Go("check", "idle")
  /\ Check
  /\ message' = "ready"
  /\ UNCHANGED <<runs, sdk, env, rkipc, programs>>

\* It is not, or did not answer.
FindNotReady ==
  /\ Go("check", "setup")
  /\ ~Check \/ Fails
  /\ UNCHANGED <<runs, sdk, message, env, rkipc, programs>>

\* Variant: the line is added without looking for it.
ExportAlways == profile' = profile + 1
Export == profile' = IF profile = 0 THEN 1 ELSE profile

\* mkdir -p, and the line in /etc/profile; the connection may break between.
SetUp ==
  /\ Go("setup", "upload")
  /\ \/ dir' = TRUE /\ Export
     \/ Fails /\ dir' = TRUE /\ UNCHANGED profile
     \/ Fails /\ UNCHANGED <<dir, profile>>
  /\ UNCHANGED <<runs, sdk, message, reliable, lib, whole, link, app, rkipc, programs>>

\* scp of the library, which writes over the old one.
Upload ==
  /\ Go("upload", "link")
  /\ \/ dir /\ lib' = sdk /\ (whole' = TRUE \/ (Fails /\ whole' = FALSE))
     \/ (Fails \/ ~dir) /\ UNCHANGED <<lib, whole>>
  /\ UNCHANGED <<runs, sdk, message, reliable, dir, link, profile, app, rkipc, programs>>

\* The PC has no library to upload: the script ends.
NoLibrary ==
  /\ Go("upload", "idle")
  /\ Fails
  /\ UNCHANGED <<runs, sdk, message, env, rkipc, programs>>

\* ln -sf, and the script says that it is done.
Link ==
  /\ Go("link", "idle")
  /\ \/ dir /\ link' = TRUE
     \/ (Fails \/ ~dir) /\ UNCHANGED link
  /\ message' = "deployed"
  /\ UNCHANGED <<runs, sdk, reliable, dir, lib, whole, profile, app, rkipc, programs>>

-----------------------------------------------------------------------------
(* demo_env.sh 1                                                           *)

\* Variant: the programs are left alone.
KillNot ==
  /\ Go("kill", "restop")
  /\ UNCHANGED <<runs, sdk, message, env, rkipc, programs>>

\* fuser -k on the devices of the camera.
Kill ==
  /\ Go("kill", "restop")
  /\ programs' = FALSE
  /\ UNCHANGED <<runs, sdk, message, env, rkipc>>

\* RkLunch-stop.sh again.
StopServiceAgain ==
  /\ Go("restop", "restart")
  /\ rkipc' = FALSE
  /\ UNCHANGED <<runs, sdk, message, env, programs>>

\* RkLunch.sh in the background; a camera that is in use keeps it from
\* starting.
Restart ==
  /\ Go("restart", "restored")
  /\ rkipc' = ~programs
  /\ UNCHANGED <<runs, sdk, message, env, programs>>

\* The one ssh of the three commands never connects, or breaks between two of
\* them; the script says all the same that it is done.
BreakOff ==
  /\ pc \in {"kill", "restop", "restart"} /\ Fails
  /\ pc' = "restored"
  /\ UNCHANGED <<runs, sdk, message, env, rkipc, programs>>

\* The script says that the service runs.
Restored ==
  /\ Go("restored", "idle")
  /\ message' = "restored"
  /\ UNCHANGED <<runs, sdk, env, rkipc, programs>>

-----------------------------------------------------------------------------
(* deploy.sh                                                               *)

\* The test of the connection.
TestConnection ==
  /\ \/ Go("connect", "copy")
     \/ Go("connect", "idle") /\ Fails
  /\ UNCHANGED <<runs, sdk, message, env, rkipc, programs>>

\* scp of the program over the one that is there.
CopyProgram ==
  /\ \/ Go("copy", "chmod") /\ app' = "whole"
     \/ Go("copy", "idle") /\ Fails /\ app' \in {app, "part"}
  /\ UNCHANGED <<runs, sdk, message, reliable, dir, lib, whole, link, profile,
                 rkipc, programs>>

\* chmod +x, of which only a lost connection is noticed, and the message.
MakeExecutable ==
  /\ \/ Go("chmod", "idle") /\ message' = "copied"
     \/ Go("chmod", "run") /\ message' = "copied"
     \/ Go("chmod", "idle") /\ Fails /\ UNCHANGED message
  /\ UNCHANGED <<runs, sdk, env, rkipc, programs>>

\* RUN=1: the program is started; it may use the camera, or not start.
RunDeployed ==
  /\ \/ Go("run", "running") /\ ~rkipc /\ lib > 0 /\ whole /\ link /\ programs' = TRUE
     \/ Go("run", "idle") /\ UNCHANGED programs
  /\ UNCHANGED <<runs, sdk, message, env, rkipc>>

\* The script ends with the program that it started.
DeployedEnds ==
  /\ Go("running", "idle")
  /\ programs' = FALSE
  /\ UNCHANGED <<runs, sdk, message, env, rkipc>>

-----------------------------------------------------------------------------
\* Nothing more to do within the bounds.
Done == pc = "idle" /\ runs = MaxRuns /\ UNCHANGED vars

Next == \/ Start \/ Interrupt \/ Update \/ RunProgram
        \/ StopService \/ FindReady \/ FindNotReady \/ SetUp \/ Upload
        \/ NoLibrary \/ Link \/ Kill \/ StopServiceAgain \/ Restart
        \/ BreakOff \/ Restored \/ TestConnection \/ CopyProgram \/ MakeExecutable
        \/ RunDeployed \/ DeployedEnds \/ Done

Spec == Init /\ [][Next]_vars

-----------------------------------------------------------------------------
(* Properties.                                                             *)

\* Every variable has a value of its kind; /etc/profile has the line at most
\* once, however often the script is run and interrupted.
TypeOK ==
  /\ reliable \in BOOLEAN /\ pc \in ScriptPc /\ runs \in 0..MaxRuns /\ sdk \in 1..Releases
  /\ message \in {"none", "ready", "deployed", "restored", "copied"}
  /\ dir \in BOOLEAN /\ lib \in 0..Releases /\ whole \in BOOLEAN
  /\ link \in BOOLEAN /\ profile \in 0..1
  /\ rkipc \in BOOLEAN /\ programs \in BOOLEAN
  /\ app \in {"none", "part", "whole"}

\* README.md:262, "Once done, you can SSH into the device and run
\* ./hello_world directly": a run that says it is done, because it installed
\* the library or found it installed, has left the device that way, after
\* whatever earlier runs left it with.
DoneMeansUsable == message \in {"ready", "deployed"} => Usable

\* The same when no ssh or scp fails, although the scripts may be interrupted
\* between any two of them; and the service is out of the way.  What deploy.sh
\* says it copied is all there, whatever failed on the way.
SuccessMeansUsable ==
  /\ reliable /\ message \in {"ready", "deployed"} => Usable /\ ~rkipc
  /\ message = "copied" => app = "whole"

\* README.md:266, "This restores the camera service".
RestoredMeansRunning ==
  reliable /\ message = "restored" => rkipc /\ ~programs
=============================================================================
