----------------------------- MODULE DemoEnvProofs -----------------------------
(***************************************************************************)
(* For any number of runs and releases: what the scripts say when they end  *)
(* is true of the device, wherever earlier runs were interrupted.           *)
(*                                                                         *)
(* A message is about the past: it stays true because nothing but a run     *)
(* changes what it speaks of, and a run first takes it back.  While a run   *)
(* is under way its place tells what it has done so far.                    *)
(***************************************************************************)
EXTENDS DemoEnv, TLAPS

\* The kinds of the variables are an invariant.
THEOREM TypesOfDevice == Spec => []TypeOK
<1>1. Init => TypeOK
  <2> SUFFICES ASSUME Init PROVE TypeOK
    OBVIOUS
  <2>1. runs \in 0..MaxRuns /\ sdk \in 1..Releases /\ lib \in 0..Releases /\ profile \in 0..1
    BY DemoEnvAssumption DEF Init
  <2>2. /\ reliable \in BOOLEAN /\ dir \in BOOLEAN /\ whole \in BOOLEAN /\ link \in BOOLEAN
        /\ rkipc \in BOOLEAN /\ programs \in BOOLEAN
    BY Zenon DEF Init
  <2>3. /\ pc \in ScriptPc /\ app \in {"none", "part", "whole"}
        /\ message \in {"none", "ready", "deployed", "restored", "copied"}
    BY DEF Init, ScriptPc
  <2> QED
    BY <2>1, <2>2, <2>3 DEF TypeOK
<1>2. TypeOK /\ [Next]_vars => TypeOK'
  <2> SUFFICES ASSUME TypeOK, [Next]_vars PROVE TypeOK'
    OBVIOUS
  <2> USE DemoEnvAssumption DEF TypeOK, ScriptPc, DemoPc, DeployPc, env, Go
  <2>1. CASE Start
    BY <2>1 DEF Start
  <2>2. CASE Interrupt
    BY <2>2 DEF Interrupt
  <2>3. CASE Update
    BY <2>3 DEF Update
  <2>4. CASE RunProgram
    BY <2>4 DEF RunProgram
  <2>5. CASE StopService
    BY <2>5 DEF StopService
  <2>6. CASE FindReady
    BY <2>6 DEF FindReady
  <2>7. CASE FindNotReady
    BY <2>7 DEF FindNotReady
  <2>8. CASE SetUp
    <3>1. profile' \in 0..1
      BY <2>8 DEF SetUp, Export
    <3>2. dir' \in BOOLEAN
      BY Zenon, <2>8 DEF SetUp
    <3> QED
      BY <2>8, <3>1, <3>2 DEF SetUp
  <2>9. CASE Upload
    <3>1. lib' \in 0..Releases
      BY <2>9 DEF Upload
    <3>2. whole' \in BOOLEAN
      BY Zenon, <2>9 DEF Upload
    <3> QED
      BY <2>9, <3>1, <3>2 DEF Upload
  <2>10. CASE NoLibrary
    BY <2>10 DEF NoLibrary
  <2>11. CASE Link
    BY <2>11 DEF Link
  <2>12. CASE Kill
    BY <2>12 DEF Kill
  <2>13. CASE StopServiceAgain
    BY <2>13 DEF StopServiceAgain
  <2>14. CASE Restart
    BY <2>14 DEF Restart
  <2>15. CASE Restored
    BY <2>15 DEF Restored
  <2>16. CASE TestConnection
    BY <2>16 DEF TestConnection
  <2>17. CASE CopyProgram
    BY <2>17 DEF CopyProgram
  <2>18. CASE MakeExecutable
    BY <2>18 DEF MakeExecutable
  <2>19. CASE RunDeployed
    BY <2>19 DEF RunDeployed
  <2>20. CASE DeployedEnds
    BY <2>20 DEF DeployedEnds
  <2>21. CASE BreakOff
    BY <2>21 DEF BreakOff
  <2>22. CASE UNCHANGED vars
    BY <2>22 DEF vars
  <2> QED
    BY <2>1, <2>2, <2>3, <2>4, <2>5, <2>6, <2>7, <2>8, <2>9, <2>10, <2>11,
       <2>12, <2>13, <2>14, <2>15, <2>16, <2>17, <2>18, <2>19, <2>20, <2>21,
       <2>22
       DEF Next, Done
<1> QED
  BY <1>1, <1>2, PTL DEF Spec

\* A run has taken the message of the one before back; only deploy.sh goes on
\* after its own.
MessageInv == pc \notin {"idle", "run", "running"} => message = "none"

\* With no ssh or scp that fails, the library is whole where there is one,
\* and the device is what the place in "demo_env.sh 0" says.
InstallInv ==
  reliable =>
    /\ lib > 0 => whole
    /\ pc \in {"check", "setup", "upload", "link"} => ~rkipc
    /\ pc \in {"upload", "link"} => dir /\ profile > 0
    /\ pc = "link" => lib > 0

\* The program is whole once scp has succeeded.
CopyInv == pc \in {"chmod", "run", "running"} => app = "whole" /\ message \in {"none", "copied"}

SuccessInv == MessageInv /\ InstallInv /\ CopyInv /\ SuccessMeansUsable

\* A run that says it is done has left a device that is ready.
THEOREM SuccessIsTrue == Spec => []SuccessMeansUsable
<1>1. Init => SuccessInv
  BY DEF Init, SuccessInv, MessageInv, InstallInv, CopyInv, SuccessMeansUsable
<1>2. TypeOK /\ SuccessInv /\ [Next]_vars => SuccessInv'
  <2> SUFFICES ASSUME TypeOK, SuccessInv, [Next]_vars PROVE SuccessInv'
    OBVIOUS
  <2> USE DemoEnvAssumption
          DEF TypeOK, SuccessInv, MessageInv, InstallInv, CopyInv,
              SuccessMeansUsable, Usable, Fails, env, Go
  <2>1. CASE Start
    BY <2>1 DEF Start
  <2>2. CASE Interrupt
    BY <2>2 DEF Interrupt
  <2>3. CASE Update
    BY <2>3 DEF Update
  <2>4. CASE RunProgram
    BY <2>4 DEF RunProgram
  <2>5. CASE StopService
    BY <2>5 DEF StopService
  <2>6. CASE FindReady
    BY <2>6 DEF FindReady, Check
  <2>7. CASE FindNotReady
    BY <2>7 DEF FindNotReady
  <2>8. CASE SetUp
    BY <2>8 DEF SetUp, Export
  <2>9. CASE Upload
    BY <2>9 DEF Upload
  <2>10. CASE NoLibrary
    BY <2>10 DEF NoLibrary
  <2>11. CASE Link
    BY <2>11 DEF Link
  <2>12. CASE Kill
    BY <2>12 DEF Kill
  <2>13. CASE StopServiceAgain
    BY <2>13 DEF StopServiceAgain
  <2>14. CASE Restart
    BY <2>14 DEF Restart
  <2>15. CASE Restored
    BY <2>15 DEF Restored
  <2>16. CASE TestConnection
    BY <2>16 DEF TestConnection
  <2>17. CASE CopyProgram
    BY <2>17 DEF CopyProgram
  <2>18. CASE MakeExecutable
    BY <2>18 DEF MakeExecutable
  <2>19. CASE RunDeployed
    BY <2>19 DEF RunDeployed
  <2>20. CASE DeployedEnds
    BY <2>20 DEF DeployedEnds
  <2>21. CASE BreakOff
    BY <2>21 DEF BreakOff
  <2>22. CASE UNCHANGED vars
    BY <2>22 DEF vars
  <2> QED
    BY <2>1, <2>2, <2>3, <2>4, <2>5, <2>6, <2>7, <2>8, <2>9, <2>10, <2>11,
       <2>12, <2>13, <2>14, <2>15, <2>16, <2>17, <2>18, <2>19, <2>20, <2>21,
       <2>22
       DEF Next, Done
<1>3. SuccessInv => SuccessMeansUsable
  BY DEF SuccessInv
<1> QED
  BY <1>1, <1>2, <1>3, TypesOfDevice, PTL DEF Spec

\* Once the programs are killed none is started before the service is.
RestoreInv ==
  reliable =>
    /\ pc \in {"restop", "restart", "restored"} => ~programs
    /\ pc = "restored" => rkipc

RestoredInv == MessageInv /\ CopyInv /\ RestoreInv /\ RestoredMeansRunning

\* A run that says the service is restored has restored it.
THEOREM RestoredIsTrue == Spec => []RestoredMeansRunning
<1>1. Init => RestoredInv
  BY DEF Init, RestoredInv, MessageInv, CopyInv, RestoreInv, RestoredMeansRunning
<1>2. TypeOK /\ RestoredInv /\ [Next]_vars => RestoredInv'
  <2> SUFFICES ASSUME TypeOK, RestoredInv, [Next]_vars PROVE RestoredInv'
    OBVIOUS
  <2> USE DEF TypeOK, RestoredInv, MessageInv, CopyInv, RestoreInv, RestoredMeansRunning,
              Fails, env, Go
  <2>1. CASE Start
    BY <2>1 DEF Start
  <2>2. CASE Interrupt
    BY <2>2 DEF Interrupt
  <2>3. CASE Update
    BY <2>3 DEF Update
  <2>4. CASE RunProgram
    BY <2>4 DEF RunProgram
  <2>5. CASE StopService
    BY <2>5 DEF StopService
  <2>6. CASE FindReady
    BY <2>6 DEF FindReady
  <2>7. CASE FindNotReady
    BY <2>7 DEF FindNotReady
  <2>8. CASE SetUp
    BY <2>8 DEF SetUp
  <2>9. CASE Upload
    BY <2>9 DEF Upload
  <2>10. CASE NoLibrary
    BY <2>10 DEF NoLibrary
  <2>11. CASE Link
    BY <2>11 DEF Link
  <2>12. CASE Kill
    BY <2>12 DEF Kill
  <2>13. CASE StopServiceAgain
    BY <2>13 DEF StopServiceAgain
  <2>14. CASE Restart
    BY <2>14 DEF Restart
  <2>15. CASE Restored
    BY <2>15 DEF Restored
  <2>16. CASE TestConnection
    BY <2>16 DEF TestConnection
  <2>17. CASE CopyProgram
    BY <2>17 DEF CopyProgram
  <2>18. CASE MakeExecutable
    BY <2>18 DEF MakeExecutable
  <2>19. CASE RunDeployed
    BY <2>19 DEF RunDeployed
  <2>20. CASE DeployedEnds
    BY <2>20 DEF DeployedEnds
  <2>21. CASE BreakOff
    BY <2>21 DEF BreakOff
  <2>22. CASE UNCHANGED vars
    BY <2>22 DEF vars
  <2> QED
    BY <2>1, <2>2, <2>3, <2>4, <2>5, <2>6, <2>7, <2>8, <2>9, <2>10, <2>11,
       <2>12, <2>13, <2>14, <2>15, <2>16, <2>17, <2>18, <2>19, <2>20, <2>21,
       <2>22
       DEF Next, Done
<1>3. RestoredInv => RestoredMeansRunning
  BY DEF RestoredInv
<1> QED
  BY <1>1, <1>2, <1>3, TypesOfDevice, PTL DEF Spec
=============================================================================
