-------------------------- MODULE DroidbootProofs --------------------------
(***************************************************************************)
(* Proofs about Droidboot for every value of the constants: type          *)
(* correctness, the countdown contract, and that provisioning preserves   *)
(* the update package when the sdcard's secondary device is not the cache *)
(* or data partition.                                                      *)
(***************************************************************************)
EXTENDS Droidboot, TLAPS

-----------------------------------------------------------------------------
(* TypeOK alone is not inductive: CdSleep decrements 'seconds', which     *)
(* stays in 0..Delay only because the loop test let the thread into       *)
(* cd_sleep with seconds # 0.  The invariant is split into the part about *)
(* the threads and their countdowns and the part about the shared data.   *)
ThreadsOK ==
  /\ pc \in [Threads -> MainPcs \cup AutoPcs \cup InputPcs]
  /\ pc[MainThread] \in MainPcs
  /\ pc[AutoThread] \in AutoPcs
  /\ pc[InputThread] \in InputPcs
  /\ autoboot_enabled \in {0, 1}
  /\ seconds \in [Counters -> 0..Delay]
  /\ cdRet \in [Counters -> {0, 1}]
  /\ cancelled \in BOOLEAN
  /\ lateSleeps \in Nat
  /\ \A t \in Counters : pc[t] = "cd_sleep" => seconds[t] > 0

DataOK ==
  /\ lock \in {NoOwner, MainThread}
  /\ g_update_location \in BOOLEAN
  /\ pkg \in Devices \cup {NoDevice}
  /\ halted \in Halts
  /\ cfg \in [autoboot : BOOLEAN, pause : BOOLEAN, hook : BOOLEAN,
              sdvol : BOOLEAN]

TypeInv == ThreadsOK /\ DataOK

LEMMA TypeInvTypeOK == TypeInv => TypeOK
  BY DEF TypeInv, ThreadsOK, DataOK, TypeOK

LEMMA TypeInvInit == Init => TypeInv
  <1> SUFFICES ASSUME Init PROVE TypeInv
    OBVIOUS
  <1> USE DEF Threads, Counters, MainThread, InputThread, AutoThread
  <1>1. ThreadsOK
    <2>1. pc \in [Threads -> MainPcs \cup AutoPcs \cup InputPcs]
      BY DEF Init, MainPcs, AutoPcs, InputPcs, StartPcs
    <2>2. /\ pc[MainThread] \in MainPcs
          /\ pc[AutoThread] \in AutoPcs
          /\ pc[InputThread] \in InputPcs
      BY DEF Init, MainPcs, AutoPcs, InputPcs, StartPcs
    <2>3. /\ seconds \in [Counters -> 0..Delay]
          /\ cdRet \in [Counters -> {0, 1}]
      BY DelayAssumption DEF Init
    <2>4. \A t \in Counters : pc[t] = "cd_sleep" => seconds[t] > 0
      BY DEF Init
    <2>5. QED
      BY <2>1, <2>2, <2>3, <2>4 DEF Init, ThreadsOK
  <1>2. DataOK
    BY DeviceAssumption DEF Init, DataOK, Halts, NoOwner
  <1>3. QED
    BY <1>1, <1>2 DEF TypeInv

(* The shared data keeps its type: most steps leave it alone.             *)
LEMMA DataOKStep == DataOK /\ [Next]_vars => DataOK'
  <1> SUFFICES ASSUME DataOK, [Next]_vars PROVE DataOK'
    OBVIOUS
  <1> USE DeviceAssumption DEF DataOK, Halts, NoOwner, MainThread, Goto, Halt
  <1>1. CASE MainStep
    <2>1. ASSUME NEW p \in Partitions, NEW here, NEW next,
                 ProvisionPartition(p, here, next)
          PROVE  DataOK'
      <3>1. Erased(PartDevice[p]) \in Devices \cup {NoDevice}
        BY DEF Erased, PartDevice, Partitions
      <3>2. QED
        BY <2>1, <3>1 DEF ProvisionPartition
    <2>2. QED
      BY <1>1, <2>1
      DEF MainStep, SetupDisk, SpawnInput, UpdDetect, Countdown, CdArm,
          CdContinue, CdSleep, CdExit, UpdCountdownDone, UpdLock, ProvHook,
          ProvCache, ProvData, Partitions, UpdDecide, UpdApply, UpdUnlock,
          SpawnAuto, FbWriteDone, FbReboot, FbUnlock, SdkMount, SdkKexec
  <1>2. CASE AutoStep
    BY <1>2 DEF AutoStep, Countdown, CdArm, CdContinue, CdSleep, CdExit,
                AutoCountdownDone, SdkMount, SdkKexec
  <1>3. CASE HostStep \/ InputStep
    BY <1>3 DEF HostStep, FbReceive, InputStep, KeyEvent, DisableAutoboot
  <1>4. CASE UNCHANGED vars
    BY <1>4 DEF vars
  <1>5. QED
    BY <1>1, <1>2, <1>3, <1>4 DEF Next

(* The threads stay at their own labels and 'seconds' in 0..Delay.        *)
LEMMA ThreadsOKStep == ThreadsOK /\ [Next]_vars => ThreadsOK'
  <1> SUFFICES ASSUME ThreadsOK, [Next]_vars PROVE ThreadsOK'
    OBVIOUS
  <1> USE DelayAssumption
      DEF ThreadsOK, Threads, Counters, MainPcs, AutoPcs, InputPcs,
          StartPcs, UpdatePcs, CountdownPcs, FbPcs, Goto, Halt,
          MainThread, InputThread, AutoThread
  <1>1. CASE SetupDisk
    BY <1>1 DEF SetupDisk
  <1>2. CASE SpawnInput
    BY <1>2 DEF SpawnInput
  <1>3. CASE UpdDetect
    BY <1>3 DEF UpdDetect
  <1>4. ASSUME NEW t \in Counters, Countdown(t) PROVE ThreadsOK'
    <2>1. CASE CdArm(t)
      <3>1. pc' = [pc EXCEPT ![t] = "cd_check"] /\ pc[t] = CdStart[t]
        BY <2>1 DEF CdArm
      <3>2. /\ pc'[MainThread] \in MainPcs
            /\ pc'[AutoThread] \in AutoPcs
            /\ pc'[InputThread] \in InputPcs
            /\ pc' \in [Threads -> MainPcs \cup AutoPcs \cup InputPcs]
        BY <3>1
      <3>3. seconds' \in [Counters -> 0..Delay]
        BY <2>1 DEF CdArm
      <3>6. /\ autoboot_enabled' \in {0, 1}
            /\ cdRet' \in [Counters -> {0, 1}]
            /\ cancelled' \in BOOLEAN
            /\ lateSleeps' \in Nat
        BY <2>1 DEF CdArm
      <3>4. \A u \in Counters : pc'[u] = "cd_sleep" => seconds'[u] > 0
        BY <2>1, <3>1 DEF CdArm, CdStart
      <3>5. QED
        BY <3>2, <3>3, <3>4, <3>6, ZenonT(60)
    <2>2. CASE CdContinue(t)
      BY <2>2 DEF CdContinue
    <2>3. CASE CdSleep(t)
      BY <2>3 DEF CdSleep
    <2>4. CASE CdExit(t)
      BY <2>4 DEF CdExit, CdReturn
    <2>5. QED
      BY <1>4, <2>1, <2>2, <2>3, <2>4 DEF Countdown
  <1>5. CASE UpdCountdownDone
    BY <1>5 DEF UpdCountdownDone
  <1>6. CASE UpdLock
    BY <1>6 DEF UpdLock
  <1>7. CASE ProvHook
    BY <1>7 DEF ProvHook
  <1>8. CASE ProvCache \/ ProvData
    BY <1>8 DEF ProvCache, ProvData, ProvisionPartition
  <1>9. CASE UpdDecide
    BY <1>9 DEF UpdDecide
  <1>10. CASE UpdApply
    BY <1>10 DEF UpdApply
  <1>11. CASE UpdUnlock
    BY <1>11 DEF UpdUnlock
  <1>12. CASE SpawnAuto
    BY <1>12 DEF SpawnAuto
  <1>13. CASE FbWriteDone
    BY <1>13 DEF FbWriteDone
  <1>14. CASE FbReboot
    BY <1>14 DEF FbReboot
  <1>15. CASE FbUnlock
    BY <1>15 DEF FbUnlock
  <1>16. ASSUME NEW t \in Counters, SdkMount(t) \/ SdkKexec(t)
         PROVE  ThreadsOK'
    BY <1>16 DEF SdkMount, SdkKexec, SdkReturn
  <1>17. CASE AutoCountdownDone
    BY <1>17 DEF AutoCountdownDone
  <1>18. CASE HostStep
    BY <1>18 DEF HostStep, FbReceive, Commands
  <1>19. CASE KeyEvent
    BY <1>19 DEF KeyEvent
  <1>20. CASE DisableAutoboot
    BY <1>20 DEF DisableAutoboot
  <1>21. CASE UNCHANGED vars
    BY <1>21 DEF vars
  <1>22. QED
    BY <1>1, <1>2, <1>3, <1>4, <1>5, <1>6, <1>7, <1>8, <1>9, <1>10, <1>11,
       <1>12, <1>13, <1>14, <1>15, <1>16, <1>17, <1>18, <1>19, <1>20, <1>21
    DEF Next, MainStep, AutoStep, InputStep

LEMMA TypeInvStep == TypeInv /\ [Next]_vars => TypeInv'
  BY ThreadsOKStep, DataOKStep DEF TypeInv

(* Every reachable state is well typed.                                   *)
THEOREM TypeCorrect == Spec => []TypeOK
  BY TypeInvInit, TypeInvStep, TypeInvTypeOK, PTL DEF Spec

-----------------------------------------------------------------------------
(* From the moment detect_sw_update found the package until try_update_sw *)
(* decides what to do with it, the main thread is the only one that runs  *)
(* (the autoboot thread and the fastboot loop start later) and the        *)
(* package is on vol->device or vol->device2.                             *)
PkgPcs == {"upd_countdown", "cd_check", "cd_sleep", "upd_cd_done",
           "upd_lock", "prov_hook", "prov_cache", "prov_data", "upd_decide",
           "upd_apply", "upd_unlock"}

PkgInv ==
  pc[MainThread] \in PkgPcs => pkg \in {VolDevice, VolDevice2} \ {NoDevice}

(* The hypothesis under which provisioning cannot erase the package: the *)
(* sdcard's secondary device is neither the cache nor the data partition *)
(* (provision_partition compares the partition with vol->device only).   *)
Device2Apart == VolDevice2 \notin {CacheDevice, DataDevice}

LEMMA PkgInvInit == Init => PkgInv
  BY DEF Init, PkgInv, PkgPcs, MainThread, Threads

LEMMA PkgInvStep ==
  ASSUME Device2Apart, TypeInv, PkgInv, [Next]_vars
  PROVE  PkgInv'
  <1> USE DeviceAssumption
      DEF PkgInv, PkgPcs, Goto, Halt, MainThread, InputThread, AutoThread,
          Threads, Counters
  <1> pc \in [Threads -> MainPcs \cup AutoPcs \cup InputPcs]
    BY DEF TypeInv, ThreadsOK
  <1>1. CASE SetupDisk \/ SpawnInput
    BY <1>1 DEF SetupDisk, SpawnInput
  <1>2. CASE UpdDetect
    BY <1>2 DEF UpdDetect, MountOutcomes
  <1>3. ASSUME NEW t \in Counters, Countdown(t) PROVE PkgInv'
    <2>1. CASE CdArm(t)
      BY <2>1 DEF CdArm, CdStart
    <2>2. CASE CdContinue(t) \/ CdSleep(t)
      BY <2>2 DEF CdContinue, CdSleep
    <2>3. CASE CdExit(t)
      BY <2>3 DEF CdExit, CdReturn
    <2>4. QED
      BY <1>3, <2>1, <2>2, <2>3 DEF Countdown
  <1>4. CASE UpdCountdownDone \/ UpdLock \/ ProvHook
    BY <1>4 DEF UpdCountdownDone, UpdLock, ProvHook
  <1>5. ASSUME NEW p \in Partitions, NEW here \in PkgPcs, NEW next,
               ProvisionPartition(p, here, next)
        PROVE  PkgInv'
    <2>1. pc[MainThread] \in PkgPcs
      BY <1>5 DEF ProvisionPartition
    <2>2. pkg \in {VolDevice, VolDevice2} \ {NoDevice}
      BY <2>1
    <2>3. VolDevice # PartDevice[p] => Erased(PartDevice[p]) = pkg
      BY <2>2, Device2Apart DEF Erased, PartDevice, Partitions, Device2Apart
    <2>4. pkg' = pkg
      BY <1>5, <2>3 DEF ProvisionPartition
    <2>5. QED
      BY <2>2, <2>4
  <1>6. CASE ProvCache \/ ProvData
    BY <1>5, <1>6 DEF ProvCache, ProvData, Partitions
  <1>7. CASE UpdDecide \/ UpdApply \/ UpdUnlock \/ SpawnAuto
    BY <1>7 DEF UpdDecide, UpdApply, UpdUnlock, SpawnAuto
  <1>8. CASE FbWriteDone \/ FbReboot \/ FbUnlock
    BY <1>8 DEF FbWriteDone, FbReboot, FbUnlock
  <1>9. ASSUME NEW t \in Counters, SdkMount(t) \/ SdkKexec(t) PROVE PkgInv'
    BY <1>9 DEF SdkMount, SdkKexec, SdkReturn
  <1>10. CASE AutoCountdownDone
    BY <1>10 DEF AutoCountdownDone
  <1>11. CASE HostStep
    BY <1>11 DEF HostStep, FbReceive, Commands
  <1>12. CASE KeyEvent \/ DisableAutoboot
    BY <1>12 DEF KeyEvent, DisableAutoboot
  <1>13. CASE UNCHANGED vars
    BY <1>13 DEF vars
  <1>14. QED
    BY <1>1, <1>2, <1>3, <1>4, <1>6, <1>7, <1>8, <1>9, <1>10, <1>11, <1>12,
       <1>13 DEF Next, MainStep, AutoStep, InputStep

(* When the sdcard's secondary device is not the cache or data partition, *)
(* try_update_sw never reaches its apply-or-stash decision after          *)
(* provision_partition erased the package it detected.                    *)
THEOREM UpdatePackageSafe ==
  ASSUME Device2Apart
  PROVE  Spec => []UpdatePackagePreserved
  <1>1. Init => TypeInv /\ PkgInv
    BY TypeInvInit, PkgInvInit
  <1>2. TypeInv /\ PkgInv /\ [Next]_vars => (TypeInv /\ PkgInv)'
    BY TypeInvStep, PkgInvStep
  <1>3. PkgInv => UpdatePackagePreserved
    BY DEF PkgInv, PkgPcs, UpdatePackagePreserved
  <1>4. QED
    BY <1>1, <1>2, <1>3, PTL DEF Spec

-----------------------------------------------------------------------------
(* The countdown contract rests on this: only one countdown runs at a     *)
(* time (main starts the autoboot thread after try_update_sw returned),  *)
(* so while one runs nothing but disable_autoboot writes the flag, and    *)
(* the flag is clear exactly when a key cancelled it.  A cancelled        *)
(* countdown has slept at most once since, and not at all if it is       *)
(* still about to sleep.                                                  *)
CountInv ==
  /\ pc[AutoThread] # "absent" => pc[MainThread] \in FbPcs
  /\ lateSleeps <= 1
  /\ ~cancelled => lateSleeps = 0
  /\ \A t \in Counters :
       /\ CdActive(t) => (autoboot_enabled = 1 <=> ~cancelled)
       /\ pc[t] = "cd_sleep" /\ cancelled => lateSleeps = 0
       /\ pc[t] = CdReturn[t] =>
            /\ cdRet[t] = 1 <=> ~cancelled
            /\ cdRet[t] = 1 => seconds[t] = 0

LEMMA CountInvInit == Init => CountInv
  BY DEF Init, CountInv, CdActive, CdReturn, Counters, Threads,
         MainThread, AutoThread, InputThread

LEMMA CountInvStep ==
  ASSUME TypeInv, CountInv, [Next]_vars
  PROVE  CountInv'
  <1> USE DEF CountInv, CdActive, CdReturn, Counters, FbPcs, Goto, Halt,
              MainThread, InputThread, AutoThread, Threads
  <1> pc \in [Threads -> MainPcs \cup AutoPcs \cup InputPcs]
    BY DEF TypeInv, ThreadsOK
  <1>1. CASE SetupDisk \/ SpawnInput \/ UpdDetect
    BY <1>1 DEF SetupDisk, SpawnInput, UpdDetect
  <1>2. ASSUME NEW t \in Counters, CdArm(t) PROVE CountInv'
    <2>1. CASE t = MainThread
      BY <1>2, <2>1 DEF CdArm, CdStart
    <2>2. CASE t = AutoThread
      BY <1>2, <2>2 DEF CdArm, CdStart
    <2>3. QED
      BY <2>1, <2>2
  <1>3. ASSUME NEW t \in Counters, CdContinue(t) PROVE CountInv'
    BY <1>3 DEF CdContinue
  <1>4. ASSUME NEW t \in Counters, CdSleep(t) PROVE CountInv'
    BY <1>4 DEF CdSleep
  <1>5. ASSUME NEW t \in Counters, CdExit(t) PROVE CountInv'
    <2>1. cdRet \in [Counters -> {0, 1}] /\ autoboot_enabled \in {0, 1}
      BY DEF TypeInv, ThreadsOK
    <2>2. CASE t = MainThread
      BY <1>5, <2>1, <2>2 DEF CdExit
    <2>3. CASE t = AutoThread
      BY <1>5, <2>1, <2>3 DEF CdExit
    <2>4. QED
      BY <2>2, <2>3
  <1>6. CASE UpdCountdownDone \/ UpdLock \/ ProvHook
    BY <1>6 DEF UpdCountdownDone, UpdLock, ProvHook
  <1>7. ASSUME NEW p, NEW here \in {"prov_cache", "prov_data"},
               NEW next \in {"prov_data", "upd_decide"},
               ProvisionPartition(p, here, next)
        PROVE  CountInv'
    BY <1>7 DEF ProvisionPartition
  <1>8. CASE ProvCache \/ ProvData
    BY <1>7, <1>8 DEF ProvCache, ProvData
  <1>9. CASE UpdDecide \/ UpdApply \/ UpdUnlock \/ SpawnAuto
    BY <1>9 DEF UpdDecide, UpdApply, UpdUnlock, SpawnAuto
  <1>10. CASE FbWriteDone \/ FbReboot \/ FbUnlock
    BY <1>10 DEF FbWriteDone, FbReboot, FbUnlock
  <1>17. ASSUME NEW c \in Commands, FbReceive(c) PROVE CountInv'
    BY <1>17 DEF FbReceive, Commands
  <1>11. ASSUME NEW t \in Counters, SdkMount(t) \/ SdkKexec(t) PROVE CountInv'
    BY <1>11 DEF SdkMount, SdkKexec, SdkReturn
  <1>12. CASE AutoCountdownDone
    BY <1>12 DEF AutoCountdownDone
  <1>13. CASE KeyEvent
    BY <1>13 DEF KeyEvent
  <1>14. CASE DisableAutoboot
    <2>1. CASE \E t \in Counters : CdActive(t)
      <3>1. cancelled' /\ autoboot_enabled' = 0
        BY <1>14, <2>1 DEF DisableAutoboot
      <3>2. \A u \in Counters : pc[u] # CdReturn[u]
        BY <2>1
      <3>3. QED
        BY <1>14, <3>1, <3>2 DEF DisableAutoboot
    <2>2. CASE ~\E t \in Counters : CdActive(t)
      BY <1>14, <2>2 DEF DisableAutoboot
    <2>3. QED
      BY <2>1, <2>2
  <1>15. CASE UNCHANGED vars
    BY <1>15 DEF vars
  <1>16. QED
    BY <1>1, <1>2, <1>3, <1>4, <1>5, <1>6, <1>8, <1>9, <1>10, <1>11,
       <1>12, <1>13, <1>14, <1>15, <1>17
    DEF Next, MainStep, AutoStep, HostStep, InputStep, Countdown

(* countdown() returns 1 exactly when no key press cleared the flag while *)
(* it ran, after sleeping all its seconds; a key press cancels it within  *)
(* one more sleep: for every Delay, both for the update countdown of      *)
(* try_update_sw and for the boot countdown of autoboot_thread.           *)
THEOREM CountdownCorrect == Spec => []CountdownContract
  <1>1. Init => TypeInv /\ CountInv
    BY TypeInvInit, CountInvInit
  <1>2. TypeInv /\ CountInv /\ [Next]_vars => (TypeInv /\ CountInv)'
    BY TypeInvStep, CountInvStep
  <1>3. CountInv => CountdownContract
    BY DEF CountInv, CountdownContract
  <1>4. QED
    BY <1>1, <1>2, <1>3, PTL DEF Spec

=============================================================================
