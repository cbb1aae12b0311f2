----------------------------- MODULE Droidboot -----------------------------
(***************************************************************************)
(* The boot orchestration of droidboot (src/droidboot.c): the main thread  *)
(* (startup, the SW-update check try_update_sw, then the fastboot command  *)
(* loop), the autoboot thread (countdown, then start_default_kernel) and   *)
(* the input listener thread (a key press calls disable_autoboot).         *)
(*                                                                         *)
(* Shared state: the flag autoboot_enabled (no concurrency control, see    *)
(* the comment at droidboot.c:87), the pthread mutex action_mutex, the     *)
(* stashed update g_update_location, and the eMMC.  Data is abstracted:    *)
(* a device node is a member of Devices, the update package is the device  *)
(* it lives on, a fastboot command is its kind.                            *)
(***************************************************************************)
EXTENDS Naturals

CONSTANTS
  Delay,        \* g_autoboot_delay_secs, the countdown length in seconds
  Devices,      \* the block device nodes of the model
  NoDevice,     \* NULL device (no device2 declared, nothing mounted)
  VolDevice,    \* device of the sdcard Volume of recovery.fstab
  VolDevice2,   \* its secondary device, or NoDevice
  CacheDevice,  \* find_part_device(disk_info, CACHE_PTN)
  DataDevice    \* find_part_device(disk_info, DATA_PTN)

ASSUME DelayAssumption == Delay \in Nat
ASSUME DeviceAssumption ==
  /\ NoDevice \notin Devices
  /\ {VolDevice, CacheDevice, DataDevice} \subseteq Devices
  /\ VolDevice2 \in Devices \cup {NoDevice}
  /\ CacheDevice # DataDevice

VARIABLES
  pc,               \* program counter of each thread
  lock,             \* owner of action_mutex, or NoOwner
  autoboot_enabled, \* the countdown flag, 0 or 1
  seconds,          \* the countdown's local 'seconds', per counting thread
  cdRet,            \* the value countdown() returned, per counting thread
  g_update_location,\* TRUE when a detected update has been stashed
  pkg,              \* device holding the auto-OTA package, or NoDevice
  halted,           \* "no" while droidboot runs; how it left otherwise
  cfg,              \* boot configuration fixed at startup
  cancelled,        \* history: the flag was cleared while a countdown ran
  lateSleeps        \* history: sleeps of that countdown after the clear

vars == <<pc, lock, autoboot_enabled, seconds, cdRet, g_update_location,
          pkg, halted, cfg, cancelled, lateSleeps>>

MainThread  == "main"
InputThread == "input"
AutoThread  == "auto"
Threads  == {MainThread, InputThread, AutoThread}
Counters == {MainThread, AutoThread}          \* the threads that run countdown()
NoOwner  == "none"

Partitions == {"cache", "data"}
PartDevice == [p \in Partitions |-> IF p = "cache" THEN CacheDevice
                                                   ELSE DataDevice]

(* Fastboot commands: "write" stands for flash:, erase: and oem, the      *)
(* handlers of aboot.c that write the eMMC.                                *)
Commands == {"write", "continue", "reboot", "boot"}

(* Where each counting thread starts its countdown, and where it goes on. *)
CdStart  == [t \in Counters |-> IF t = MainThread THEN "upd_countdown"
                                            ELSE "auto_countdown"]
CdReturn == [t \in Counters |-> IF t = MainThread THEN "upd_cd_done"
                                            ELSE "auto_cd_done"]
(* Where start_default_kernel returns to when it fails.                   *)
SdkReturn == [t \in Counters |-> IF t = MainThread THEN "fb_unlock"
                                             ELSE "auto_exit"]

CdActive(t) == pc[t] \in {"cd_check", "cd_sleep"}

Halts == {"no", "died", "recovery", "reboot", "kexec"}

Running == halted = "no"

-----------------------------------------------------------------------------
(* main(): thread creation happens later; the input and autoboot threads  *)
(* do not exist yet.  The boot parameters are any the command line gives. *)
Init ==
  /\ pc = [t \in Threads |-> IF t = MainThread THEN "setup" ELSE "absent"]
  /\ lock = NoOwner
  /\ autoboot_enabled = 0
  /\ seconds = [t \in Counters |-> 0]
  /\ cdRet = [t \in Counters |-> 0]
  /\ g_update_location = FALSE
  /\ pkg \in {NoDevice, VolDevice, VolDevice2}
  /\ halted = "no"
  /\ cfg \in [autoboot : BOOLEAN, pause : BOOLEAN, hook : BOOLEAN,
              sdvol : BOOLEAN]
  /\ cancelled = FALSE
  /\ lateSleeps = 0

Goto(t, l) == pc' = [pc EXCEPT ![t] = l]

(* Dying, rebooting or kexec ends every thread of the process.           *)
Halt(how) ==
  /\ halted' = how
  /\ pc' = [t \in Threads |-> "gone"]

(* setup_disk_information: load_diskconfig or apply_disk_config failing   *)
(* is fatal (die()).                                                       *)
SetupDisk ==
  /\ pc[MainThread] = "setup"
  /\ \/ Goto(MainThread, "spawn_input") /\ UNCHANGED halted
     \/ Halt("died")
  /\ UNCHANGED <<lock, autoboot_enabled, seconds, cdRet, g_update_location,
                 pkg, cfg, cancelled, lateSleeps>>

(* pthread_create of input_listener_thread, then try_update_sw if         *)
(* volume_for_path(SDCARD_VOLUME) found a volume.                          *)
SpawnInput ==
  /\ pc[MainThread] = "spawn_input"
  /\ \/ /\ pc' = [pc EXCEPT ![InputThread] = "idle",
                            ![MainThread] = IF cfg.sdvol THEN "upd_detect"
                                                   ELSE "spawn_auto"]
        /\ UNCHANGED halted
     \/ Halt("died")
  /\ UNCHANGED <<lock, autoboot_enabled, seconds, cdRet, g_update_location,
                 pkg, cfg, cancelled, lateSleeps>>

(* The devices detect_sw_update may end up having mounted: vol->device,   *)
(* else vol->device2 when declared, else none.                            *)
MountOutcomes == {VolDevice, NoDevice} \cup
                   (IF VolDevice2 # NoDevice THEN {VolDevice2} ELSE {})

(* try_update_sw: return at once if an update is stashed; else detect the *)
(* package (mount, stat, umount) and count down if it is there.  An       *)
(* asprintf or strdup failing in detect_sw_update is fatal (die()).       *)
UpdDetect ==
  /\ pc[MainThread] = "upd_detect"
  /\ ~g_update_location
  /\ \/ /\ \E mounted \in MountOutcomes :
             Goto(MainThread, IF mounted # NoDevice /\ pkg = mounted
                              THEN "upd_countdown" ELSE "spawn_auto")
        /\ UNCHANGED halted
     \/ Halt("died")
  /\ UNCHANGED <<lock, autoboot_enabled, seconds, cdRet, g_update_location,
                 pkg, cfg, cancelled, lateSleeps>>

-----------------------------------------------------------------------------
(* countdown(action, seconds), run by thread t.                           *)
CdArm(t) ==
  /\ pc[t] = CdStart[t]
  /\ autoboot_enabled' = 1
  /\ seconds' = [seconds EXCEPT ![t] = Delay]
  /\ cancelled' = FALSE
  /\ lateSleeps' = 0
  /\ Goto(t, "cd_check")
  /\ UNCHANGED <<lock, cdRet, g_update_location, pkg, halted, cfg>>

(* Mutants of the loop test: 'for (; autoboot_enabled; ...)' and         *)
(* 'for (; seconds; ...)'.                                                *)
CdContinueNoSeconds(t) ==
  /\ pc[t] = "cd_check"
  /\ autoboot_enabled = 1
  /\ Goto(t, "cd_sleep")
  /\ UNCHANGED <<lock, autoboot_enabled, seconds, cdRet, g_update_location,
                 pkg, halted, cfg, cancelled, lateSleeps>>

CdContinueNoFlag(t) ==
  /\ pc[t] = "cd_check"
  /\ seconds[t] # 0
  /\ Goto(t, "cd_sleep")
  /\ UNCHANGED <<lock, autoboot_enabled, seconds, cdRet, g_update_location,
                 pkg, halted, cfg, cancelled, lateSleeps>>

(* The loop test 'seconds && autoboot_enabled' holds: go to sleep(1).     *)
CdContinue(t) ==
  /\ pc[t] = "cd_check"
  /\ seconds[t] # 0
  /\ autoboot_enabled = 1
  /\ Goto(t, "cd_sleep")
  /\ UNCHANGED <<lock, autoboot_enabled, seconds, cdRet, g_update_location,
                 pkg, halted, cfg, cancelled, lateSleeps>>

(* Mutant: the loop body sleeps but 'seconds--' is lost.                 *)
CdSleepNoDecrement(t) ==
  /\ pc[t] = "cd_sleep"
  /\ lateSleeps' = IF cancelled THEN lateSleeps + 1 ELSE lateSleeps
  /\ Goto(t, "cd_check")
  /\ UNCHANGED <<lock, autoboot_enabled, seconds, cdRet, g_update_location,
                 pkg, halted, cfg, cancelled>>

CdSleep(t) ==
  /\ pc[t] = "cd_sleep"
  /\ seconds' = [seconds EXCEPT ![t] = @ - 1]
  /\ lateSleeps' = IF cancelled THEN lateSleeps + 1 ELSE lateSleeps
  /\ Goto(t, "cd_check")
  /\ UNCHANGED <<lock, autoboot_enabled, cdRet, g_update_location, pkg,
                 halted, cfg, cancelled>>

(* The loop test fails: ret = autoboot_enabled; autoboot_enabled = 0.     *)
CdExit(t) ==
  /\ pc[t] = "cd_check"
  /\ ~(seconds[t] # 0 /\ autoboot_enabled = 1)
  /\ cdRet' = [cdRet EXCEPT ![t] = autoboot_enabled]
  /\ autoboot_enabled' = 0
  /\ Goto(t, CdReturn[t])
  /\ UNCHANGED <<lock, seconds, g_update_location, pkg, halted, cfg,
                 cancelled, lateSleeps>>

Countdown(t) == CdArm(t) \/ CdContinue(t) \/ CdSleep(t) \/ CdExit(t)

-----------------------------------------------------------------------------
(* try_update_sw after the countdown: a cancelled countdown returns 0.    *)
UpdCountdownDone ==
  /\ pc[MainThread] = "upd_cd_done"
  /\ Goto(MainThread, IF cdRet[MainThread] = 1 THEN "upd_lock" ELSE "spawn_auto")
  /\ UNCHANGED <<lock, autoboot_enabled, seconds, cdRet, g_update_location,
                 pkg, halted, cfg, cancelled, lateSleeps>>

UpdLock ==
  /\ pc[MainThread] = "upd_lock"
  /\ lock = NoOwner
  /\ lock' = MainThread
  /\ Goto(MainThread, "prov_hook")
  /\ UNCHANGED <<autoboot_enabled, seconds, cdRet, g_update_location, pkg,
                 halted, cfg, cancelled, lateSleeps>>

(* provisioning_checks: the platform_provision_function, when one is set. *)
ProvHook ==
  /\ pc[MainThread] = "prov_hook"
  /\ \/ Goto(MainThread, "prov_cache")
     \/ cfg.hook /\ Goto(MainThread, "upd_unlock")
  /\ UNCHANGED <<lock, autoboot_enabled, seconds, cdRet, g_update_location,
                 pkg, halted, cfg, cancelled, lateSleeps>>

(* provision_partition(name, vol): when vol->device is the partition's    *)
(* device, check the filesystem in place; otherwise erase_partition,      *)
(* which destroys what the device held.  Any failure ends provisioning.   *)
Erased(d) == IF pkg = d THEN NoDevice ELSE pkg

(* Mutant: erase the partition without comparing it with vol->device.    *)
ProvisionPartitionAlwaysErase(p, here, next) ==
  /\ pc[MainThread] = here
  /\ \/ Goto(MainThread, "upd_unlock") /\ UNCHANGED pkg
     \/ Goto(MainThread, next) /\ pkg' = Erased(PartDevice[p])
     \/ Goto(MainThread, "upd_unlock") /\ pkg' \in {pkg, Erased(PartDevice[p])}
  /\ UNCHANGED <<lock, autoboot_enabled, seconds, cdRet, g_update_location,
                 halted, cfg, cancelled, lateSleeps>>

ProvisionPartition(p, here, next) ==
  /\ pc[MainThread] = here
  /\ \/ Goto(MainThread, "upd_unlock") /\ UNCHANGED pkg   \* lookup failed
     \/ /\ VolDevice = PartDevice[p]
        /\ \E ok \in BOOLEAN : Goto(MainThread, IF ok THEN next ELSE "upd_unlock")
        /\ UNCHANGED pkg
     \/ /\ VolDevice # PartDevice[p]
        /\ \/ Goto(MainThread, next) /\ pkg' = Erased(PartDevice[p])
           \/ Goto(MainThread, "upd_unlock") /\ pkg' \in {pkg, Erased(PartDevice[p])}
  /\ UNCHANGED <<lock, autoboot_enabled, seconds, cdRet, g_update_location,
                 halted, cfg, cancelled, lateSleeps>>

ProvCache == ProvisionPartition("cache", "prov_cache", "prov_data")
ProvData  == ProvisionPartition("data", "prov_data", "upd_decide")

(* Apply the update now, or stash it for 'fastboot continue'.             *)
UpdDecide ==
  /\ pc[MainThread] = "upd_decide"
  /\ \/ ~cfg.pause /\ Goto(MainThread, "upd_apply")
                   /\ UNCHANGED g_update_location
     \/ cfg.pause /\ g_update_location' = TRUE /\ Goto(MainThread, "upd_unlock")
  /\ UNCHANGED <<lock, autoboot_enabled, seconds, cdRet, pkg, halted, cfg,
                 cancelled, lateSleeps>>

(* apply_sw_update reboots into recovery, or returns when it failed.      *)
UpdApply ==
  /\ pc[MainThread] = "upd_apply"
  /\ \/ Halt("recovery")
     \/ Goto(MainThread, "upd_unlock") /\ UNCHANGED halted
  /\ UNCHANGED <<lock, autoboot_enabled, seconds, cdRet, g_update_location,
                 pkg, cfg, cancelled, lateSleeps>>

UpdUnlock ==
  /\ pc[MainThread] = "upd_unlock"
  /\ lock' = NoOwner
  /\ Goto(MainThread, "spawn_auto")
  /\ UNCHANGED <<autoboot_enabled, seconds, cdRet, g_update_location, pkg,
                 halted, cfg, cancelled, lateSleeps>>

(* main: start the autoboot thread unless an update is stashed, then      *)
(* fastboot_init.                                                         *)
SpawnAuto ==
  /\ pc[MainThread] = "spawn_auto"
  /\ \/ /\ cfg.autoboot /\ ~g_update_location
        /\ pc' = [pc EXCEPT ![MainThread] = "fb_idle", ![AutoThread] = "auto_countdown"]
        /\ UNCHANGED halted
     \/ /\ cfg.autoboot /\ ~g_update_location
        /\ Halt("died")
     \/ /\ ~(cfg.autoboot /\ ~g_update_location)
        /\ Goto(MainThread, "fb_idle") /\ UNCHANGED halted
  /\ UNCHANGED <<lock, autoboot_enabled, seconds, cdRet, g_update_location,
                 pkg, cfg, cancelled, lateSleeps>>

-----------------------------------------------------------------------------
(* The fastboot loop takes action_mutex around every command.             *)
FbReceive(c) ==
  /\ pc[MainThread] = "fb_idle"
  /\ lock = NoOwner
  /\ lock' = MainThread
  /\ Goto(MainThread, CASE c = "write"    -> "fb_write"
                  [] c = "continue" -> "sdk_mount"
                  [] c = "reboot"   -> "fb_reboot"
                  [] c = "boot"     -> "fb_unlock")
  /\ UNCHANGED <<autoboot_enabled, seconds, cdRet, g_update_location, pkg,
                 halted, cfg, cancelled, lateSleeps>>

(* cmd_flash / cmd_erase / cmd_oem finish; a flash or erase may overwrite *)
(* the partition holding the package.                                     *)
FbWriteDone ==
  /\ pc[MainThread] = "fb_write"
  /\ pkg' \in {pkg, NoDevice}
  /\ Goto(MainThread, "fb_unlock")
  /\ UNCHANGED <<lock, autoboot_enabled, seconds, cdRet, g_update_location,
                 halted, cfg, cancelled, lateSleeps>>

(* cmd_reboot: reply OKAY, sync, __reboot; a failed reboot returns.       *)
FbReboot ==
  /\ pc[MainThread] = "fb_reboot"
  /\ \/ Halt("reboot")
     \/ Goto(MainThread, "fb_unlock") /\ UNCHANGED halted
  /\ UNCHANGED <<lock, autoboot_enabled, seconds, cdRet, g_update_location,
                 pkg, cfg, cancelled, lateSleeps>>

FbUnlock ==
  /\ pc[MainThread] = "fb_unlock"
  /\ lock' = NoOwner
  /\ Goto(MainThread, "fb_idle")
  /\ UNCHANGED <<autoboot_enabled, seconds, cdRet, g_update_location, pkg,
                 halted, cfg, cancelled, lateSleeps>>

-----------------------------------------------------------------------------
(* start_default_kernel, from cmd_continue (main) or autoboot_thread:     *)
(* mount the second-stage partition, then kexec_linux.                    *)
SdkMount(t) ==
  /\ pc[t] = "sdk_mount"
  /\ \E ok \in BOOLEAN : Goto(t, IF ok THEN "sdk_kexec" ELSE SdkReturn[t])
  /\ UNCHANGED <<lock, autoboot_enabled, seconds, cdRet, g_update_location,
                 pkg, halted, cfg, cancelled, lateSleeps>>

SdkKexec(t) ==
  /\ pc[t] = "sdk_kexec"
  /\ \/ Halt("kexec")
     \/ Goto(t, SdkReturn[t]) /\ UNCHANGED halted
  /\ UNCHANGED <<lock, autoboot_enabled, seconds, cdRet, g_update_location,
                 pkg, cfg, cancelled, lateSleeps>>

(* autoboot_thread: boot only when the countdown completed.               *)
AutoCountdownDone ==
  /\ pc[AutoThread] = "auto_cd_done"
  /\ Goto(AutoThread, IF cdRet[AutoThread] = 1 THEN "sdk_mount" ELSE "auto_exit")
  /\ UNCHANGED <<lock, autoboot_enabled, seconds, cdRet, g_update_location,
                 pkg, halted, cfg, cancelled, lateSleeps>>

-----------------------------------------------------------------------------
(* input_callback on an EV_KEY event: disable_autoboot tests the flag ... *)
KeyEvent ==
  /\ pc[InputThread] = "idle"
  /\ autoboot_enabled = 1
  /\ Goto(InputThread, "clear")
  /\ UNCHANGED <<lock, autoboot_enabled, seconds, cdRet, g_update_location,
                 pkg, halted, cfg, cancelled, lateSleeps>>

(* ... and then clears it, whatever happened in between.                 *)
DisableAutoboot ==
  /\ pc[InputThread] = "clear"
  /\ autoboot_enabled' = 0
  /\ cancelled' = (cancelled \/ \E t \in Counters : CdActive(t))
  /\ Goto(InputThread, "idle")
  /\ UNCHANGED <<lock, seconds, cdRet, g_update_location, pkg, halted, cfg,
                 lateSleeps>>

-----------------------------------------------------------------------------
(* The steps each thread takes by itself, and the user's and host's.      *)
MainStep ==
  \/ SetupDisk \/ SpawnInput \/ UpdDetect \/ Countdown(MainThread)
  \/ UpdCountdownDone \/ UpdLock \/ ProvHook \/ ProvCache \/ ProvData
  \/ UpdDecide \/ UpdApply \/ UpdUnlock \/ SpawnAuto
  \/ FbWriteDone \/ FbReboot \/ FbUnlock \/ SdkMount(MainThread) \/ SdkKexec(MainThread)

AutoStep ==
  Countdown(AutoThread) \/ AutoCountdownDone \/ SdkMount(AutoThread) \/ SdkKexec(AutoThread)

HostStep == \E c \in Commands : FbReceive(c)

InputStep == KeyEvent \/ DisableAutoboot

Next == MainStep \/ AutoStep \/ HostStep \/ InputStep

(* The main and autoboot threads are scheduled by the kernel and sleep()  *)
(* returns, so both are weakly fair; the user and the host are not.       *)
Spec == Init /\ [][Next]_vars
FairSpec == Spec /\ WF_vars(MainStep) /\ WF_vars(AutoStep)

-----------------------------------------------------------------------------
(* The labels each thread can be at.                                     *)
CountdownPcs == {"cd_check", "cd_sleep"}
StartPcs  == {"setup", "spawn_input"}
UpdatePcs == {"upd_detect", "upd_countdown", "upd_cd_done", "upd_lock",
              "prov_hook", "prov_cache", "prov_data", "upd_decide",
              "upd_apply", "upd_unlock", "spawn_auto"}
FbPcs     == {"fb_idle", "fb_write", "fb_reboot", "fb_unlock", "sdk_mount",
              "sdk_kexec", "gone"}
MainPcs   == StartPcs \cup UpdatePcs \cup CountdownPcs \cup FbPcs
AutoPcs   == {"absent", "auto_countdown", "auto_cd_done", "sdk_mount",
              "sdk_kexec", "auto_exit", "gone"} \cup CountdownPcs
InputPcs  == {"absent", "idle", "clear", "gone"}

TypeOK ==
  /\ pc \in [Threads -> MainPcs \cup AutoPcs \cup InputPcs]
  /\ pc[MainThread] \in MainPcs
  /\ pc[AutoThread] \in AutoPcs
  /\ pc[InputThread] \in InputPcs
  /\ lock \in {NoOwner, MainThread}
  /\ autoboot_enabled \in {0, 1}
  /\ seconds \in [Counters -> 0..Delay]
  /\ cdRet \in [Counters -> {0, 1}]
  /\ g_update_location \in BOOLEAN
  /\ pkg \in Devices \cup {NoDevice}
  /\ halted \in Halts
  /\ cfg \in [autoboot : BOOLEAN, pause : BOOLEAN, hook : BOOLEAN,
              sdvol : BOOLEAN]
  /\ cancelled \in BOOLEAN
  /\ lateSleeps \in Nat

(* Countdown contract (spec section 8), about countdown() racing          *)
(* disable_autoboot: a countdown returns 1 exactly when no key cleared    *)
(* the flag while it ran, and then it slept all Delay seconds; once the   *)
(* flag was cleared it sleeps at most once more.                          *)
CountdownContract ==
  /\ lateSleeps <= 1
  /\ \A t \in Counters : pc[t] = CdReturn[t] =>
        /\ (cdRet[t] = 1) = ~cancelled
        /\ cdRet[t] = 1 => seconds[t] = 0

(* provision_partition never erases the device the update package was    *)
(* found on: the package is still there when try_update_sw reaches the    *)
(* apply/stash decision, and still there when it releases action_mutex,   *)
(* also after provisioning_checks gave up with cache already erased or    *)
(* apply_sw_update failed, so that the next boot finds it again.          *)
UpdatePackagePreserved ==
  pc[MainThread] \in {"upd_decide", "upd_apply", "upd_unlock"} => pkg # NoDevice

(* Startup (disk setup, try_update_sw with its countdown, starting the    *)
(* autoboot thread) always ends: droidboot listens for fastboot or has    *)
(* left (died, rebooted, kexec'd).                                        *)
StartupCompletes == <>(pc[MainThread] = "fb_idle" \/ ~Running)

(* No two threads touch the eMMC at once (the comment on action_mutex:    *)
(* "Threads which touch the disk should do likewise").                    *)
TouchesDisk(t) ==
  pc[t] \in {"prov_cache", "prov_data", "upd_apply", "fb_write",
             "sdk_mount", "sdk_kexec"}
DiskAccessExclusive ==
  \A t1, t2 \in Counters : t1 # t2 => ~(TouchesDisk(t1) /\ TouchesDisk(t2))

(* A stashed update is applied before any other kernel boots: the spec    *)
(* says a paused update waits for 'fastboot continue'.                    *)
DeferredUpdateApplied == g_update_location => halted # "kexec"

=============================================================================
