# TLA+ models of droidboot (src/droidboot.c, src/aboot.c)

This directory holds TLA+ models of the droidboot bootloader's flashing engine and boot orchestration:

- the TLC configurations that model-check them on small instances;
- TLAPS proofs of their main invariants.

Everything here is written from the C sources under `src/`. The fastboot transport (`fastboot.c`) is not in this repository: the few steps the models need from it are written from `spec.md` and marked `spec_modelled` in `PROJECT.json`.

## 1. The system

droidboot is one process with three threads, plus the host on the USB side.

- **Main thread** (`main`, droidboot.c:453-528). It does the following, in order:
  1. Reads the disk layout (`setup_disk_information`); a failure is fatal.
  2. Starts the input listener thread.
  3. If recovery.fstab has an sdcard volume, runs `try_update_sw` synchronously:
     - `detect_sw_update` mounts `vol->device`, or else `vol->device2`, and looks for the auto-OTA package;
     - a `countdown("SW update")` gives the user a chance to cancel;
     - under `action_mutex`, `provisioning_checks` runs the platform hook, then `provision_partition` for cache and data: a partition is checked in place when it is `vol->device`, and erased otherwise;
     - the package is then applied (`apply_sw_update`, which reboots into recovery) or stashed in `g_update_location` when `droidboot.updatepause` is set.
  4. Starts the autoboot thread when `droidboot.bootloader` is set and nothing was stashed.
  5. Enters the fastboot loop (`fastboot_init`). The loop takes `action_mutex` around each command handler.
- **Autoboot thread** (`autoboot_thread`, 318-329). It runs `countdown("boot")`. If the countdown completes, it runs `start_default_kernel`: mount the second-stage partition, then `kexec_linux`. It does this **without** `action_mutex`.
- **Input listener thread** (331-366). On every key event it calls `disable_autoboot`. That function tests the shared flag `autoboot_enabled` and then clears it. The flag has no concurrency control (comment at droidboot.c:87).
- **Fastboot command handlers** (aboot.c). They are:
  - `flash:` (cmd_flash): resolve the target, route by a gzip test, a popen pipeline, fwrite, pclose, BLKRRPART for the whole disk, then for an ext4 partition with the superblock magic: resize2fs, e2fsck and tune2fs;
  - `erase:` (make_ext4fs);
  - `oem system|partition`, `boot` (a stub), `reboot`, and `continue` (start_default_kernel).

  Each handler must make exactly one terminal reply (spec section 6).

The interactions are:

- **The autoboot flag.** `countdown` re-arms it, the loop tests it, and `disable_autoboot` clears it. Two different countdowns use it: the update countdown on the main thread, and the boot countdown on the autoboot thread.
- **The eMMC.** Provisioning, the fastboot handlers and the boot launcher all touch it. The first two hold `action_mutex`; the boot launcher does not.
- **`g_update_location`.** Written once, by try_update_sw; read by main before starting the autoboot thread.

## 2. Modules

| Module | Models | State | Actions |
|---|---|---|---|
| `Droidboot` | droidboot.c threads; the fastboot loop abstracted to its lock and to "a command that writes the disk" | `pc` per thread, `lock` (owner of action_mutex), `autoboot_enabled`, `seconds`/`cdRet` per counting thread, `g_update_location`, `pkg` (device the package is on, or `NoDevice` once erased), `halted`, `cfg` (boot parameters), history `cancelled`/`lateSleeps` | SetupDisk, SpawnInput, UpdDetect, CdArm/CdContinue/CdSleep/CdExit (countdown, per thread), UpdCountdownDone, UpdLock, ProvHook, ProvCache/ProvData (provision_partition), UpdDecide, UpdApply, UpdUnlock, SpawnAuto, FbReceive, FbWriteDone, FbReboot, FbUnlock, SdkMount/SdkKexec (start_default_kernel, per thread), AutoCountdownDone, KeyEvent, DisableAutoboot |
| `MCDroidboot` | constants for TLC | three devices; the sdcard volume is emulated on data and has a card of its own as device2 | |
| `DroidbootProofs` | TLAPS proofs about `Droidboot` | | |
| `Aboot` | aboot.c handlers, one command at a time (the fastboot loop serialises them) | `hpc` (handler step), `cur` (command), `dev`, `buf3` (byte 3 of the download buffer), `content` per target, `replies`/`okay`, `halted`, `ncmds`, history `route`/`wrote`/`fsck` | Receive; FlashResolve, FlashWrite, FlashTable, FlashSuperblock, FlashResize, FlashFsck, FlashTune (cmd_flash by phase); CmdErase, CmdOem, CmdBoot, CmdReboot, CmdContinue |
| `MCAboot` | constants for TLC | a Linux partition and a raw one; names: both, `disk`, `osip0`, an unknown one; 23 payload prefixes over bytes {0, 8, 0x1f, 0x8b} | |
| `FastbootProtocol` | what the host sees of the handlers (spec 4.1, 6): the abstract specification `Aboot` implements | `phase` (idle, busy in a handler, gone), `answered`, `okay`, `halted` | Accept, Answer(ok), Restart (reboot after OKAY), HandOff (kexec), Crash |
| `AbootProofs` | TLAPS proofs about `Aboot`, and of its refinement of `FastbootProtocol` | | |
| `Cmdline` | `parse_cmdline_option` over each token of the kernel command line, then `main`'s autoboot decision, `autoboot_thread`'s countdown and `start_default_kernel` | `cmdline`, `next` (token handed over next), `conf` (the seven `g_` parameters), `pc`, `enabled`, `seconds` (a `Width`-bit int), `sleeps` (history), `booted` (the path kexec got), `halted` | ParseOption, StartAutoboot, CdArm/CdContinue/CdSleep/CdExit, KeyPress, SdkMount, SdkKexec |
| `CmdlineProofs` | TLAPS proofs about `Cmdline`, for every `Width` and every set of command lines | | |
| `MCCmdline` | constants for TLC | every command line of up to two tokens over the seven parameter names, an unknown `droidboot.x`, another prefix and the empty name, with values `1`, `-1`, a partition name, or no `=` at all | |

Abstractions:

- **Update package.** It is the device it lives on. Erasing that device sets `pkg` to `NoDevice`.
- **Fastboot command in `Droidboot`.** A command is its kind: `write` stands for flash/erase/oem; the others are `continue`, `reboot` and `boot`. A write may destroy the package.
- **Payload in `Aboot`.** A payload is its first bytes. A 4-byte payload stands for any longer image with that prefix. The gzip test reads at most 4 bytes, and only these can matter.
- **Target contents.** Each target holds a record saying how the last write left it:
  - raw payload or unpacked payload;
  - a fresh ext4;
  - torn, by a write that stopped part way (a short write to the disk node also overlays the partitions on it);
  - overlaid by a whole-disk image;
  - `host`: rewritten by a command `oem system` ran (any set of targets), or by the partition table `oem partition` wrote to the disk node.

  An empty payload (`sz = 0`) gives dd no input, so the target keeps what it held.
- **External calls.** Every external call the code checks (mount, popen, fwrite, make_ext4fs, resize2fs, e2fsck, tune2fs, kexec, apply_sw_update, asprintf/strdup) is a nondeterministic choice among the outcomes the code distinguishes. Every error path of the code is therefore a reachable step.
- **Command-line tokens in `Cmdline`.** A token is its name, whether it had an `=`, and its value. A name is the pair (first nine characters, rest), exactly what `strncmp(name, "droidboot", 9)` and `strcmp` compare. Values are character sequences; `Atoi` is glibc's atoi (sign, longest run of digits). The countdown's `int seconds` keeps its width: `Width = 5` bits stand for 32, and `Dec` wraps at `INT_MIN` as the compiled loop does.
- **Refinement mapping.** `Aboot` implements `FastbootProtocol` with `phase <- Phase` (idle and gone as they are, every handler step busy) and `answered <- replies > 0`; `okay` and `halted` map to themselves.
- **Dying steps.** `die()`, a reboot, and a successful kexec or recovery reboot end the process: `Halt` moves every thread to `gone`.

## 3. Runs

| Run | cfg | Expect | Checks |
|---|---|---|---|
| droidboot_boot_flow | MCDroidboot.cfg | pass | TypeOK, CountdownContract, UpdatePackagePreserved, StartupCompletes |
| droidboot_disk_race | MCDroidboot_diskrace.cfg | violation | DiskAccessExclusive |
| droidboot_continue_stash | MCDroidboot_continue.cfg | violation | DeferredUpdateApplied |
| droidboot_device2 | MCDroidboot_device2.cfg | violation | UpdatePackagePreserved, with device2 = data |
| aboot_handlers | MCAboot.cfg | pass | TypeOK, ReplyOnce, FlashOkayComplete, ProtocolRefined |
| aboot_gzip | MCAboot_gzip.cfg | violation | GzipRoutedByHeader |
| aboot_pclose | MCAboot_pclose.cfg | violation | FlashOkayHoldsImage |
| aboot_fatal | MCAboot_fatal.cfg | violation | CommandFailureNotFatal |
| cmdline_parse | MCCmdline.cfg | pass | TypeOK, IntParamsFromCmdline, BootAfterDelay |
| cmdline_bootdir | MCCmdline_bootdir.cfg | violation | BootPathFromCmdline |
| cmdline_delay | MCCmdline_delay.cfg | violation | CountdownWithinDelay |

### The properties

- **CountdownContract.** It concerns `countdown` racing `disable_autoboot`, for either countdown. A countdown returns 1 exactly when no key cleared the flag while it ran, and it then slept all `Delay` seconds. Once the flag is cleared, the countdown sleeps at most once more (spec section 8: "cancelled after at most k+1 iterations").

  The history variable `cancelled` records a clear that happened while a countdown was active; `lateSleeps` counts the sleeps after it. The check-then-clear in `disable_autoboot` is two steps, so a key press that started before `CdArm` can clear the flag of a countdown armed in between. The property must hold for that case too.
- **UpdatePackagePreserved.** When try_update_sw reaches its apply-or-stash decision, the package it detected is still on its device.
- **StartupCompletes** (liveness). Startup always reaches the fastboot loop, or droidboot has stopped.
- **DiskAccessExclusive.** No two threads touch the eMMC at once.
- **DeferredUpdateApplied.** When an update was stashed, no other kernel is kexec'd before it is applied.
- **ReplyOnce.** Every handler makes exactly one terminal reply on every path that returns, and never two (including erase's FAIL-then-die and reboot's OKAY-then-reboot).
- **FlashOkayComplete.** OKAY to a flash means fwrite took the whole payload and, if e2fsck ran, it exited 0 or 1.
- **GzipRoutedByHeader.** A payload goes through `gzip -d` exactly when it starts 1f 8b 08 (RFC 1952, as the code's comment and spec 4.2 say).
- **FlashOkayHoldsImage.** A flash of a non-empty image the host was told succeeded left the image on the target.
- **CommandFailureNotFatal.** No command failure ends the process (spec 7).
- **ProtocolRefined.** The handlers implement `FastbootProtocol`. Every command is accepted only when the previous one was answered; a handler answers once, or ends the process without a second answer; `reboot` answers OKAY before the device restarts. The mutant that moves `__reboot` before `fastboot_okay` breaks it.
- **IntParamsFromCmdline.** Once every token was parsed, each int parameter holds the atoi of the last `droidboot.<name>=` token naming it, or its initialiser. This fails if a later token does not win, if a token without `=` is taken, or if a branch writes another parameter.
- **BootPathFromCmdline.** `start_default_kernel` boots from the partition and directory that `bootpart=` and `bootdir=` named, or from the defaults (spec 6).
- **BootAfterDelay.** When `start_default_kernel` reaches `kexec_linux`, the countdown slept exactly `Dist(delay)` times. `Dist(x)` is the number of `seconds--` steps from `x` to 0 in a `Width`-bit int: `x` when `x >= 0`, and `x + 2^Width` (through `INT_MIN`) otherwise. This is what the code does, the negative case included; `CountdownWithinDelay` is what spec 6 asks for. The mutant that writes the loop test as `seconds > 0` breaks it.
- **CountdownWithinDelay.** The autoboot countdown sleeps at most `g_autoboot_delay_secs` times, and not at all for a delay of 0 or less.

### What the violations show (see `findings` in PROJECT.json)

- **droidboot_disk_race.** While the autoboot countdown runs, the host can already send `flash`. When the countdown ends, the autoboot thread mounts and kexecs without `action_mutex`, while the main thread holds it and writes the disk.
- **droidboot_continue_stash.** `fastboot continue` after a stashed update calls `start_default_kernel`. `g_update_location` is never used (aboot.c:361-365).
- **droidboot_device2.** Take a recovery.fstab whose sdcard has device2 = the data partition.
  - If mounting `vol->device` fails, the package is found on data.
  - `provision_partition` compares data with `vol->device` only, so it erases data ("Not checking device2", droidboot.c:149).
- **aboot_gzip.** The test reads `data_bytes[3]` (the FLG byte) where RFC 1952 puts CM at offset 2.
  - A real gzip image without the FNAME flag is written still compressed.
  - A raw image with 8 at offset 3 is piped to gzip.
  - For a 3-byte payload the test reads a stale byte of the download buffer (the counterexample).
- **aboot_pclose.** pclose's status is discarded (aboot.c:202). After fwrite took a non-empty image, a dd or gzip that failed part way still gives OKAY. The counterexample is a 2-byte raw image whose dd leaves the disk torn.
- **aboot_fatal.** cmd_erase calls `die()` after `find_part_device` fails (aboot.c:82). Likewise, fwrite into a gzip that rejected the stream raises SIGPIPE, which nothing ignores.

- **cmdline_bootdir.** `droidboot.bootdir=<d>` assigns `g_2ndstageboot_part` (droidboot.c:442). The kernel is looked for under `/mnt/<d>/2ndstageboot/`: the directory became the partition and the directory override is lost. Spec section 9 already calls this aliasing a likely defect.
- **cmdline_delay.** `droidboot.delay=-1` is taken unchecked (droidboot.c:432). The loop `for (; seconds && autoboot_enabled; seconds--)` only stops at 0, so it runs through `INT_MIN` and sleeps `2^Width - 1` times: about 136 years at 32 bits, instead of booting at once.

### Bounds and why they are enough

- **`Delay = 2`.** A key press can land before the first sleep, between the two sleeps, or after the last. That gives every position of the race between the loop test and `disable_autoboot`.
- **Devices.** Three devices let device and device2 be equal to, or different from, cache and data.
- **The boot parameters.** `cfg` ranges over all 16 combinations.
- **Aboot.** `MaxCmds = 2` lets the first download leave byte 3 behind for the second. The payload set covers every combination of the three header bytes the test and RFC 1952 look at.
- **Cmdline.** Two tokens are enough for a later token to override an earlier one, for each pair of parameter names (the aliasing of bootpart and bootdir needs both), and for a token without `=` to come before or after a real one. The values `1` and `-1` give a zero/non-zero autoboot flag and a negative delay. `Width = 5` keeps the wrap of `seconds--` through `INT_MIN` within 31 sleeps.
- **Sizes.** The passing runs finish in seconds: 16,492 (Droidboot), 108,448 (Aboot, with the refinement) and 14,632 (Cmdline) distinct states. Every action and every disjunct fires.
- **Deadlock checking is off.** Droidboot really stops (die, reboot, kexec, recovery). In `Aboot` the command bound ends a behaviour; in `Cmdline` the autoboot thread ends and `main` stays in the fastboot loop, which this module does not model.

### Fairness

`FairSpec` has weak fairness on the main thread's steps and on the autoboot thread's steps. Both are kernel-scheduled threads whose only blocking call is `sleep(1)`, which returns. The user (key presses) and the host (fastboot commands) get no fairness: nothing obliges them to act. `StartupCompletes` holds under these assumptions. The mutant that loses `seconds--` breaks it.

## 4. Proofs (TLAPS, DroidbootProofs.tla, AbootProofs.tla and CmdlineProofs.tla)

All proofs are checked by `tlapm` to the last leaf.

- **`TypeCorrect`: `Spec => []TypeOK`, for every `Delay \in Nat` and every device assignment that `DeviceAssumption` allows.**
  - `TypeOK` is not inductive. `CdSleep` decrements `seconds`, which stays in `0..Delay` only because the loop test let the thread into `cd_sleep` with `seconds # 0`.
  - The inductive invariant `TypeInv` adds `pc[t] = "cd_sleep" => seconds[t] > 0`. It is split into `ThreadsOK` (threads, flag, counters) and `DataOK` (lock, stash, package, configuration), each preserved by its own lemma, with one step per action.
- **`UpdatePackageSafe`: under `Device2Apart` (device2 is neither the cache nor the data partition), `Spec => []UpdatePackagePreserved`.**
  - The inductive invariant is `TypeInv /\ PkgInv`. `PkgInv` says: from detection to the decision (`PkgPcs`), the package is on `vol->device` or `vol->device2`. The key step is that provisioning then only erases a partition different from both.
  - TLC checked `PkgInv` on the passing run before the proof.
  - The hypothesis is needed: the droidboot_device2 run is the counterexample without it.
- **`CountdownCorrect`: `Spec => []CountdownContract`, for every `Delay`.**
  - The inductive invariant is `TypeInv /\ CountInv`. `CountInv` says:
    - the autoboot countdown only exists once `main` has reached the fastboot loop, so at most one countdown runs at a time;
    - `lateSleeps <= 1`, and `lateSleeps = 0` until `disable_autoboot` has run;
    - while a countdown is active, the flag is 1 exactly when not cancelled;
    - a countdown asleep after the cancel has not yet slept late;
    - at the return, `cdRet` and `seconds` are as `CountdownContract` says.
  - The `DisableAutoboot` step splits on whether a countdown is active.
- **`RepliedOnce`: `Spec => []ReplyOnce`, and `FlashOkayAfterChecks`: `Spec => []FlashOkayComplete` (AbootProofs.tla), for every set of partitions, names and payloads.**
  - Both rest on one inductive invariant, `ReplyInv`. It says:
    - a handler in progress has not replied;
    - its step belongs to the command being handled;
    - the steps after `fwrite` know that the write was complete and the target is not `osip0`;
    - `fsck` stays empty until `e2fsck` runs, and only 0 or 1 reaches `tune2fs`.
  - `ReplyInvStep` has one case per handler step.
- **`AbootTypeCorrect`: `Spec => []TypeOK` for `Aboot`.**
  - `TypeOK` is not inductive: `FlashWrite` puts `cur.payload` on the target, which is an image a target can hold only if the command is a flash carrying a downloaded payload. The invariant `AbootTypeInv` adds `FlashPayload` (a flash command's payload is in `Payloads`), and the step lemma also uses `ReplyInv` (at `flash_write` the command is a flash).
  - `AbootTypeInv` is split into `TypeCtl`, `TypeData` and `okay \in BOOLEAN`: SMT fails on a goal that mixes the Boolean with arithmetic, and Zenon proves the Boolean part alone (`OkayBoolean`).
  - Lemmas `ContentsForms`, `PipeResultType` and `WriteToType` say that what the pipeline and a whole-disk write leave behind are images of `Contents`.
- **`AbootImplementsProtocol`: `Spec => ProtocolRefined`, that is, `Aboot` implements `FastbootProtocol` under the mapping above.**
  - `ProtocolInit`: the initial state maps to an idle, unanswered protocol.
  - `ProtocolStep`: under `ReplyInv`, every step maps to a protocol step or a stutter. `Receive` is `Accept`. A handler step is shown (`HandlerStepShaped`) to have one of five shapes (answer and return, an inner step with no reply, reply-then-reboot, hand-off by kexec, or a crash) and each shape is one protocol action (`ShapedRefines`).
  - The temporal step needs `[]ReplyInv`, from `RepliedOnce`'s argument.
- **`CmdlineTypeCorrect`: `Spec => []TypeOK`, `CmdlineIntParams`: `Spec => []IntParamsFromCmdline`, and `BootAfterDelayCorrect`: `Spec => []BootAfterDelay` (CmdlineProofs.tla), for every `Width >= 2` and every set of command lines.**
  - They share one inductive invariant, `IInv == TypeOK /\ ParseInv /\ CountInv`. TLC checked it on the cmdline_parse instance before the proof.
  - `ParseInv` is needed for `IntParamsFromCmdline`, which only speaks of the end of the parse. It says that after the first `next - 1` tokens each int parameter equals `SetSoFar(cmdline, k, next - 1)`: the atoi of the last of those tokens that sets it, or its initialiser. It also ties `pc = "gone"` to `halted`, and says the parse is complete once `pc` has left `parse`. `SetSoFarStep` unfolds one token; `SetSoFarAll` equates the whole command line with `LastSetting`.
  - `CountInv` is needed for `TypeOK` and `BootAfterDelay`. `sleeps` stays below `2^Width` only because, during the countdown, `sleeps + Dist(seconds) = Dist(delay)`. `DecStep` shows that `Dec` (the wrapping `seconds--`) lowers `Dist` by exactly one; `seconds # 0` at `cd_sleep` keeps the step defined. At `sdk_mount` and after `kexec` the equation has `seconds = 0`.
  - `CmdlineAssumption` states `2^(Width-1) \in Nat \ {0}` and `2^Width = 2 * 2^(Width-1)`. These are arithmetic facts for every `Width \in Nat`, but the provers do not derive them from `^`, and TLC evaluates them on every run.
- **`UpdatePackageSafe`** covers the whole of `try_update_sw` after provisioning: the decision, the apply, and the unlock after an aborted provisioning (cache erased, then data failing).

Out of the prover's reach, so checked by TLC only:

- liveness (`StartupCompletes`, which needs fairness and ENABLED);
- the `Aboot` properties `GzipHeader`, `GzipRoutedByHeader`, `FlashOkayHoldsImage` and `CommandFailureNotFatal`. Each has a violation run, so there is nothing to prove.

## 5. Not modelled

- **The fastboot transport** (not in `src/`). Only its lock around handlers and the download buffer are modelled, from the spec.
- **External libraries and tools.** These are libdiskconfig, minui, the charger battery gate in `main` (USE_GUI), recovery's `apply_sw_update`, the OSIP updater and kexec. Only their outcomes are modelled.
- **`parse_cmdline_option` in `Droidboot`.** There its results enter as `cfg` and `Delay`; `Cmdline` models the parsing itself and feeds the same countdown and launcher. The two modules are not composed.
- **`mount_partition` with a NULL `ptn`** (droidboot.c:373) and **`fastboot_init(g_scratch_size * MEGABYTE)`** (droidboot.c:524): both are outside `src/`; the first is a choice of failure or crash, the second is listed as a hazard with no property.
- **`Width`.** TLC runs `Cmdline` with 5-bit ints. `BootAfterDelayCorrect` shows the exact sleep count for every width, 32 bits included.

## 6. Plan for the next steps

1. Show that `Aboot`'s flash/erase refine `Droidboot`'s abstract `FbWriteDone` (a write may destroy the package and nothing else), using INSTANCE with a refinement mapping.
2. Compose `Cmdline` with `Droidboot`, so that the parsed delay and flags drive both countdowns.
