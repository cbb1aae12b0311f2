------------------------------- MODULE Aboot -------------------------------
(***************************************************************************)
(* The fastboot command handlers of src/aboot.c: flash:, erase:, oem,      *)
(* boot, reboot and continue.  The fastboot loop runs one handler at a     *)
(* time under action_mutex, so a handler is a sequence of steps of one     *)
(* process; each step ends in a reply, a fatal stop, or the next step.     *)
(*                                                                         *)
(* Data is abstracted: a payload is the sequence of its first bytes (at    *)
(* most 4: a payload of 4 bytes stands for any longer image with that      *)
(* prefix), over a few byte values; what a target holds is the image the   *)
(* last write left there.  The outcome of every external call (popen,      *)
(* fwrite, make_ext4fs, resize2fs, e2fsck, ...) is a nondeterministic      *)
(* choice among the results the code distinguishes.                        *)
(***************************************************************************)
EXTENDS Integers, Sequences

CONSTANTS
  Parts,       \* partition names of disk_layout.conf
  LinuxParts,  \* those of type PC_PART_TYPE_LINUX
  Names,       \* argument strings the host may send to flash: and erase:
  Payloads,    \* images the host may download (first bytes only)
  ByteVals,    \* byte values the model tells apart
  MaxCmds      \* commands per behaviour

ASSUME AbootAssumption ==
  /\ LinuxParts \subseteq Parts
  /\ Parts \cup {"disk", "osip0"} \subseteq Names
  /\ {31, 139, 8} \subseteq ByteVals
  /\ Payloads \subseteq Seq(ByteVals)
  /\ \A p \in Payloads : Len(p) <= 4
  /\ MaxCmds \in Nat

VARIABLES
  hpc,      \* step of the running handler, "idle" between commands
  cur,      \* the command being handled
  dev,      \* device node the flash resolved to
  buf3,     \* byte at offset 3 of the download buffer (fastboot_init)
  content,  \* what each target (partition, or the whole disk) holds
  route,    \* history: "raw" or "gunzip", the pipeline cmd_flash chose
  wrote,    \* history: what fwrite returned, "none", "full" or "short"
  fsck,     \* history: {e2fsck's exit status} once it ran, else {}
  replies,  \* fastboot_okay / fastboot_fail calls for this command
  okay,     \* the last reply was OKAY
  halted,   \* "no" while droidboot runs; how it stopped otherwise
  ncmds     \* commands received so far

vars == <<hpc, cur, dev, buf3, content, route, wrote, fsck, replies,
          okay, halted, ncmds>>

Targets  == Parts \cup {"disk"}
OsipName == "osip0"
Kinds    == {"flash", "erase", "oem_system", "oem_partition", "oem_other",
             "boot", "reboot", "continue"}
FsckRets == {-1, 0, 1, 2, 4}

(* Images a target can hold: its initial one, a fresh empty ext4 made by   *)
(* make_ext4fs, a torn write, what a whole-disk image put over a          *)
(* partition, what a host command run by 'oem' left there, or a payload   *)
(* as written raw or unpacked.                                            *)
Image(form, p) == [form |-> form, data |-> p]
Blank(form) == Image(form, <<>>)
Contents == {Blank(f) : f \in {"initial", "fresh_ext4", "torn", "overlaid", "host"}}
              \cup {Image(f, p) : f \in {"raw", "unpacked"}, p \in Payloads}

(* RFC 1952: ID1 = 0x1f, ID2 = 0x8b, CM = 8 (deflate) at offsets 0, 1, 2. *)
(* A stream gzip can unpack needs more than its 3 header bytes.           *)
GzipStream(p) == Len(p) = 4 /\ p[1] = 31 /\ p[2] = 139 /\ p[3] = 8

(* What a flash of p is meant to leave on the target.                     *)
Intended(p) == IF GzipStream(p) THEN Image("unpacked", p) ELSE Image("raw", p)

(* cmd_flash's test for a gzip payload reads the download buffer: sz > 2, *)
(* data_bytes[0] == 0x1f, data_bytes[1] == 0x8b and data_bytes[3] == 8.   *)
(* Bytes 0 to 2 are read only when sz > 2, so they are the payload's; the *)
(* byte at offset 3 is the payload's only when sz > 3.                    *)
GzipDetected(p, b3) == Len(p) > 2 /\ p[1] = 31 /\ p[2] = 139 /\ b3 = 8

(* The download writes the payload over the start of the scratch buffer;  *)
(* the bytes past its end keep what an earlier download left there.       *)
Download(b3, p) == IF Len(p) >= 4 THEN p[4] ELSE b3

Reply(ok) == replies' = replies + 1 /\ okay' = ok
Done == hpc' = "idle"
Halt(how) == halted' = how /\ hpc' = "gone"

-----------------------------------------------------------------------------
Init ==
  /\ hpc = "idle"
  /\ cur = [kind |-> "boot", name |-> "disk", payload |-> <<>>]
  /\ dev = "disk"
  /\ buf3 \in ByteVals
  /\ content = [t \in Targets |-> Blank("initial")]
  /\ route = "none"
  /\ wrote = "none"
  /\ fsck = {}
  /\ replies = 0
  /\ okay = FALSE
  /\ halted = "no"
  /\ ncmds = 0

(* The fastboot loop takes a command (after the download, for flash:)     *)
(* and calls the handler aboot_register_commands registered for it.       *)
Receive ==
  /\ hpc = "idle"
  /\ halted = "no"
  /\ ncmds < MaxCmds
  /\ \E k \in Kinds, n \in Names, p \in Payloads :
       /\ cur' = [kind |-> k, name |-> n,
                  payload |-> IF k = "flash" THEN p ELSE <<>>]
       /\ buf3' = IF k = "flash" THEN Download(buf3, p) ELSE buf3
       /\ hpc' = k
  /\ ncmds' = ncmds + 1
  /\ replies' = 0 /\ okay' = FALSE
  /\ route' = "none" /\ wrote' = "none" /\ fsck' = {}
  /\ UNCHANGED <<dev, content, halted>>
-----------------------------------------------------------------------------
(* Mutants of the resolution: the NULL check of find_part_device's       *)
(* result dropped, and the 'goto out' after the is_valid_blkdev failure   *)
(* dropped.                                                               *)
FlashResolveNoNullCheck ==
  /\ hpc = "flash"
  /\ cur.name # OsipName
  /\ dev' = cur.name
  /\ hpc' = "flash_write" /\ UNCHANGED <<replies, okay>>
  /\ UNCHANGED <<cur, buf3, content, route, wrote, fsck, halted, ncmds>>

FlashResolveNoGoto ==
  /\ hpc = "flash"
  /\ \/ /\ cur.name = OsipName
        /\ \E ok \in BOOLEAN : Reply(ok)
        /\ Done /\ UNCHANGED dev
     \/ /\ cur.name \in Targets \ {OsipName}
        /\ dev' = cur.name
        /\ \/ hpc' = "flash_write" /\ UNCHANGED <<replies, okay>>
           \/ Reply(FALSE) /\ hpc' = "flash_write"
     \/ /\ cur.name \notin {"disk", OsipName}
        /\ Reply(FALSE) /\ Done /\ UNCHANGED dev
  /\ UNCHANGED <<cur, buf3, content, route, wrote, fsck, halted, ncmds>>

(* cmd_flash, resolving the target: "disk" is disk_info->device; "osip..." *)
(* goes to write_stitch_image and returns; any other name goes through    *)
(* find_part_device, which fails for an unknown name (or out of memory).  *)
(* A node that is not a block device fails the command.                   *)
FlashResolve ==
  /\ hpc = "flash"
  /\ \/ /\ cur.name = OsipName
        /\ \E ok \in BOOLEAN : Reply(ok)
        /\ Done /\ UNCHANGED dev
     \/ /\ cur.name \in Targets \ {OsipName}
        /\ dev' = cur.name
        /\ \/ hpc' = "flash_write" /\ UNCHANGED <<replies, okay>>
           \/ Reply(FALSE) /\ Done
     \/ /\ cur.name \notin {"disk", OsipName}
        /\ Reply(FALSE) /\ Done /\ UNCHANGED dev
  /\ UNCHANGED <<cur, buf3, content, route, wrote, fsck, halted, ncmds>>

(* What the pipeline popen started leaves on the device.  dd copies a raw *)
(* payload; gzip -d unpacks a stream, or rejects one with another header  *)
(* and dd then gets no input, as it does for an empty payload (sz = 0).   *)
(* Either tool may fail part way through: the status pclose returns is    *)
(* not looked at.                                                         *)
PipeResult(r, p, old) ==
  CASE r = "raw" /\ p # <<>>        -> {Image("raw", p), Blank("torn")}
    [] r = "gunzip" /\ GzipStream(p) -> {Image("unpacked", p), Blank("torn")}
    [] OTHER                         -> {old}

(* A whole-disk image also overwrites every partition on it.              *)
WriteTo(c, d, w) ==
  IF d = "disk" /\ w # c[d]
    THEN [t \in Targets |-> IF t = "disk" THEN w ELSE Blank("overlaid")]
    ELSE [c EXCEPT ![d] = w]

(* cmd_flash, writing: choose the pipeline by the gzip test, asprintf and *)
(* popen it, fwrite the payload, pclose and sync.  When gzip rejected the *)
(* stream it has exited, and fwrite into its pipe fails (EPIPE) or raises *)
(* SIGPIPE, which droidboot does not ignore.                              *)
FlashWrite ==
  /\ hpc = "flash_write"
  /\ LET p == cur.payload
         r == IF GzipDetected(p, buf3) THEN "gunzip" ELSE "raw"
     IN /\ route' = r
        /\ \/ Reply(FALSE) /\ Done /\ UNCHANGED <<content, wrote, halted>>
           \/ /\ p # <<>> /\ wrote' = "short" /\ Reply(FALSE) /\ Done
              /\ \E w \in {content[dev]}
                          \cup (PipeResult(r, p, content[dev]) \cap {Blank("torn")}) :
                   content' = WriteTo(content, dev, w)
              /\ UNCHANGED halted
           \/ /\ r = "gunzip" /\ ~GzipStream(p)
              /\ Halt("died")
              /\ UNCHANGED <<content, wrote, replies, okay>>
           \/ /\ wrote' = "full"
              /\ \E w \in PipeResult(r, p, content[dev]) :
                   content' = WriteTo(content, dev, w)
              /\ hpc' = IF dev = "disk" THEN "flash_table" ELSE "flash_sb"
              /\ UNCHANGED <<replies, okay, halted>>
  /\ UNCHANGED <<cur, dev, buf3, fsck, ncmds>>

(* cmd_flash after writing the disk node: open it for BLKRRPART; there is *)
(* no ptn, so no filesystem checks follow.                                *)
FlashTable ==
  /\ hpc = "flash_table"
  /\ \E ok \in BOOLEAN : Reply(ok)
  /\ Done
  /\ UNCHANGED <<cur, dev, buf3, content, route, wrote, fsck, halted, ncmds>>

(* cmd_flash on a named partition: for a Linux one read the superblock   *)
(* (open, lseek, read can each fail) and check its magic; only then run  *)
(* the filesystem checks.                                                 *)
FlashSuperblock ==
  /\ hpc = "flash_sb"
  /\ \/ dev \notin LinuxParts /\ Reply(TRUE) /\ Done
     \/ dev \in LinuxParts /\ Reply(FALSE) /\ Done
     \/ dev \in LinuxParts /\ Reply(TRUE) /\ Done       \* no EXT3_SUPER_MAGIC
     \/ dev \in LinuxParts /\ hpc' = "flash_resize" /\ UNCHANGED <<replies, okay>>
  /\ UNCHANGED <<cur, dev, buf3, content, route, wrote, fsck, halted, ncmds>>

(* resize2fs -F, after an asprintf that can fail.                         *)
FlashResize ==
  /\ hpc = "flash_resize"
  /\ \/ Reply(FALSE) /\ Done
     \/ hpc' = "flash_fsck" /\ UNCHANGED <<replies, okay>>
  /\ UNCHANGED <<cur, dev, buf3, content, route, wrote, fsck, halted, ncmds>>

(* Mutant: the exit status test off by one, 'ret > 2'.                  *)
FlashFsckOffByOne ==
  /\ hpc = "flash_fsck"
  /\ \/ Reply(FALSE) /\ Done /\ UNCHANGED fsck
     \/ \E ret \in FsckRets :
          /\ fsck' = {ret}
          /\ IF ret < 0 \/ ret > 2
               THEN Reply(FALSE) /\ Done
               ELSE hpc' = "flash_tune" /\ UNCHANGED <<replies, okay>>
  /\ UNCHANGED <<cur, dev, buf3, content, route, wrote, halted, ncmds>>

(* e2fsck -fy: exit status 0 or 1 is success, a negative one or above 1  *)
(* fails the command.                                                     *)
FlashFsck ==
  /\ hpc = "flash_fsck"
  /\ \/ Reply(FALSE) /\ Done /\ UNCHANGED fsck
     \/ \E ret \in FsckRets :
          /\ fsck' = {ret}
          /\ IF ret < 0 \/ ret > 1
               THEN Reply(FALSE) /\ Done
               ELSE hpc' = "flash_tune" /\ UNCHANGED <<replies, okay>>
  /\ UNCHANGED <<cur, dev, buf3, content, route, wrote, halted, ncmds>>

(* tune2fs -C 1, then fastboot_okay.                                      *)
FlashTune ==
  /\ hpc = "flash_tune"
  /\ \E ok \in BOOLEAN : Reply(ok)
  /\ Done
  /\ UNCHANGED <<cur, dev, buf3, content, route, wrote, fsck, halted, ncmds>>
-----------------------------------------------------------------------------
(* cmd_erase: find_part fails for an unknown name; find_part_device       *)
(* failing is reported and then fatal (die()); a node that is not a block *)
(* device, or a partition type other than Linux, fails; make_ext4fs (after *)
(* an asprintf) makes an empty filesystem, or fails part way through.     *)
CmdErase ==
  /\ hpc = "erase"
  /\ LET n == cur.name IN
     \/ n \notin Parts /\ Reply(FALSE) /\ Done /\ UNCHANGED <<content, halted>>
     \/ n \in Parts /\ Reply(FALSE) /\ Halt("died") /\ UNCHANGED content
     \/ n \in Parts /\ Reply(FALSE) /\ Done /\ UNCHANGED <<content, halted>>
     \/ /\ n \in LinuxParts /\ Reply(FALSE) /\ Done /\ UNCHANGED halted
        /\ content' \in {content, [content EXCEPT ![n] = Blank("torn")]}
     \/ /\ n \in LinuxParts /\ Reply(TRUE) /\ Done /\ UNCHANGED halted
        /\ content' = [content EXCEPT ![n] = Blank("fresh_ext4")]
  /\ UNCHANGED <<cur, dev, buf3, route, wrote, fsck, ncmds>>

(* The targets in S rewritten by a command the host had droidboot run.    *)
HostWrites(c, S) == [t \in Targets |-> IF t \in S THEN Blank("host") ELSE c[t]]

(* cmd_oem: "system <cmd>" runs any command through execute_command, which *)
(* may rewrite any target, and reports its status; "partition" reports    *)
(* that of apply_disk_config, which writes the partition table to the     *)
(* disk node (again, or over the one a whole-disk image brought);         *)
(* anything else fails.  Either may have written before it failed.        *)
CmdOem ==
  /\ hpc \in {"oem_system", "oem_partition", "oem_other"}
  /\ IF hpc = "oem_other" THEN Reply(FALSE) ELSE \E ok \in BOOLEAN : Reply(ok)
  /\ CASE hpc = "oem_system"    -> \E S \in SUBSET Targets :
                                     content' = HostWrites(content, S)
       [] hpc = "oem_partition" -> \E S \in SUBSET {"disk"} :
                                     content' = HostWrites(content, S)
       [] OTHER                 -> UNCHANGED content
  /\ Done
  /\ UNCHANGED <<cur, dev, buf3, route, wrote, fsck, halted, ncmds>>

(* cmd_boot is a stub that fails.                                         *)
CmdBoot ==
  /\ hpc = "boot"
  /\ Reply(FALSE) /\ Done
  /\ UNCHANGED <<cur, dev, buf3, content, route, wrote, fsck, halted, ncmds>>

(* Mutant: the order in cmd_reboot swapped, so that sync and __reboot   *)
(* come before fastboot_okay.                                             *)
CmdRebootBeforeOkay ==
  /\ hpc = "reboot"
  /\ \/ Halt("reboot") /\ UNCHANGED <<replies, okay>>
     \/ Reply(TRUE) /\ Done /\ UNCHANGED halted
  /\ UNCHANGED <<cur, dev, buf3, content, route, wrote, fsck, ncmds>>

(* cmd_reboot: OKAY first, then sync and __reboot; a failed reboot only  *)
(* logs, and the handler returns.                                         *)
CmdReboot ==
  /\ hpc = "reboot"
  /\ Reply(TRUE)
  /\ \/ Halt("reboot")
     \/ Done /\ UNCHANGED halted
  /\ UNCHANGED <<cur, dev, buf3, content, route, wrote, fsck, ncmds>>

(* cmd_continue: start_default_kernel returns only when mounting the     *)
(* second-stage partition or kexec failed; then FAIL.                     *)
CmdContinue ==
  /\ hpc = "continue"
  /\ \/ Halt("kexec") /\ UNCHANGED <<replies, okay>>
     \/ Reply(FALSE) /\ Done /\ UNCHANGED halted
  /\ UNCHANGED <<cur, dev, buf3, content, route, wrote, fsck, ncmds>>

Next ==
  \/ Receive
  \/ FlashResolve \/ FlashWrite \/ FlashTable \/ FlashSuperblock
  \/ FlashResize \/ FlashFsck \/ FlashTune
  \/ CmdErase \/ CmdOem \/ CmdBoot \/ CmdReboot \/ CmdContinue

Spec == Init /\ [][Next]_vars

-----------------------------------------------------------------------------
HandlerPcs == Kinds \cup {"flash_write", "flash_table", "flash_sb",
                          "flash_resize", "flash_fsck", "flash_tune"}

TypeOK ==
  /\ hpc \in {"idle", "gone"} \cup HandlerPcs
  /\ cur \in [kind : Kinds, name : Names, payload : Payloads \cup {<<>>}]
  /\ dev \in Targets
  /\ buf3 \in ByteVals
  /\ content \in [Targets -> Contents]
  /\ route \in {"none", "raw", "gunzip"}
  /\ wrote \in {"none", "full", "short"}
  /\ fsck \in {{}} \cup {{r} : r \in FsckRets}
  /\ replies \in Nat /\ okay \in BOOLEAN
  /\ halted \in {"no", "died", "reboot", "kexec"}
  /\ ncmds \in 0..MaxCmds

(* Every handler makes exactly one terminal call, fastboot_okay or        *)
(* fastboot_fail, on every path through it that returns; none replies     *)
(* twice even when it then stops the process (erase's die, reboot).       *)
ReplyOnce ==
  /\ replies <= 1
  /\ (hpc = "idle" /\ ncmds > 0) => replies = 1

(* cmd_flash answers OKAY only when fwrite took the whole payload and,    *)
(* when e2fsck ran, it exited 0 or 1.                                     *)
FlashOkayComplete ==
  (okay /\ cur.kind = "flash" /\ cur.name # OsipName)
    => wrote = "full" /\ fsck \subseteq {0, 1}

(* The gzip test follows RFC 1952, as the comment at the test says: the  *)
(* payload goes through gzip -d exactly when it starts 1f 8b 08.          *)
GzipHeader(p) == Len(p) >= 3 /\ p[1] = 31 /\ p[2] = 139 /\ p[3] = 8

GzipRoutedByHeader ==
  route # "none" => (route = "gunzip" <=> GzipHeader(cur.payload))

(* A flash of an image the host was told succeeded left that image on    *)
(* the target: unpacked when it was a gzip stream, byte for byte          *)
(* otherwise.                                                             *)
FlashOkayHoldsImage ==
  (hpc = "idle" /\ okay /\ cur.kind = "flash" /\ cur.name # OsipName
     /\ cur.payload # <<>>)
    => content[cur.name] = Intended(cur.payload)

(* No command failure stops droidboot: the process ends only by reboot   *)
(* or kexec, the way the host asked it to.                                *)
CommandFailureNotFatal == halted \in {"no", "reboot", "kexec"}
-----------------------------------------------------------------------------
(* The host's view of the handlers: between commands, in one, or ended;  *)
(* a command has been answered once its handler made a terminal reply.   *)
Phase == IF hpc \in {"idle", "gone"} THEN hpc ELSE "busy"

Protocol == INSTANCE FastbootProtocol WITH phase <- Phase, answered <- replies > 0

(* The handlers implement the fastboot reply protocol: every command is  *)
(* answered exactly once before its handler returns, cmd_reboot replies  *)
(* OKAY before it restarts, cmd_continue hands off without a reply, and  *)
(* a handler that kills the process has replied FAIL or nothing.          *)
ProtocolRefined == Protocol!Spec
====
