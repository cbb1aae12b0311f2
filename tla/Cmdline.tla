------------------------------ MODULE Cmdline ------------------------------
(***************************************************************************)
(* The boot parameters of droidboot (src/droidboot.c) and where they go:  *)
(* import_kernel_cmdline calls parse_cmdline_option on each token of the  *)
(* kernel command line; main then starts the autoboot thread when          *)
(* g_use_autoboot is set, which counts g_autoboot_delay_secs down and      *)
(* calls start_default_kernel with g_2ndstageboot_part and _dir.           *)
(*                                                                         *)
(* A token is a name, whether it has an '=', and the value after it.  A   *)
(* name is the pair of its first 9 characters and the rest, which is all  *)
(* that strncmp(name, "droidboot", 9) and strcmp tell apart.  A value is  *)
(* a sequence of characters, converted by atoi as glibc does.  The        *)
(* countdown's 'int seconds' keeps its width: Width bits, standing for 32. *)
(***************************************************************************)
EXTENDS Integers, Sequences

CONSTANTS
  CmdLines,   \* the kernel command lines considered, sequences of tokens
  Parts,      \* the partition names find_part knows
  DataPtn,    \* DATA_PTN, the default g_2ndstageboot_part
  BootDir,    \* "2ndstageboot", the default g_2ndstageboot_dir
  Width       \* bits of an int

Digits == {"0", "1", "2", "3", "4", "5", "6", "7", "8", "9"}
DigitValue == [c \in Digits |->
                 CHOOSE v \in 0..9 : <<"0","1","2","3","4","5","6","7","8","9">>[v + 1] = c]

(* atoi: an optional sign, then the longest run of digits; 0 when there   *)
(* is none.                                                                *)
Atoi(s) ==
  LET signed == Len(s) > 0 /\ s[1] \in {"-", "+"}
      body   == IF signed THEN Tail(s) ELSE s
      n      == CHOOSE k \in 0..Len(body) :
                  /\ \A j \in 1..k : body[j] \in Digits
                  /\ k < Len(body) => body[k + 1] \notin Digits
      val[k \in 0..n] == IF k = 0 THEN 0 ELSE 10 * val[k - 1] + DigitValue[body[k]]
  IN IF signed /\ s[1] = "-" THEN -val[n] ELSE val[n]

IntMin == -(2 ^ (Width - 1))
IntMax == 2 ^ (Width - 1) - 1

Tokens == UNION {{cl[i] : i \in DOMAIN cl} : cl \in CmdLines}
Texts  == {t.value : t \in {u \in Tokens : u.eq}}

ASSUME CmdlineAssumption ==
  /\ Width \in Nat \ {0, 1}
  /\ CmdLines \subseteq Seq([name : Seq(STRING) \X Seq(STRING), eq : BOOLEAN,
                              value : Seq(STRING)])
  /\ \A s \in Texts : Atoi(s) \in IntMin..IntMax
  /\ DataPtn \in Parts
  /\ 8 <= IntMax     \* the default delay is an int
  \* Arithmetic true of every such Width, which the provers cannot derive
  \* from ^: an int's range is split evenly around 0.
  /\ 2 ^ (Width - 1) \in Nat \ {0}
  /\ 2 ^ Width = 2 * 2 ^ (Width - 1)

VARIABLES
  cmdline,  \* the kernel command line
  next,     \* index of the token parse_cmdline_option is handed next
  conf,     \* the g_ parameters
  pc,       \* where main, then the autoboot thread, is
  enabled,  \* autoboot_enabled
  seconds,  \* countdown's 'seconds'
  sleeps,   \* history: sleep(1) calls of the countdown
  booted,   \* the [part, dir] start_default_kernel passed to kexec_linux
  halted    \* "no", or how droidboot stopped

vars == <<cmdline, next, conf, pc, enabled, seconds, sleeps, booted, halted>>

(* The names strcmp compares with, as (first 9 characters, rest).         *)
DName(rest) == <<<<"d","r","o","i","d","b","o","o","t">>, rest>>
Droidboot == DName(<<>>)[1]
NameOf == [bootloader  |-> DName(<<".","b","o","o","t","l","o","a","d","e","r">>),
           delay       |-> DName(<<".","d","e","l","a","y">>),
           scratch     |-> DName(<<".","s","c","r","a","t","c","h">>),
           minbatt     |-> DName(<<".","m","i","n","b","a","t","t">>),
           bootpart    |-> DName(<<".","b","o","o","t","p","a","r","t">>),
           bootdir     |-> DName(<<".","b","o","o","t","d","i","r">>),
           updatepause |-> DName(<<".","u","p","d","a","t","e","p","a","u","s","e">>)]
IntParams == {"bootloader", "delay", "scratch", "minbatt", "updatepause"}
(* The parameter each strdup branch writes: both write the partition.     *)
StrParam == [bootpart |-> "part", bootdir |-> "part"]

(* The static initialisers of droidboot.c.                                *)
Defaults == [bootloader |-> 0, delay |-> 8, scratch |-> 400, minbatt |-> 10,
             updatepause |-> 0, part |-> DataPtn, dir |-> BootDir]

NoBoot == [part |-> <<>>, dir |-> <<>>]

Init ==
  /\ cmdline \in CmdLines
  /\ next = 1
  /\ conf = Defaults
  /\ pc = "parse"
  /\ enabled = 0
  /\ seconds = 0
  /\ sleeps = 0
  /\ booted = NoBoot
  /\ halted = "no"

Die == halted' = "died" /\ pc' = "gone"

(* The int after 'seconds--' in Width bits.  Below INT_MIN the C is     *)
(* undefined; the compiled loop wraps to INT_MAX.                         *)
Dec(x) == IF x = IntMin THEN IntMax ELSE x - 1

-----------------------------------------------------------------------------
(* A token changes nothing when it has no '=', an empty name, a name not  *)
(* starting "droidboot", or an unknown droidboot.* name (logged only).    *)
Known(t) == t.eq /\ t.name \in {NameOf[k] : k \in DOMAIN NameOf}

(* Mutant: the 'if (value == 0) return;' test dropped, a token with no  *)
(* '=' taken as one with an empty value.                                   *)
ParseOptionNoEqCheck ==
  /\ pc = "parse"
  /\ next <= Len(cmdline)
  /\ next' = next + 1
  /\ LET t == cmdline[next] IN
     \/ t.name \notin {NameOf[k] : k \in DOMAIN NameOf} /\ UNCHANGED <<conf, pc, halted>>
     \/ \E k \in IntParams :
          /\ t.name = NameOf[k]
          /\ conf' = [conf EXCEPT ![k] = Atoi(t.value)]
          /\ UNCHANGED <<pc, halted>>
     \/ \E k \in DOMAIN StrParam :
          /\ t.name = NameOf[k]
          /\ \/ conf' = [conf EXCEPT ![StrParam[k]] = t.value] /\ UNCHANGED <<pc, halted>>
             \/ Die /\ UNCHANGED conf
  /\ UNCHANGED <<cmdline, enabled, seconds, sleeps, booted>>

(* Mutant: updatepause copied from the bootloader branch and left         *)
(* writing g_use_autoboot.                                                *)
ParseOptionPauseSlip ==
  /\ pc = "parse"
  /\ next <= Len(cmdline)
  /\ next' = next + 1
  /\ LET t == cmdline[next] IN
     \/ ~Known(t) /\ UNCHANGED <<conf, pc, halted>>
     \/ \E k \in IntParams :
          /\ t.eq /\ t.name = NameOf[k]
          /\ conf' = [conf EXCEPT ![IF k = "updatepause" THEN "bootloader" ELSE k]
                                    = Atoi(t.value)]
          /\ UNCHANGED <<pc, halted>>
     \/ \E k \in DOMAIN StrParam :
          /\ t.eq /\ t.name = NameOf[k]
          /\ \/ conf' = [conf EXCEPT ![StrParam[k]] = t.value] /\ UNCHANGED <<pc, halted>>
             \/ Die /\ UNCHANGED conf
  /\ UNCHANGED <<cmdline, enabled, seconds, sleeps, booted>>

(* parse_cmdline_option on the next token: an int parameter takes the     *)
(* value's atoi, a string one a strdup of it, whose failure is die().     *)
ParseOption ==
  /\ pc = "parse"
  /\ next <= Len(cmdline)
  /\ next' = next + 1
  /\ LET t == cmdline[next] IN
     \/ ~Known(t) /\ UNCHANGED <<conf, pc, halted>>
     \/ \E k \in IntParams :
          /\ t.eq /\ t.name = NameOf[k]
          /\ conf' = [conf EXCEPT ![k] = Atoi(t.value)]
          /\ UNCHANGED <<pc, halted>>
     \/ \E k \in DOMAIN StrParam :
          /\ t.eq /\ t.name = NameOf[k]
          /\ \/ conf' = [conf EXCEPT ![StrParam[k]] = t.value] /\ UNCHANGED <<pc, halted>>
             \/ Die /\ UNCHANGED conf
  /\ UNCHANGED <<cmdline, enabled, seconds, sleeps, booted>>

(* main, once the command line is parsed: try_update_sw can stash an      *)
(* update only when g_update_pause is set; the autoboot thread starts     *)
(* when g_use_autoboot is set and nothing is stashed, and a failing       *)
(* pthread_create is die().  Otherwise only fastboot runs.                *)
StartAutoboot ==
  /\ pc = "parse"
  /\ next > Len(cmdline)
  /\ \E stashed \in IF conf.updatepause # 0 THEN BOOLEAN ELSE {FALSE} :
       IF conf.bootloader # 0 /\ ~stashed
         THEN \/ pc' = "auto_countdown" /\ UNCHANGED halted
              \/ Die
         ELSE pc' = "fastboot" /\ UNCHANGED halted
  /\ UNCHANGED <<cmdline, next, conf, enabled, seconds, sleeps, booted>>

(* countdown("boot", g_autoboot_delay_secs), as autoboot_thread calls it. *)
CdArm ==
  /\ pc = "auto_countdown"
  /\ enabled' = 1
  /\ seconds' = conf.delay
  /\ pc' = "cd_check"
  /\ UNCHANGED <<cmdline, next, conf, sleeps, booted, halted>>

CdContinue ==
  /\ pc = "cd_check"
  /\ seconds # 0 /\ enabled = 1
  /\ pc' = "cd_sleep"
  /\ UNCHANGED <<cmdline, next, conf, enabled, seconds, sleeps, booted, halted>>

CdSleep ==
  /\ pc = "cd_sleep"
  /\ seconds' = Dec(seconds)
  /\ sleeps' = sleeps + 1
  /\ pc' = "cd_check"
  /\ UNCHANGED <<cmdline, next, conf, enabled, booted, halted>>

(* Mutant: the loop condition written 'seconds > 0', so a negative delay *)
(* ends the countdown at once with autoboot still enabled.                *)
CdExitPositive ==
  /\ pc = "cd_check"
  /\ ~(seconds > 0 /\ enabled = 1)
  /\ enabled' = 0
  /\ pc' = IF enabled = 1 THEN "sdk_mount" ELSE "exit"
  /\ UNCHANGED <<cmdline, next, conf, seconds, sleeps, booted, halted>>

(* The loop ends: return autoboot_enabled and clear it; autoboot_thread   *)
(* calls start_default_kernel only when the countdown returned 1.         *)
CdExit ==
  /\ pc = "cd_check"
  /\ ~(seconds # 0 /\ enabled = 1)
  /\ enabled' = 0
  /\ pc' = IF enabled = 1 THEN "sdk_mount" ELSE "exit"
  /\ UNCHANGED <<cmdline, next, conf, seconds, sleeps, booted, halted>>

(* A key press: disable_autoboot clears the flag.                         *)
KeyPress ==
  /\ pc \in {"cd_check", "cd_sleep"}
  /\ enabled = 1
  /\ enabled' = 0
  /\ UNCHANGED <<cmdline, next, conf, pc, seconds, sleeps, booted, halted>>

(* start_default_kernel: find_part(disk_info, g_2ndstageboot_part), then  *)
(* mount_partition, which can fail; a NULL ptn from an unknown name is    *)
(* handed to mount_partition unchecked (not in src/: it fails or crashes). *)
SdkMount ==
  /\ pc = "sdk_mount"
  /\ \/ conf.part \in Parts /\ pc' \in {"sdk_kexec", "exit"} /\ UNCHANGED halted
     \/ conf.part \notin Parts /\ \/ pc' = "exit" /\ UNCHANGED halted
                                  \/ Die
  /\ UNCHANGED <<cmdline, next, conf, enabled, seconds, sleeps, booted>>

(* kexec_linux("/mnt/<part>/<dir>/"), which returns only when it failed.  *)
SdkKexec ==
  /\ pc = "sdk_kexec"
  /\ booted' = [part |-> conf.part, dir |-> conf.dir]
  /\ \/ halted' = "kexec" /\ pc' = "gone"
     \/ pc' = "exit" /\ UNCHANGED halted
  /\ UNCHANGED <<cmdline, next, conf, enabled, seconds, sleeps>>

Next ==
  \/ ParseOption \/ StartAutoboot
  \/ CdArm \/ CdContinue \/ CdSleep \/ CdExit \/ KeyPress
  \/ SdkMount \/ SdkKexec

Spec == Init /\ [][Next]_vars

-----------------------------------------------------------------------------
Pcs == {"parse", "auto_countdown", "cd_check", "cd_sleep", "sdk_mount",
        "sdk_kexec", "exit", "fastboot", "gone"}

TypeOK ==
  /\ cmdline \in CmdLines
  /\ next \in 1..Len(cmdline) + 1
  /\ \A k \in IntParams : conf[k] \in {Defaults[k]} \cup {Atoi(s) : s \in Texts}
  /\ conf.part \in Texts \cup {DataPtn}
  /\ conf.dir \in Texts \cup {BootDir}
  /\ pc \in Pcs
  /\ enabled \in {0, 1}
  /\ seconds \in IntMin..IntMax
  /\ sleeps \in 0..2 ^ Width
  /\ halted \in {"no", "died", "kexec"}

(* The value a parameter gets from a command line, read from the whole    *)
(* line at once: the last token naming it, converted, else the default.   *)
LastSetting(cl, k, default, conv(_)) ==
  LET setters == {i \in DOMAIN cl : cl[i].eq /\ cl[i].name = NameOf[k]}
      last    == CHOOSE i \in setters : \A j \in setters : j <= i
  IN IF setters = {} THEN default ELSE conv(cl[last].value)

(* Every int parameter (bootloader, delay, scratch, minbatt, updatepause) *)
(* holds, once parse_cmdline_option has seen every token, the atoi of the *)
(* last droidboot.<name>= token, or its initialiser: later tokens win and *)
(* no branch writes another parameter.                                    *)
IntParamsFromCmdline ==
  pc # "parse" /\ halted = "no" =>
    \A k \in IntParams : conf[k] = LastSetting(cmdline, k, Defaults[k], Atoi)

(* start_default_kernel boots from the partition and the directory the    *)
(* command line named with droidboot.bootpart= and droidboot.bootdir=     *)
(* (spec, boot-parameter ingestion: bootpart/bootdir override partition/  *)
(* directory), or from the defaults.                                      *)
Ident(s) == s
BootPathFromCmdline ==
  booted # NoBoot =>
    booted = [part |-> LastSetting(cmdline, "bootpart", DataPtn, Ident),
              dir  |-> LastSetting(cmdline, "bootdir", BootDir, Ident)]

(* The autoboot countdown waits g_autoboot_delay_secs seconds at most:    *)
(* it sleeps no more than that (none when the delay is 0 or less).         *)
CountdownWithinDelay ==
  sleeps <= IF conf.delay > 0 THEN conf.delay ELSE 0

(* How many 'seconds--' the countdown loop takes from x down to 0 when no *)
(* key stops it: x itself when x >= 0, and otherwise the way through      *)
(* INT_MIN and INT_MAX, x + 2^Width.                                       *)
Dist(x) == IF x >= 0 THEN x ELSE x + 2 ^ Width

(* When start_default_kernel kexecs, countdown has returned 1 only after  *)
(* 'for (; seconds && autoboot_enabled; seconds--)' ran seconds from      *)
(* g_autoboot_delay_secs all the way down to 0: it slept exactly          *)
(* Dist(delay) times, the delay itself when it is not negative (and       *)
(* 2^Width + delay, through INT_MIN, when it is).                          *)
BootAfterDelay ==
  booted # NoBoot => sleeps = Dist(conf.delay)
====
