---------------------------- MODULE CmdlineProofs ----------------------------
(***************************************************************************)
(* Proofs about the boot parameters of droidboot.c for every set of       *)
(* command lines and every int width: the parameters parse_cmdline_option *)
(* leaves are those of the last tokens naming them, and every state of     *)
(* the parse, the autoboot countdown and the launch is well typed.         *)
(***************************************************************************)
EXTENDS Cmdline, TLAPS


(* The first n tokens of cl that set parameter k, the last of a set of indices, *)
(* and the value k has once those n tokens went through the parser.       *)
Setters(cl, k, n) == {i \in 1..n : cl[i].eq /\ cl[i].name = NameOf[k]}
Latest(S) == CHOOSE i \in S : \A j \in S : j <= i
SetSoFar(cl, k, n) ==
  IF Setters(cl, k, n) = {} THEN Defaults[k]
                            ELSE Atoi(cl[Latest(Setters(cl, k, n))].value)

(* Neither TypeOK nor IntParamsFromCmdline is inductive.  The parse must  *)
(* be known to have seen every token once main moved on (unless die()     *)
(* ended it), and what it has set so far must be what the tokens seen so  *)
(* far say.  conf must be known to keep the fields of its initialiser,   *)
(* and "gone" to be the place of a stopped droidboot.                     *)
ParseInv ==
  /\ DOMAIN conf = DOMAIN Defaults
  /\ (pc = "gone") = (halted # "no")
  /\ pc \notin {"parse", "gone"} => next = Len(cmdline) + 1
  /\ halted = "no" =>
       \A k \in IntParams : conf[k] = SetSoFar(cmdline, k, next - 1)

(* The bound on sleeps: before the countdown none happened; during it the *)
(* sleeps taken and the 'seconds--' still to come add up to Dist of the   *)
(* delay; after it no more happen, and a countdown that returned 1 (the   *)
(* way to start_default_kernel) ran all of them. kexec_linux is reached   *)
(* only from there, and nothing runs after it.                            *)
CountInv ==
  /\ pc \in {"parse", "auto_countdown", "fastboot"} => sleeps = 0
  /\ pc \in {"cd_check", "cd_sleep"} =>
       sleeps + Dist(seconds) = Dist(conf.delay)
  /\ pc = "cd_sleep" => seconds # 0
  /\ sleeps <= Dist(conf.delay)
  /\ booted # NoBoot => pc \in {"exit", "gone"}
  /\ pc \in {"sdk_mount", "sdk_kexec"} \/ booted # NoBoot =>
       sleeps = Dist(conf.delay)

IInv == TypeOK /\ ParseInv /\ CountInv

-----------------------------------------------------------------------------
(* The int range of Width bits, as the provers need it.                   *)
LEMMA IntRange ==
  /\ IntMin \in Int /\ IntMax \in Nat /\ IntMin < 0 /\ 8 <= IntMax
  /\ IntMax - IntMin + 1 = 2 ^ Width
  BY CmdlineAssumption DEF IntMin, IntMax

(* Dist of an int is one of the 2^Width - 1 steps the loop can take.      *)
LEMMA DistRange ==
  ASSUME NEW x \in IntMin..IntMax
  PROVE  Dist(x) \in 0..2 ^ Width - 1
  BY IntRange DEF Dist

(* One 'seconds--' of a non-zero int stays an int and takes one step off  *)
(* the way to 0, also when it wraps from INT_MIN to INT_MAX.               *)
LEMMA DecStep ==
  ASSUME NEW x \in IntMin..IntMax, x # 0
  PROVE  /\ Dec(x) \in IntMin..IntMax
         /\ Dist(Dec(x)) = Dist(x) - 1
  BY IntRange DEF Dec, Dist

(* strcmp tells the seven parameter names apart.                          *)
LEMMA NamesDistinct ==
  \A k1, k2 \in DOMAIN NameOf : k1 # k2 => NameOf[k1] # NameOf[k2]
  BY DEF NameOf, DName

LEMMA ParamKinds ==
  /\ IntParams \subseteq DOMAIN NameOf
  /\ DOMAIN StrParam \subseteq DOMAIN NameOf
  /\ IntParams \cap DOMAIN StrParam = {}
  /\ \A k \in DOMAIN StrParam : StrParam[k] = "part"
  BY DEF NameOf, IntParams, StrParam

(* The last of a set of indices is the one no other exceeds.              *)
LEMMA LatestIs ==
  ASSUME NEW S \in SUBSET Int, NEW n \in S, \A j \in S : j <= n
  PROVE  Latest(S) = n
  <1>1. \E i \in S : \A j \in S : j <= i
    OBVIOUS
  <1>2. Latest(S) \in S /\ \A j \in S : j <= Latest(S)
    BY <1>1 DEF Latest
  <1>3. Latest(S) \in Int /\ Latest(S) <= n /\ n <= Latest(S)
    BY <1>2
  <1>4. QED
    BY <1>3
(* Parsing token n either sets k, to the atoi of its value, or leaves k   *)
(* as the tokens before it set it.                                         *)
LEMMA SetSoFarStep ==
  ASSUME NEW cl, NEW k, NEW n \in Nat \ {0}
  PROVE  SetSoFar(cl, k, n) =
           IF cl[n].eq /\ cl[n].name = NameOf[k]
             THEN Atoi(cl[n].value) ELSE SetSoFar(cl, k, n - 1)
  <1>1. CASE cl[n].eq /\ cl[n].name = NameOf[k]
    <2>1. n \in Setters(cl, k, n) /\ Setters(cl, k, n) \subseteq Int
          /\ \A j \in Setters(cl, k, n) : j <= n
      BY <1>1 DEF Setters
    <2>2. Latest(Setters(cl, k, n)) = n
      BY <2>1, LatestIs
    <2>3. QED
      BY <1>1, <2>1, <2>2 DEF SetSoFar
  <1>2. CASE ~(cl[n].eq /\ cl[n].name = NameOf[k])
    <2>1. Setters(cl, k, n) = Setters(cl, k, n - 1)
      BY <1>2 DEF Setters
    <2>2. QED
      BY <1>2, <2>1 DEF SetSoFar
  <1>3. QED
    BY <1>1, <1>2

(* Once every token went through the parser, the value is the one the    *)
(* whole command line gives.                                               *)
LEMMA SetSoFarAll ==
  ASSUME NEW cl \in CmdLines, NEW k
  PROVE  SetSoFar(cl, k, Len(cl)) = LastSetting(cl, k, Defaults[k], Atoi)
  <1>1. DOMAIN cl = 1..Len(cl)
    BY CmdlineAssumption
  <1>2. QED
    BY <1>1 DEF SetSoFar, Setters, Latest, LastSetting

(* A token with '=' carries one of the values of the command lines.       *)
LEMMA TokenText ==
  ASSUME cmdline \in CmdLines, NEW i \in 1..Len(cmdline), cmdline[i].eq
  PROVE  cmdline[i].value \in Texts
  <1>1. cmdline[i] \in Tokens
    <2>1. i \in DOMAIN cmdline
      BY CmdlineAssumption
    <2>2. QED
      BY <2>1 DEF Tokens
  <1>2. QED
    BY <1>1 DEF Texts

-----------------------------------------------------------------------------
LEMMA InitIInv == Init => IInv
  <1> SUFFICES ASSUME Init PROVE IInv
    OBVIOUS
  <1>1. Len(cmdline) \in Nat
    BY CmdlineAssumption DEF Init
  <1>2. 8 \in IntMin..IntMax /\ Dist(8) = 8
    BY IntRange DEF Dist
  <1>3. TypeOK
    BY <1>1, <1>2, IntRange DEF Init, TypeOK, Defaults, IntParams, Pcs
  <1>4. \A k \in IntParams : Setters(cmdline, k, 0) = {}
    BY DEF Setters
  <1>5. ParseInv
    BY <1>4 DEF Init, ParseInv, SetSoFar, Defaults
  <1>6. CountInv
    BY <1>2 DEF Init, CountInv, Defaults
  <1>7. QED
    BY <1>3, <1>5, <1>6 DEF IInv
(* The delay the countdown starts from is an int: the initialiser 8, or   *)
(* atoi of a value of the command line.                                    *)
LEMMA DelayInt ==
  ASSUME NEW c,
         \A k \in IntParams : c[k] \in {Defaults[k]} \cup {Atoi(x) : x \in Texts}
  PROVE  c.delay \in IntMin..IntMax
  <1>1. "delay" \in IntParams /\ Defaults["delay"] = 8
    BY DEF IntParams, Defaults
  <1>2. 8 \in IntMin..IntMax
    BY IntRange
  <1>3. QED
    BY <1>1, <1>2, CmdlineAssumption

(* What parse_cmdline_option does with token next, by its branches: it    *)
(* names no parameter, or an int one, or a string one (strdup succeeds or *)
(* is die()).                                                             *)
LEMMA ParseBranches ==
  ASSUME ParseOption
  PROVE  LET t == cmdline[next] IN
         /\ pc = "parse" /\ next <= Len(cmdline) /\ next' = next + 1
         /\ UNCHANGED <<cmdline, enabled, seconds, sleeps, booted>>
         /\ \/ ~Known(t) /\ UNCHANGED <<conf, pc, halted>>
            \/ \E k0 \in IntParams :
                 /\ t.eq /\ t.name = NameOf[k0]
                 /\ conf' = [conf EXCEPT ![k0] = Atoi(t.value)]
                 /\ UNCHANGED <<pc, halted>>
            \/ \E k0 \in DOMAIN StrParam :
                 /\ t.eq /\ t.name = NameOf[k0]
                 /\ conf' = [conf EXCEPT !["part"] = t.value]
                 /\ UNCHANGED <<pc, halted>>
            \/ halted' = "died" /\ pc' = "gone" /\ UNCHANGED conf
  BY ParamKinds DEF ParseOption, Die

LEMMA TypeStep == IInv /\ [Next]_vars => TypeOK'
  <1> SUFFICES ASSUME IInv, [Next]_vars PROVE TypeOK'
    OBVIOUS
  <1> USE DEF IInv, TypeOK, ParseInv, CountInv, Pcs, Die
  <1>1. CASE ParseOption
    <2> DEFINE t == cmdline[next]
    <2>1. next \in 1..Len(cmdline) /\ Len(cmdline) \in Nat
      BY <1>1, CmdlineAssumption DEF ParseOption
    <2>2. "part" \in DOMAIN conf /\ "dir" \in DOMAIN conf
          /\ IntParams \subseteq DOMAIN conf
      BY DEF Defaults, IntParams
    <2>3. CASE ~Known(t) /\ UNCHANGED <<conf, pc, halted>>
      BY <1>1, <2>1, <2>3, ParseBranches
    <2>4. ASSUME NEW k0 \in IntParams, t.eq, t.name = NameOf[k0],
                 conf' = [conf EXCEPT ![k0] = Atoi(t.value)],
                 UNCHANGED <<pc, halted>>
          PROVE  TypeOK'
      <3>1. t.value \in Texts
        BY <2>1, <2>4, TokenText
      <3>2. \A k \in IntParams : conf'[k] \in {Defaults[k]} \cup {Atoi(x) : x \in Texts}
        BY <2>2, <2>4, <3>1
      <3>3. conf'.part = conf.part /\ conf'.dir = conf.dir
        BY <2>2, <2>4 DEF IntParams
      <3>4. QED
        BY <1>1, <2>1, <2>4, <3>2, <3>3, ParseBranches
    <2>5. ASSUME NEW k0 \in DOMAIN StrParam, t.eq, t.name = NameOf[k0],
                 conf' = [conf EXCEPT !["part"] = t.value],
                 UNCHANGED <<pc, halted>>
          PROVE  TypeOK'
      <3>1. t.value \in Texts
        BY <2>1, <2>5, TokenText
      <3>2. \A k \in IntParams : conf'[k] = conf[k]
        BY <2>2, <2>5 DEF IntParams
      <3>3. conf'.part = t.value /\ conf'.dir = conf.dir
        BY <2>2, <2>5
      <3>4. QED
        BY <1>1, <2>1, <2>5, <3>1, <3>2, <3>3, ParseBranches
    <2>6. CASE halted' = "died" /\ pc' = "gone" /\ UNCHANGED conf
      BY <1>1, <2>1, <2>6, ParseBranches
    <2>7. QED
      BY <1>1, <2>3, <2>4, <2>5, <2>6, ParseBranches
  <1>2. CASE StartAutoboot
    BY <1>2 DEF StartAutoboot
  <1>3. CASE CdArm
    BY <1>3, DelayInt DEF CdArm
  <1>4. CASE CdSleep
    <2>1. seconds # 0 /\ conf.delay \in IntMin..IntMax
      BY <1>4, DelayInt DEF CdSleep
    <2>2. Dist(seconds) \in 0..2 ^ Width - 1 /\ Dist(conf.delay) \in 0..2 ^ Width - 1
      BY <2>1, DistRange
    <2>3. Dec(seconds) \in IntMin..IntMax
      BY <2>1, DecStep
    <2>4. sleeps + 1 \in 0..2 ^ Width
      BY <2>2, IntRange
    <2>5. seconds' \in IntMin..IntMax /\ sleeps' \in 0..2 ^ Width
      BY <1>4, <2>3, <2>4 DEF CdSleep
    <2>6. UNCHANGED <<cmdline, next, conf, enabled, booted, halted>>
          /\ pc' = "cd_check"
      BY <1>4 DEF CdSleep
    <2>7. QED
      BY <2>5, <2>6
  <1>5. CASE CdContinue \/ CdExit \/ KeyPress
    BY <1>5 DEF CdContinue, CdExit, KeyPress
  <1>6. CASE SdkMount \/ SdkKexec
    BY <1>6 DEF SdkMount, SdkKexec
  <1>7. CASE UNCHANGED vars
    BY <1>7 DEF vars
  <1>8. QED
    BY <1>1, <1>2, <1>3, <1>4, <1>5, <1>6, <1>7 DEF Next
LEMMA ParseStep == IInv /\ [Next]_vars => ParseInv'
  <1> SUFFICES ASSUME IInv, [Next]_vars PROVE ParseInv'
    OBVIOUS
  <1> USE DEF IInv, TypeOK, ParseInv, Die
  <1>1. CASE ParseOption
    <2> DEFINE t == cmdline[next]
    <2>1. next \in Nat \ {0} /\ next' - 1 = next
      BY <1>1, ParseBranches
    <2>2. "part" \in DOMAIN conf /\ IntParams \subseteq DOMAIN conf
          /\ "part" \notin IntParams
      BY DEF Defaults, IntParams
    <2>3. \A k \in IntParams :
             SetSoFar(cmdline, k, next) =
               IF t.eq /\ t.name = NameOf[k]
                 THEN Atoi(t.value) ELSE SetSoFar(cmdline, k, next - 1)
      BY <2>1, SetSoFarStep
    <2>4. UNCHANGED cmdline /\ pc' \in {"parse", "gone"}
          /\ (pc' = "gone") = (halted' # "no")
      BY <1>1, ParseBranches
    <2> DEFINE Parsed == \A k \in IntParams : conf'[k] = SetSoFar(cmdline, k, next)
    <2>5. ASSUME ~Known(t), UNCHANGED <<conf, pc, halted>>
          PROVE  DOMAIN conf' = DOMAIN conf /\ (halted' = "no" => Parsed)
      <3>1. \A k \in IntParams : ~(t.eq /\ t.name = NameOf[k])
        BY <2>5, ParamKinds DEF Known
      <3>2. QED
        BY <2>3, <2>5, <3>1
    <2>6. ASSUME NEW k0 \in IntParams, t.eq, t.name = NameOf[k0],
                 conf' = [conf EXCEPT ![k0] = Atoi(t.value)],
                 UNCHANGED <<pc, halted>>
          PROVE  DOMAIN conf' = DOMAIN conf /\ (halted' = "no" => Parsed)
      <3>1. \A k \in IntParams \ {k0} : ~(t.eq /\ t.name = NameOf[k])
        BY <2>6, NamesDistinct, ParamKinds
      <3>2. QED
        BY <2>2, <2>3, <2>6, <3>1
    <2>7. ASSUME NEW k0 \in DOMAIN StrParam, t.eq, t.name = NameOf[k0],
                 conf' = [conf EXCEPT !["part"] = t.value],
                 UNCHANGED <<pc, halted>>
          PROVE  DOMAIN conf' = DOMAIN conf /\ (halted' = "no" => Parsed)
      <3>1. \A k \in IntParams : ~(t.eq /\ t.name = NameOf[k])
        BY <2>7, NamesDistinct, ParamKinds
      <3>2. QED
        BY <2>2, <2>3, <2>7, <3>1
    <2>8. DOMAIN conf' = DOMAIN conf /\ (halted' = "no" => Parsed)
      BY <1>1, <2>5, <2>6, <2>7, ParseBranches
    <2>9. QED
      BY <2>1, <2>4, <2>8
  <1>2. CASE StartAutoboot
    BY <1>2 DEF StartAutoboot
  <1>3. CASE CdArm \/ CdContinue \/ CdSleep \/ CdExit \/ KeyPress
    BY <1>3 DEF CdArm, CdContinue, CdSleep, CdExit, KeyPress
  <1>4. CASE SdkMount \/ SdkKexec
    BY <1>4 DEF SdkMount, SdkKexec
  <1>5. CASE UNCHANGED vars
    BY <1>5 DEF vars
  <1>6. QED
    BY <1>1, <1>2, <1>3, <1>4, <1>5 DEF Next

LEMMA CountStep == IInv /\ TypeOK' /\ [Next]_vars => CountInv'
  <1> SUFFICES ASSUME IInv, TypeOK', [Next]_vars PROVE CountInv'
    OBVIOUS
  <1> USE DEF IInv, CountInv, Die
  <1>1. conf.delay \in IntMin..IntMax /\ conf'.delay \in IntMin..IntMax
    BY DelayInt DEF TypeOK
  <1>2. Dist(conf.delay) >= 0 /\ Dist(conf'.delay) >= 0
    BY <1>1, DistRange
  <1>3. seconds \in IntMin..IntMax /\ sleeps \in Nat
    BY DEF TypeOK
  <1>4. CASE ParseOption
    <2>1. pc = "parse" /\ pc' \in {"parse", "gone"}
          /\ UNCHANGED <<sleeps, booted>>
      BY <1>4, ParseBranches
    <2>2. QED
      BY <1>2, <2>1
  <1>5. CASE StartAutoboot
    BY <1>5 DEF StartAutoboot
  <1>6. CASE CdArm
    <2>1. sleeps = 0 /\ sleeps' = 0 /\ conf' = conf /\ pc' = "cd_check"
          /\ booted' = booted /\ booted = NoBoot
      BY <1>6 DEF CdArm
    <2>2. Dist(seconds') = Dist(conf.delay)
      BY <1>6 DEF CdArm
    <2>3. Dist(conf.delay) \in Nat
      BY <1>1, DistRange
    <2>4. QED
      BY <2>1, <2>2, <2>3
  <1>7. CASE CdSleep
    <2>1. seconds # 0 /\ Dist(Dec(seconds)) = Dist(seconds) - 1
          /\ Dec(seconds) \in IntMin..IntMax
      BY <1>3, <1>7, DecStep DEF CdSleep
    <2>2. Dist(Dec(seconds)) \in Nat /\ Dist(seconds) \in Nat
          /\ Dist(conf.delay) \in Nat
      BY <1>1, <1>3, <2>1, DistRange
    <2>3. sleeps + Dist(seconds) = Dist(conf.delay)
      BY <1>7 DEF CdSleep
    <2>4. sleeps' = sleeps + 1 /\ seconds' = Dec(seconds) /\ conf' = conf
          /\ pc' = "cd_check" /\ booted' = booted /\ booted = NoBoot
      BY <1>7 DEF CdSleep
    <2>5. sleeps' + Dist(seconds') = Dist(conf'.delay)
      BY <1>3, <2>1, <2>2, <2>3, <2>4
    <2>6. sleeps' <= Dist(conf'.delay)
      BY <1>3, <2>2, <2>4, <2>5
    <2>7. QED
      BY <2>4, <2>5, <2>6
  <1>8. CASE CdExit
    <2>1. Dist(seconds) >= 0
      BY <1>3, DistRange
    <2>2. pc' = "sdk_mount" => seconds = 0
      BY <1>8 DEF CdExit
    <2>3. Dist(0) = 0
      BY DEF Dist
    <2>4. pc = "cd_check" /\ pc' \in {"sdk_mount", "exit"}
          /\ UNCHANGED <<conf, seconds, sleeps, booted>> /\ booted = NoBoot
      BY <1>8 DEF CdExit
    <2>5. sleeps + Dist(seconds) = Dist(conf.delay)
      BY <2>4
    <2>6. pc' = "sdk_mount" => sleeps' = Dist(conf'.delay)
      BY <1>3, <2>2, <2>3, <2>4, <2>5
    <2>7. QED
      BY <2>1, <2>4, <2>6
  <1>9. CASE CdContinue \/ KeyPress
    BY <1>9 DEF CdContinue, KeyPress
  <1>10. CASE SdkMount \/ SdkKexec
    BY <1>10 DEF SdkMount, SdkKexec
  <1>11. CASE UNCHANGED vars
    BY <1>11 DEF vars
  <1>12. QED
    BY <1>4, <1>5, <1>6, <1>7, <1>8, <1>9, <1>10, <1>11 DEF Next

(* IInv is inductive: every step of parse_cmdline_option, the countdown   *)
(* loop, the key handler and the boot path keeps it.                      *)
LEMMA IInvStep == IInv /\ [Next]_vars => IInv'
  BY TypeStep, ParseStep, CountStep DEF IInv

(* Every variable of the command-line parser, the countdown and the boot  *)
(* path stays in its type in every reachable state, for every Width and   *)
(* every set of command lines allowed by CmdlineAssumption.               *)
THEOREM CmdlineTypeCorrect == Spec => []TypeOK
  <1>1. IInv => TypeOK
    BY DEF IInv
  <1>2. QED
    BY InitIInv, IInvStep, <1>1, PTL DEF Spec

(* Once parse_cmdline_option has consumed every token (and droidboot did  *)
(* not die on a bad option), each int parameter holds the atoi of the     *)
(* last droidboot.<name>= token, or its initialiser: for every command    *)
(* line, not only the ones TLC enumerates.                                *)
THEOREM CmdlineIntParams == Spec => []IntParamsFromCmdline
  <1>1. IInv => IntParamsFromCmdline
    <2> SUFFICES ASSUME IInv, pc # "parse", halted = "no",
                        NEW k \in IntParams
                 PROVE  conf[k] = LastSetting(cmdline, k, Defaults[k], Atoi)
      BY DEF IntParamsFromCmdline
    <2>1. pc # "gone" /\ next = Len(cmdline) + 1
      BY DEF IInv, ParseInv
    <2>2. conf[k] = SetSoFar(cmdline, k, Len(cmdline))
      <3>1. Len(cmdline) \in Nat
        BY CmdlineAssumption DEF IInv, TypeOK
      <3>2. QED
        BY <2>1, <3>1 DEF IInv, ParseInv
    <2>3. QED
      BY <2>2, SetSoFarAll DEF IInv, TypeOK
  <1>2. QED
    BY InitIInv, IInvStep, <1>1, PTL DEF Spec


(* For every Width: when start_default_kernel reaches kexec_linux, the    *)
(* countdown slept exactly Dist(g_autoboot_delay_secs) times, the delay   *)
(* when it is not negative and 2^Width + delay, through INT_MIN, when it  *)
(* is: a negative droidboot.delay= delays the boot by almost 2^Width      *)
(* seconds whatever the width of int.                                     *)
THEOREM BootAfterDelayCorrect == Spec => []BootAfterDelay
  <1>1. IInv => BootAfterDelay
    BY DEF IInv, CountInv, BootAfterDelay
  <1>2. QED
    BY InitIInv, IInvStep, <1>1, PTL DEF Spec

==============================================================================
