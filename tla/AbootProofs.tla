---------------------------- MODULE AbootProofs ----------------------------
(***************************************************************************)
(* Proofs about the fastboot handlers of aboot.c for every set of          *)
(* partitions, names and payloads: each command is answered exactly once,  *)
(* and OKAY to a flash follows a complete write and an accepted e2fsck.    *)
(***************************************************************************)
EXTENDS Aboot, TLAPS

(* The cmd_flash steps after the payload went through fwrite.             *)
PostWrite == {"flash_table", "flash_sb", "flash_resize", "flash_fsck",
              "flash_tune"}

(* Neither property is inductive alone: a handler that has not replied    *)
(* yet must be known not to have replied, the step a handler is at must   *)
(* be known to belong to the command being handled, and the later flash   *)
(* steps must know what fwrite and e2fsck did.                            *)
ReplyInv ==
  /\ hpc \in {"idle", "gone"} \cup HandlerPcs
  /\ ncmds \in Nat
  /\ replies \in {0, 1}
  /\ okay => replies = 1
  /\ hpc \in HandlerPcs => replies = 0 /\ ~okay
  /\ (hpc = "idle" /\ ncmds > 0) => replies = 1
  /\ hpc \in Kinds => hpc = cur.kind
  /\ hpc \in {"flash_write"} \cup PostWrite =>
       cur.kind = "flash" /\ cur.name # OsipName
  /\ hpc \in PostWrite => wrote = "full"
  /\ hpc \in HandlerPcs \ {"flash_tune"} => fsck = {}
  /\ hpc = "flash_tune" => fsck \subseteq {0, 1}
  /\ FlashOkayComplete

LEMMA ReplyInvInit == Init => ReplyInv
  BY DEF Init, ReplyInv, HandlerPcs, Kinds, PostWrite, OsipName,
         FlashOkayComplete

LEMMA ReplyInvStep == ReplyInv /\ [Next]_vars => ReplyInv'
  <1> SUFFICES ASSUME ReplyInv, [Next]_vars PROVE ReplyInv'
    OBVIOUS
  <1> USE DEF ReplyInv, HandlerPcs, Kinds, PostWrite, FlashOkayComplete,
              Reply, Done, Halt, OsipName
  <1>1. CASE Receive
    BY <1>1 DEF Receive
  <1>2. CASE FlashResolve
    BY <1>2 DEF FlashResolve
  <1>3. CASE FlashWrite
    BY <1>3 DEF FlashWrite
  <1>4. CASE FlashTable \/ FlashSuperblock \/ FlashResize
    BY <1>4 DEF FlashTable, FlashSuperblock, FlashResize
  <1>5. CASE FlashFsck
    BY <1>5 DEF FlashFsck, FsckRets
  <1>6. CASE FlashTune
    BY <1>6 DEF FlashTune
  <1>7. CASE CmdErase \/ CmdOem \/ CmdBoot
    BY <1>7 DEF CmdErase, CmdOem, CmdBoot
  <1>8. CASE CmdReboot \/ CmdContinue
    BY <1>8 DEF CmdReboot, CmdContinue
  <1>9. CASE UNCHANGED vars
    BY <1>9 DEF vars
  <1>10. QED
    BY <1>1, <1>2, <1>3, <1>4, <1>5, <1>6, <1>7, <1>8, <1>9 DEF Next

(* Every path through every handler that returns makes exactly one call   *)
(* of fastboot_okay or fastboot_fail, and none makes two, whatever the    *)
(* partitions, names and payloads.                                        *)
THEOREM RepliedOnce == Spec => []ReplyOnce
  <1>1. ReplyInv => ReplyOnce
    BY DEF ReplyInv, ReplyOnce
  <1>2. QED
    BY ReplyInvInit, ReplyInvStep, <1>1, PTL DEF Spec

(* cmd_flash answers OKAY only after fwrite took the whole payload and    *)
(* e2fsck, when it ran, exited 0 or 1.                                    *)
THEOREM FlashOkayAfterChecks == Spec => []FlashOkayComplete
  <1>1. ReplyInv => FlashOkayComplete
    BY DEF ReplyInv
  <1>2. QED
    BY ReplyInvInit, ReplyInvStep, <1>1, PTL DEF Spec

-----------------------------------------------------------------------------
(* TypeOK needs one more fact: a flash command carries a downloaded       *)
(* payload, which the write puts on the target.                           *)
FlashPayload == cur.kind = "flash" => cur.payload \in Payloads

(* TypeOK in three parts, the handler's control state, the data it moves *)
(* and the Boolean of the last reply, each small enough for one prover.   *)
TypeCtl ==
  /\ hpc \in {"idle", "gone"} \cup HandlerPcs
  /\ route \in {"none", "raw", "gunzip"}
  /\ wrote \in {"none", "full", "short"}
  /\ fsck \in {{}} \cup {{r} : r \in FsckRets}
  /\ replies \in Nat
  /\ halted \in {"no", "died", "reboot", "kexec"}
  /\ ncmds \in 0..MaxCmds

TypeData ==
  /\ cur \in [kind : Kinds, name : Names, payload : Payloads \cup {<<>>}]
  /\ dev \in Targets
  /\ buf3 \in ByteVals
  /\ content \in [Targets -> Contents]
  /\ FlashPayload

AbootTypeInv == TypeCtl /\ TypeData /\ okay \in BOOLEAN

(* The images the handlers write are images a target can hold.           *)
LEMMA ContentsForms ==
  /\ \A f \in {"initial", "fresh_ext4", "torn", "overlaid", "host"} : Blank(f) \in Contents
  /\ \A f \in {"raw", "unpacked"}, p \in Payloads : Image(f, p) \in Contents
  <1>1. \A f \in {"initial", "fresh_ext4", "torn", "overlaid", "host"} :
          Blank(f) \in Contents
    BY DEF Contents
  <1>2. ASSUME NEW f \in {"raw", "unpacked"}, NEW p \in Payloads
        PROVE  Image(f, p) \in Contents
    BY DEF Contents
  <1>3. QED
    BY <1>1, <1>2

(* What the pipeline leaves on a target is an image a target can hold.    *)
LEMMA PipeResultType ==
  ASSUME NEW r, NEW p \in Payloads, NEW old \in Contents
  PROVE  PipeResult(r, p, old) \subseteq Contents
  <1>1. Image("raw", p) \in Contents /\ Image("unpacked", p) \in Contents
        /\ Blank("torn") \in Contents
    BY ContentsForms
  <1>2. QED
    BY <1>1, Zenon DEF PipeResult

(* A write, of a partition or of the whole disk, keeps every target's     *)
(* image one a target can hold.                                           *)
LEMMA WriteToType ==
  ASSUME NEW c \in [Targets -> Contents], NEW d \in Targets, NEW w \in Contents
  PROVE  WriteTo(c, d, w) \in [Targets -> Contents]
  <1>1. Blank("overlaid") \in Contents
    BY ContentsForms
  <1>2. QED
    BY <1>1 DEF WriteTo

LEMMA AbootTypeInit == Init => AbootTypeInv
  <1> SUFFICES ASSUME Init PROVE AbootTypeInv
    OBVIOUS
  <1>1. TypeCtl
    BY AbootAssumption DEF Init, TypeCtl
  <1>2. Blank("initial") \in Contents
    BY ContentsForms
  <1>3. TypeData
    BY <1>2, AbootAssumption DEF Init, TypeData, FlashPayload, Targets, Kinds
  <1>4. okay \in BOOLEAN
    BY Zenon DEF Init
  <1>5. QED
    BY <1>1, <1>3, <1>4 DEF AbootTypeInv

(* Every reply is OKAY or FAIL.                                           *)
LEMMA OkayBoolean == okay \in BOOLEAN /\ [Next]_vars => okay' \in BOOLEAN
  BY Zenon DEF Next, vars, Receive, FlashResolve, FlashWrite, FlashTable,
               FlashSuperblock, FlashResize, FlashFsck, FlashTune, CmdErase,
               CmdOem, CmdBoot, CmdReboot, CmdContinue, Reply

LEMMA AbootTypeStep ==
  AbootTypeInv /\ ReplyInv /\ [Next]_vars => AbootTypeInv'
  <1> SUFFICES ASSUME AbootTypeInv, ReplyInv, [Next]_vars
               PROVE  TypeCtl' /\ TypeData'
    BY OkayBoolean DEF AbootTypeInv
  <1> USE AbootAssumption
      DEF AbootTypeInv, TypeCtl, TypeData, FlashPayload, Reply, Done, Halt,
          HandlerPcs, Kinds
  <1>1. CASE Receive
    <2>1. PICK k \in Kinds, n \in Names, p \in Payloads :
            /\ cur' = [kind |-> k, name |-> n,
                       payload |-> IF k = "flash" THEN p ELSE <<>>]
            /\ buf3' = IF k = "flash" THEN Download(buf3, p) ELSE buf3
            /\ hpc' = k
      BY <1>1 DEF Receive
    <2>2. Download(buf3, p) \in ByteVals
      <3>1. p \in Seq(ByteVals)
        OBVIOUS
      <3>2. QED
        BY <3>1 DEF Download
    <2>3. cur' \in [kind : Kinds, name : Names, payload : Payloads \cup {<<>>}]
      BY <2>1
    <2>4. FlashPayload'
      BY <2>1
    <2>5. QED
      BY <1>1, <2>1, <2>2, <2>3, <2>4 DEF Receive
  <1>2. CASE FlashResolve
    BY <1>2 DEF FlashResolve, Targets, OsipName
  <1>3. CASE FlashWrite
    <2> DEFINE p == cur.payload
               r == IF GzipDetected(p, buf3) THEN "gunzip" ELSE "raw"
    <2>1. hpc = "flash_write" /\ p \in Payloads
      BY <1>3 DEF FlashWrite, ReplyInv
    <2>2. content[dev] \in Contents
      OBVIOUS
    <2>3. \A w \in {content[dev]} \cup PipeResult(r, p, content[dev]) :
             WriteTo(content, dev, w) \in [Targets -> Contents]
      BY <2>1, <2>2, PipeResultType, WriteToType
    <2>4. QED
      BY <1>3, <2>1, <2>2, <2>3 DEF FlashWrite
  <1>4. CASE FlashTable \/ FlashSuperblock \/ FlashResize \/ FlashTune
    BY <1>4 DEF FlashTable, FlashSuperblock, FlashResize, FlashTune
  <1>5. CASE FlashFsck
    BY <1>5 DEF FlashFsck, FsckRets
  <1>6. CASE CmdErase
    <2>1. \A n \in LinuxParts, f \in {"torn", "fresh_ext4"} :
             [content EXCEPT ![n] = Blank(f)] \in [Targets -> Contents]
      BY ContentsForms DEF Targets
    <2>2. QED
      BY <1>6, <2>1 DEF CmdErase
  <1>7. CASE CmdOem
    <2>1. \/ content' = content
          \/ \E S \in SUBSET Targets : content' = HostWrites(content, S)
      BY <1>7, Zenon DEF CmdOem, Targets
    <2>2. \A S \in SUBSET Targets :
             HostWrites(content, S) \in [Targets -> Contents]
      BY ContentsForms DEF HostWrites
    <2>3. QED
      BY <1>7, <2>1, <2>2 DEF CmdOem
  <1>8. CASE CmdBoot \/ CmdReboot \/ CmdContinue
    BY <1>8 DEF CmdBoot, CmdReboot, CmdContinue
  <1>9. CASE UNCHANGED vars
    BY <1>9 DEF vars
  <1>10. QED
    BY <1>1, <1>2, <1>3, <1>4, <1>5, <1>6, <1>7, <1>8, <1>9 DEF Next

(* Every reachable state of the handlers is well typed, for every set of *)
(* partitions, names and payloads: in particular every target holds an   *)
(* image of the forms cmd_flash and cmd_erase produce.                    *)
THEOREM AbootTypeCorrect == Spec => []TypeOK
  <1>1. Init => AbootTypeInv /\ ReplyInv
    BY AbootTypeInit, ReplyInvInit
  <1>2. AbootTypeInv /\ ReplyInv /\ [Next]_vars => AbootTypeInv' /\ ReplyInv'
    BY AbootTypeStep, ReplyInvStep
  <1>3. AbootTypeInv => TypeOK
    BY DEF AbootTypeInv, TypeCtl, TypeData, TypeOK
  <1>4. QED
    BY <1>1, <1>2, <1>3, PTL DEF Spec

-----------------------------------------------------------------------------
(* The refinement mapping sends the first command's state to the         *)
(* protocol's initial state.                                              *)
LEMMA ProtocolInit == Init => Protocol!Init
  BY DEF Init, Protocol!Init, Phase

(* The shapes a handler step has, as the host sees it: it replies and   *)
(* returns, moves on inside the handler, or ends the process.             *)
AnswerStep  == \E ok \in BOOLEAN : Reply(ok) /\ Done /\ UNCHANGED halted
InnerStep   == hpc' \in HandlerPcs /\ UNCHANGED <<replies, okay, halted>>
RestartStep == Reply(TRUE) /\ Halt("reboot")
HandOffStep == Halt("kexec") /\ UNCHANGED <<replies, okay>>
CrashStep   == Halt("died") /\ (UNCHANGED <<replies, okay>> \/ Reply(FALSE))
Shaped == AnswerStep \/ InnerStep \/ RestartStep \/ HandOffStep \/ CrashStep

(* Every handler step has one of these shapes.                            *)
LEMMA HandlerStepShaped ==
  ASSUME ReplyInv,
         \/ FlashResolve \/ FlashWrite \/ FlashTable \/ FlashSuperblock
         \/ FlashResize \/ FlashFsck \/ FlashTune \/ CmdErase \/ CmdOem
         \/ CmdBoot \/ CmdReboot \/ CmdContinue
  PROVE  Shaped
  <1> USE DEF Shaped, AnswerStep, InnerStep, RestartStep, HandOffStep,
              CrashStep, Reply, Done, Halt, HandlerPcs, Kinds
  <1>1. CASE FlashResolve
    BY <1>1 DEF FlashResolve
  <1>2. CASE FlashWrite
    BY <1>2 DEF FlashWrite
  <1>3. CASE FlashTable \/ FlashSuperblock \/ FlashResize
    BY <1>3 DEF FlashTable, FlashSuperblock, FlashResize
  <1>4. CASE FlashFsck \/ FlashTune
    BY <1>4 DEF FlashFsck, FlashTune
  <1>5. CASE CmdErase
    BY <1>5 DEF CmdErase
  <1>6. CASE CmdOem \/ CmdBoot
    BY <1>6 DEF CmdOem, CmdBoot
  <1>7. CASE CmdReboot \/ CmdContinue
    BY <1>7 DEF CmdReboot, CmdContinue
  <1>8. QED
    BY <1>1, <1>2, <1>3, <1>4, <1>5, <1>6, <1>7

(* From inside a handler that has not replied yet, each shape is a step  *)
(* of the protocol or a stutter.                                          *)
LEMMA ShapedRefines ==
  ASSUME hpc \in HandlerPcs, replies = 0, Shaped
  PROVE  [Protocol!Next]_Protocol!pvars
  <1>1. Phase = "busy"
    BY DEF Phase, HandlerPcs, Kinds
  <1>2. CASE AnswerStep
    <2>1. PICK ok \in BOOLEAN : Reply(ok) /\ Done /\ UNCHANGED halted
      BY <1>2 DEF AnswerStep
    <2>2. Phase' = "idle"
      BY <2>1 DEF Done, Phase
    <2>3. Protocol!Answer(ok)
      BY <1>1, <2>1, <2>2 DEF Protocol!Answer, Reply
    <2>4. QED
      BY <2>3 DEF Protocol!Next
  <1>3. CASE InnerStep
    <2>1. Phase' = "busy"
      BY <1>3 DEF InnerStep, Phase, HandlerPcs, Kinds
    <2>2. QED
      BY <1>1, <1>3, <2>1 DEF InnerStep, Protocol!pvars
  <1>4. CASE RestartStep
    <2>1. Phase' = "gone"
      BY <1>4 DEF RestartStep, Halt, Phase
    <2>2. Protocol!Restart
      BY <1>1, <1>4, <2>1 DEF RestartStep, Reply, Halt, Protocol!Restart
    <2>3. QED
      BY <2>2 DEF Protocol!Next
  <1>5. CASE HandOffStep
    <2>1. Phase' = "gone"
      BY <1>5 DEF HandOffStep, Halt, Phase
    <2>2. Protocol!HandOff
      BY <1>1, <1>5, <2>1 DEF HandOffStep, Halt, Protocol!HandOff
    <2>3. QED
      BY <2>2 DEF Protocol!Next
  <1>6. CASE CrashStep
    <2>1. Phase' = "gone"
      BY <1>6 DEF CrashStep, Halt, Phase
    <2>2. Protocol!Crash
      BY <1>1, <1>6, <2>1 DEF CrashStep, Reply, Halt, Protocol!Crash
    <2>3. QED
      BY <2>2 DEF Protocol!Next
  <1>7. QED
    BY <1>2, <1>3, <1>4, <1>5, <1>6 DEF Shaped

(* Under ReplyInv every step of the handlers is a protocol step or, when *)
(* it neither replies nor leaves the handler, a stutter.                   *)
LEMMA ProtocolStep == ReplyInv /\ [Next]_vars => [Protocol!Next]_Protocol!pvars
  <1> SUFFICES ASSUME ReplyInv, [Next]_vars
               PROVE  [Protocol!Next]_Protocol!pvars
    OBVIOUS
  <1>1. CASE Receive
    <2>1. Phase = "idle" /\ Phase' = "busy"
      BY <1>1 DEF Receive, Phase, Kinds
    <2>2. Protocol!Accept
      BY <1>1, <2>1 DEF Receive, Protocol!Accept
    <2>3. QED
      BY <2>2 DEF Protocol!Next
  <1>2. CASE UNCHANGED vars
    BY <1>2 DEF vars, Protocol!pvars, Phase
  <1>3. CASE ~Receive /\ ~UNCHANGED vars
    <2>1. hpc \in HandlerPcs /\ replies = 0
      BY <1>3 DEF Next, Receive, FlashResolve, FlashWrite, FlashTable,
                  FlashSuperblock, FlashResize, FlashFsck, FlashTune,
                  CmdErase, CmdOem, CmdBoot, CmdReboot, CmdContinue,
                  ReplyInv, HandlerPcs, Kinds
    <2>2. Shaped
      BY <1>3, HandlerStepShaped DEF Next
    <2>3. QED
      BY <2>1, <2>2, ShapedRefines
  <1>4. QED
    BY <1>1, <1>2, <1>3

(* The fastboot handlers of aboot.c implement the reply protocol the     *)
(* host relies on (FastbootProtocol), for every set of partitions, names *)
(* and payloads: one terminal reply per command before the handler       *)
(* returns, OKAY before cmd_reboot restarts, no reply when cmd_continue  *)
(* hands off.                                                             *)
THEOREM AbootImplementsProtocol == Spec => ProtocolRefined
  <1>1. Spec => []ReplyInv
    BY ReplyInvInit, ReplyInvStep, PTL DEF Spec
  <1>2. []ReplyInv /\ [][Next]_vars => [][Protocol!Next]_Protocol!pvars
    BY ProtocolStep, PTL
  <1>3. QED
    BY ProtocolInit, <1>1, <1>2, PTL DEF Spec, ProtocolRefined, Protocol!Spec

=============================================================================
