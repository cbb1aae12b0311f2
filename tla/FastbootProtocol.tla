--------------------------- MODULE FastbootProtocol ---------------------------
(***************************************************************************)
(* What the fastboot host sees of the command handlers (spec sections 4.1 *)
(* and 6): the dispatcher hands one command at a time to its handler, and *)
(* the handler makes exactly one terminal reply, success or failure,      *)
(* before it returns.  A handler may instead end the process: 'reboot'    *)
(* acknowledges success first and then restarts; 'continue' hands control *)
(* to another kernel without a reply; and a crash ends the process,       *)
(* after a failure reply or without one.  Nothing follows the end.        *)
(***************************************************************************)

VARIABLES
  phase,     \* "idle" between commands, "busy" in a handler, "gone" at the end
  answered,  \* the current command has had its terminal reply
  okay,      \* that reply was success
  halted     \* "no", or how the process ended

pvars == <<phase, answered, okay, halted>>

Init ==
  /\ phase = "idle"
  /\ answered = FALSE
  /\ okay = FALSE
  /\ halted = "no"

(* The dispatcher hands the next command to its handler.                  *)
Accept ==
  /\ phase = "idle"
  /\ halted = "no"
  /\ phase' = "busy"
  /\ answered' = FALSE
  /\ okay' = FALSE
  /\ UNCHANGED halted

(* The handler replies, success when ok, and returns to the dispatcher.  *)
Answer(ok) ==
  /\ phase = "busy"
  /\ ~answered
  /\ answered' = TRUE
  /\ okay' = ok
  /\ phase' = "idle"
  /\ UNCHANGED halted

(* 'reboot': success is acknowledged, then the device restarts.           *)
Restart ==
  /\ phase = "busy"
  /\ ~answered
  /\ answered' = TRUE
  /\ okay' = TRUE
  /\ phase' = "gone"
  /\ halted' = "reboot"

(* 'continue': control passes to the second-stage kernel.                 *)
HandOff ==
  /\ phase = "busy"
  /\ ~answered
  /\ phase' = "gone"
  /\ halted' = "kexec"
  /\ UNCHANGED <<answered, okay>>

(* The process dies in a handler, having replied failure or not at all.   *)
Crash ==
  /\ phase = "busy"
  /\ phase' = "gone"
  /\ halted' = "died"
  /\ \/ UNCHANGED <<answered, okay>>
     \/ ~answered /\ answered' = TRUE /\ okay' = FALSE

Next == Accept \/ (\E ok \in BOOLEAN : Answer(ok)) \/ Restart \/ HandOff \/ Crash

Spec == Init /\ [][Next]_pvars
==============================================================================
