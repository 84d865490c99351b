------------------------------ MODULE MsrModule ------------------------------
(***************************************************************************)
(* What the MSR device layer promises the rest of libvariorum, with no     *)
(* descriptor in sight: the bracket between init_msr and finalize_msr      *)
(* either owns every device or none, a device is never lost while the      *)
(* bracket is open, and the bracket is closed only when every device has   *)
(* been given back.                                                        *)
(***************************************************************************)
CONSTANT Dev    \* the logical processors
VARIABLES mode, \* the state of the bracket
          owned \* the devices the bracket owns

absVars == <<mode, owned>>

AbsInit == mode = "closed" /\ owned = {}

\* A bracket begins with nothing, whatever became of the previous one.
Begin == mode \in {"closed", "open", "failed"} /\ mode' = "opening" /\ owned' = {}

\* All the devices at once, or none.
Acquire == mode = "opening" /\ mode' = "open" /\ owned' = Dev

Refuse == mode = "opening" /\ mode' \in {"failed", "crashed"} /\ owned' = {}

StartClosing == mode = "open" /\ mode' = "closing" /\ UNCHANGED owned

GiveBack == mode = "closing" /\ (\E d \in owned : owned' = owned \ {d}) /\ UNCHANGED mode

Closed == mode = "closing" /\ owned = {} /\ mode' = "closed" /\ UNCHANGED owned

AbsNext == Begin \/ Acquire \/ Refuse \/ StartClosing \/ GiveBack \/ Closed

AbsSpec == AbsInit /\ [][AbsNext]_absVars

=============================================================================
