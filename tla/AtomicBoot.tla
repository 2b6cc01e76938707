----------------------------- MODULE AtomicBoot -----------------------------
(***************************************************************************)
(* What a boot promises, without the steps that keep the promise: Palm OS  *)
(* owns the machine and may be interrupted for a while, but it either gets *)
(* it back or hands it over for good, in one step, with everything the     *)
(* user chose.  Only a request whose images are in each other's way may    *)
(* lose the machine or damage what is handed over once there is no way     *)
(* back; up to there an abort may stop it.                                 *)
(***************************************************************************)

VARIABLES
  owner,     \* who runs: "palm", "boot", "nobody", "linux" or "lost"
  passed,    \* the kernel, the initrd and the command line of the request
  clear,     \* nothing of the request is in the way of anything else
  received   \* what Linux was handed: empty, or the set of one such record

vars == <<owner, passed, clear, received>>

Init == owner = "palm" /\ clear \in BOOLEAN /\ received = {}

Suspend ==
  /\ owner = "palm" /\ owner' = "boot"
  /\ UNCHANGED <<passed, clear, received>>

GiveBack ==
  /\ owner = "boot" /\ owner' = "palm"
  /\ UNCHANGED <<passed, clear, received>>

Commit ==
  /\ owner = "boot" /\ owner' = "nobody"
  /\ UNCHANGED <<passed, clear, received>>

HandOver ==
  /\ owner = "nobody" /\ owner' = "linux"
  /\ clear => received' = {passed}
  /\ UNCHANGED <<passed, clear>>

Lose ==
  /\ owner = "boot" \/ (owner = "nobody" /\ ~ clear)
  /\ owner' = "lost"
  /\ UNCHANGED <<passed, clear, received>>

Next == Suspend \/ GiveBack \/ Commit \/ HandOver \/ Lose
Spec == Init /\ [][Next]_vars
=============================================================================
