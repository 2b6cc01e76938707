------------------------------ MODULE ArmCall ------------------------------
(***************************************************************************)
(* Calls from the 68k application to its ARM half: call_arm and its        *)
(* callers on one side, arm_entry on the other.  Arguments travel on one   *)
(* stack of 20 words, arm_stack, whose word 0 is the count; the caller     *)
(* pushes the arguments, call_arm the function number and the globals, and *)
(* arm_entry pops them all.                                                *)
(*                                                                         *)
(* The byte order of the count is left out: arm_entry turns it around in   *)
(* its first statement after the test of the pointer and back in its last, *)
(* at the one label its exits share.                                       *)
(*                                                                         *)
(* A word on the stack is <<call, what>>: the number of the call it was    *)
(* pushed for and the name of the argument, or of the function to call.    *)
(***************************************************************************)
EXTENDS Integers, Sequences

CONSTANTS
  Capacity,    \* words of arm_stack besides the count
  MaxCalls     \* bound: calls made

ASSUME ArmCallAssumption == Capacity \in Nat /\ MaxCalls \in Nat

Func == {"read_cp", "fb_test", "boot_linux", "install_irqhandler", "unlock_mem"}

(* What the callers push, in the order they push it.                       *)
PushedSizeFirst(f) ==
  CASE f = "read_cp"            -> <<"reg", "cp">>
    [] f = "boot_linux"         -> <<"cmdline", "initrd_size", "initrd", "kernel", "kernel_size">>
    [] f = "install_irqhandler" -> <<"buf">>
    [] OTHER                    -> <<>>
Pushed(f) ==
  CASE f = "read_cp"            -> <<"reg", "cp">>
    [] f = "boot_linux"         -> <<"cmdline", "initrd_size", "initrd", "kernel_size", "kernel">>
    [] f = "install_irqhandler" -> <<"buf">>
    [] OTHER                    -> <<>>

(* The parameters of the ARM functions, each filled by one pop.            *)
Params(f) ==
  CASE f = "read_cp"            -> <<"cp", "reg">>
    [] f = "boot_linux"         -> <<"kernel", "kernel_size", "initrd", "initrd_size", "cmdline">>
    [] f = "install_irqhandler" -> <<"buf">>
    [] OTHER                    -> <<>>

VARIABLES
  pc,        \* "app", "call" in call_arm, "arm" in arm_entry, "crashed" or "linux"
  stack,     \* arm_stack[1 .. count], the top last
  order,     \* which argument of a C call the compiler evaluates first
  calls,     \* calls made so far; the number of the current one
  func,      \* the function of the current call
  wants,     \* whose cache a read_cp is for: "cpu_id" or "ttb"
  got,       \* the function and arguments the ARM side took off the stack
  ret,       \* what the last call returned
  cpu_id, ttb,      \* the static variables of get_cpu_id and get_ttb; 0 is unset
  stranded   \* history: words pushed by calls that never reached arm_entry

vars == <<pc, stack, order, calls, func, wants, got, ret, cpu_id, ttb, stranded>>

Failed == 1     \* call_arm's own error code
Result == 2     \* what a function of the ARM half returns
NoCall == 3     \* 0xfeedf00d
Unknown == 4    \* 0xbadf0000 ^ func

(* C leaves open in which order the arguments of a call are evaluated.  A  *)
(* compiler goes through them from one end, and always from the same one.  *)
Orders == {"first", "last"}
NothingGot == [func |-> "none", args |-> <<>>]

Init ==
  /\ pc = "app" /\ stack = <<>> /\ order \in Orders
  /\ calls = 0 /\ func = "none" /\ got = NothingGot
  /\ ret = 0 /\ cpu_id = 0 /\ ttb = 0 /\ wants = "none"
  /\ stranded = 0

Words(n, names) == [k \in 1 .. Len(names) |-> <<n, names[k]>>]

----------------------------------------------------------------------------
(* The callers.  get_cpu_id and get_ttb only call while they have no value.*)

Call(f, who) ==
  /\ pc = "app" /\ calls < MaxCalls
  /\ stack' = stack \o Words(calls + 1, Pushed(f))
  /\ func' = f /\ wants' = who
  /\ calls' = calls + 1
  /\ got' = NothingGot
  /\ pc' = "call"
  /\ UNCHANGED <<order, ret, cpu_id, ttb, stranded>>

GetCpuId == cpu_id = 0 /\ Call("read_cp", "cpu_id")
GetTtb == ttb = 0 /\ Call("read_cp", "ttb")
OtherCall == \E f \in Func \ {"read_cp"} : Call(f, "none")

(* What the caller does with the result: every value but 0 is kept for     *)
(* ever; the mask in get_ttb turns the error code 1 into 0.                *)
MaskedTtb(r) == IF r = Failed THEN 0 ELSE r
Returned(r) ==
  /\ ret' = r
  /\ cpu_id' = IF wants = "cpu_id" THEN r ELSE cpu_id
  /\ ttb' = IF wants = "ttb" THEN MaskedTtb(r) ELSE ttb
  /\ pc' = "app"

----------------------------------------------------------------------------
(* call_arm.                                                               *)

(* DmGetResource fails: return 1, and leave the arguments on the stack.    *)
NoResource ==
  /\ pc = "call"
  /\ Returned(Failed)
  /\ stranded' = stranded + Len(Pushed(func))
  /\ UNCHANGED <<stack, order, calls, func, wants, got>>

(* Push the function and the globals and run the ARM code, whether or not  *)
(* MemHandleLock gave an address: the handle is tested again instead.      *)
Enter ==
  /\ pc = "call"
  /\ stack' = stack \o Words(calls, <<func, "globals">>)
  /\ pc' \in {"arm", "crashed"}
  /\ UNCHANGED <<order, calls, func, wants, got, ret, cpu_id, ttb, stranded>>

----------------------------------------------------------------------------
(* arm_entry: pop the globals, the function and its parameters, and return.*)
(* The pointer it tests first is arm_stack, which is never null.           *)

Top(n) == stack[Len(stack) - n]
Arity(f) == Len(Params(f))
GlobalsLeft(f) == 1 + Arity(f)
Popped(f) == 2 + Arity(f)

(* Which pop fills parameter k.                                            *)
Place(f, k) == IF order = "first" THEN k ELSE Arity(f) + 1 - k

(* The exits: an empty stack, a function there is none of, or the result.  *)
Answer ==
  IF stack = <<>> THEN NoCall
  ELSE IF Top(1)[2] \notin Func THEN Unknown ELSE Result

Return ==
  /\ pc = "arm"
  /\ LET f == Top(1)[2]
         taken == CASE Answer = NoCall -> 0 [] Answer = Unknown -> 2 [] OTHER -> Popped(f)
     IN /\ got' = IF Answer # Result THEN NothingGot
                  ELSE [func |-> Top(1),
                        args |-> [k \in 1 .. Arity(f) |-> Top(1 + Place(f, k))]]
        /\ stack' = SubSeq(stack, 1, Len(stack) - taken)
  /\ Returned(Answer)
  /\ UNCHANGED <<order, calls, func, wants, stranded>>

(* boot_linux does not come back when it succeeds.                         *)
Linux ==
  /\ pc = "arm" /\ Top(1)[2] = "boot_linux"
  /\ pc' = "linux"
  /\ UNCHANGED <<stack, order, calls, func, wants, got, ret, cpu_id, ttb, stranded>>

Next == GetCpuId \/ GetTtb \/ OtherCall \/ NoResource \/ Enter \/ Return \/ Linux
Spec == Init /\ [][Next]_vars

----------------------------------------------------------------------------
(* Properties.                                                             *)

(* Every ARM function is given exactly the words its caller pushed for it, *)
(* also after calls whose arguments were left on the stack, and with a     *)
(* compiler that evaluates the first argument first each in the right      *)
(* parameter; the other kind turns the arguments round.  arm_entry never   *)
(* leaves by its exits for an empty stack and for an unknown function.     *)
ArgumentsArrive ==
  /\ pc = "arm" => Answer = Result
  /\ got # NothingGot =>
       LET meant == [k \in 1 .. Arity(func) |-> <<calls, Params(func)[k]>>]
       IN /\ got.func = <<calls, func>>
          /\ DOMAIN got.args = 1 .. Arity(func)
          /\ \A k \in 1 .. Arity(func) :
               got.args[k] = meant[IF order = "first" THEN k ELSE Arity(func) + 1 - k]

(* Between calls the stack holds nothing but what failed calls left there, *)
(* and arm_stack overflows only when that is so much that the seven words  *)
(* of a boot no longer fit.                                                *)
NothingLeft ==
  /\ pc = "app" => Len(stack) = stranded
  /\ stranded <= Capacity - 7 => Len(stack) <= Capacity
=============================================================================
