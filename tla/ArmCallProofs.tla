--------------------------- MODULE ArmCallProofs ---------------------------
(***************************************************************************)
(* Proofs about the stack between the 68k half and the ARM half, for every *)
(* size of the stack, any number of calls and any of them failing.         *)
(***************************************************************************)
EXTENDS ArmCall, SequenceTheorems, TLAPS

Name == Func \cup {"globals", "cp", "reg", "buf", "cmdline", "initrd", "initrd_size", "kernel", "kernel_size"}
Word == Nat \X Name
InArm == {"arm", "crashed", "linux"}

Types ==
  /\ pc \in {"app", "call"} \cup InArm
  /\ stack \in Seq(Word)
  /\ order \in Orders
  /\ calls \in Nat /\ stranded \in Nat
  /\ pc # "app" => func \in Func

(* Above what failed calls left there the stack holds what the current     *)
(* call has pushed so far, and nothing between calls.                      *)
OnTop(n) ==
  /\ Len(stack) = stranded + n
  /\ \A k \in 1 .. Arity(func) : stack[stranded + k] = <<calls, Pushed(func)[k]>>

StackInv ==
  /\ pc = "app" => Len(stack) = stranded
  /\ pc = "call" => OnTop(Arity(func))
  /\ pc \in InArm =>
       /\ OnTop(Arity(func) + 2)
       /\ stack[stranded + Arity(func) + 1] = <<calls, func>>
       /\ stack[stranded + Arity(func) + 2] = <<calls, "globals">>

Inv == Types /\ StackInv /\ ArgumentsArrive

(* What is pushed is popped in the opposite order, five words at most.     *)
LEMMA Lists ==
  ASSUME NEW f \in Func
  PROVE  /\ f = "boot_linux" =>
              /\ Pushed(f) = <<"cmdline", "initrd_size", "initrd", "kernel_size", "kernel">>
              /\ Params(f) = <<"kernel", "kernel_size", "initrd", "initrd_size", "cmdline">>
         /\ f = "read_cp" => Pushed(f) = <<"reg", "cp">> /\ Params(f) = <<"cp", "reg">>
         /\ f = "install_irqhandler" => Pushed(f) = <<"buf">> /\ Params(f) = <<"buf">>
         /\ f \in {"fb_test", "unlock_mem"} => Pushed(f) = <<>> /\ Params(f) = <<>>
         /\ f \in {"boot_linux", "read_cp", "install_irqhandler", "fb_test", "unlock_mem"}
BY DEF Pushed, Params, Func

LEMMA Arities ==
  ASSUME NEW f \in Func
  PROVE  /\ Len(Pushed(f)) = Arity(f)
         /\ Arity(f) = CASE f = "boot_linux" -> 5 [] f = "read_cp" -> 2
                         [] f = "install_irqhandler" -> 1 [] OTHER -> 0
<1>1. CASE f = "boot_linux"
  <2>1. /\ Pushed(f) = <<"cmdline", "initrd_size", "initrd", "kernel_size", "kernel">>
        /\ Params(f) = <<"kernel", "kernel_size", "initrd", "initrd_size", "cmdline">>
    BY <1>1, Lists
  <2>2. Len(Pushed(f)) = 5 /\ Len(Params(f)) = 5
    BY <2>1
  <2> QED
    BY <1>1, <2>2 DEF Arity
<1>2. CASE f = "read_cp"
  <2>1. Pushed(f) = <<"reg", "cp">> /\ Params(f) = <<"cp", "reg">>
    BY <1>2, Lists
  <2>2. Len(Pushed(f)) = 2 /\ Len(Params(f)) = 2
    BY <2>1
  <2> QED
    BY <1>2, <2>2 DEF Arity
<1>3. CASE f = "install_irqhandler"
  <2>1. Pushed(f) = <<"buf">> /\ Params(f) = <<"buf">>
    BY <1>3, Lists
  <2>2. Len(Pushed(f)) = 1 /\ Len(Params(f)) = 1
    BY <2>1
  <2> QED
    BY <1>3, <2>2 DEF Arity
<1>4. CASE f \in {"fb_test", "unlock_mem"}
  <2>1. Pushed(f) = <<>> /\ Params(f) = <<>>
    BY <1>4, Lists
  <2>2. Len(Pushed(f)) = 0 /\ Len(Params(f)) = 0
    BY <2>1
  <2> QED
    BY <1>4, <2>2 DEF Arity
<1> QED
  BY <1>1, <1>2, <1>3, <1>4, Lists

LEMMA ArityBound ==
  ASSUME NEW f \in Func
  PROVE  Arity(f) \in Nat /\ Arity(f) <= 5
BY Arities

LEMMA PushedNames ==
  ASSUME NEW f \in Func
  PROVE  Pushed(f) \in Seq(Name) /\ f \in Name
<1>1. {"cmdline", "initrd_size", "initrd", "kernel_size", "kernel", "reg", "cp", "buf"} \subseteq Name
  BY DEF Name
<1>2. /\ <<"cmdline", "initrd_size", "initrd", "kernel_size", "kernel">> \in Seq(Name)
      /\ <<"reg", "cp">> \in Seq(Name) /\ <<"buf">> \in Seq(Name) /\ <<>> \in Seq(Name)
  BY <1>1
<1>3. Pushed(f) \in Seq(Name)
  BY <1>2, Lists
<1> QED
  BY <1>3 DEF Name

LEMMA PopsReverse ==
  ASSUME NEW f \in Func, NEW k \in 1 .. Arity(f)
  PROVE  Params(f)[k] = Pushed(f)[Arity(f) + 1 - k]
<1>1. CASE f = "boot_linux"
  <2>1. k \in {1, 2, 3, 4, 5} /\ Arity(f) = 5
    BY <1>1, Arities
  <2>2. /\ Pushed(f) = <<"cmdline", "initrd_size", "initrd", "kernel_size", "kernel">>
        /\ Params(f) = <<"kernel", "kernel_size", "initrd", "initrd_size", "cmdline">>
    BY <1>1, Lists
  <2>3. /\ Params(f)[1] = Pushed(f)[5] /\ Params(f)[2] = Pushed(f)[4]
        /\ Params(f)[3] = Pushed(f)[3] /\ Params(f)[4] = Pushed(f)[2]
        /\ Params(f)[5] = Pushed(f)[1]
    BY <2>2
  <2> QED
    BY <2>1, <2>3
<1>2. CASE f = "read_cp"
  <2>1. k \in {1, 2} /\ Arity(f) = 2
    BY <1>2, Arities
  <2>2. Pushed(f) = <<"reg", "cp">> /\ Params(f) = <<"cp", "reg">>
    BY <1>2, Lists
  <2>3. Params(f)[1] = Pushed(f)[2] /\ Params(f)[2] = Pushed(f)[1]
    BY <2>2
  <2> QED
    BY <2>1, <2>3
<1>3. CASE f = "install_irqhandler"
  <2>1. k = 1 /\ Arity(f) = 1
    BY <1>3, Arities
  <2>2. Pushed(f) = <<"buf">> /\ Params(f) = <<"buf">>
    BY <1>3, Lists
  <2>3. Params(f)[1] = Pushed(f)[1]
    BY <2>2
  <2> QED
    BY <2>1, <2>3
<1>4. CASE f \in {"fb_test", "unlock_mem"}
  BY <1>4, Arities
<1> QED
  BY <1>1, <1>2, <1>3, <1>4, Lists

(* The words of a call, pushed on a stack.                                 *)
LEMMA WordsPushed ==
  ASSUME NEW s \in Seq(Word), NEW n \in Nat, NEW names \in Seq(Name)
  PROVE  /\ s \o Words(n, names) \in Seq(Word)
         /\ Len(s \o Words(n, names)) = Len(s) + Len(names)
         /\ \A k \in 1 .. Len(s) : (s \o Words(n, names))[k] = s[k]
         /\ \A k \in 1 .. Len(names) : (s \o Words(n, names))[Len(s) + k] = <<n, names[k]>>
<1>1. Len(names) \in Nat /\ \A k \in 1 .. Len(names) : <<n, names[k]>> \in Word
  BY DEF Word
<1>2. Words(n, names) \in [1 .. Len(names) -> Word]
  BY <1>1 DEF Words
<1>3. Words(n, names) \in Seq(Word)
  BY <1>1, <1>2, SeqDef
<1>4. DOMAIN Words(n, names) = 1 .. Len(names)
  BY DEF Words
<1>5. Len(Words(n, names)) = Len(names)
  BY <1>1, <1>3, <1>4, LenProperties
<1>6. \A k \in 1 .. Len(names) : Words(n, names)[k] = <<n, names[k]>>
  BY DEF Words
<1>7. Len(s) \in Nat
  BY LenProperties
<1> DEFINE w == Words(n, names)
           t == s \o w
<1>a. w \in Seq(Word) /\ Len(w) = Len(names)
  BY <1>3, <1>5
<1> HIDE DEF w
<1>8. /\ t \in Seq(Word) /\ Len(t) = Len(s) + Len(names)
      /\ \A k \in 1 .. Len(s) + Len(names) : t[k] = IF k <= Len(s) THEN s[k] ELSE w[k - Len(s)]
  <2>1. /\ t \in Seq(Word) /\ Len(t) = Len(s) + Len(w)
        /\ \A k \in 1 .. Len(s) + Len(w) : t[k] = IF k <= Len(s) THEN s[k] ELSE w[k - Len(s)]
    BY <1>a, ConcatProperties, Zenon
  <2> QED
    BY <1>a, <2>1
<1>9. \A k \in 1 .. Len(names) : w[k] = <<n, names[k]>>
  BY <1>6 DEF w
<1> HIDE DEF w, t
<1>10. \A k \in 1 .. Len(s) : t[k] = s[k]
  BY <1>1, <1>7, <1>8
<1>11. ASSUME NEW k \in 1 .. Len(names) PROVE t[Len(s) + k] = <<n, names[k]>>
  <2>1. /\ Len(s) + k \in 1 .. Len(s) + Len(names)
        /\ ~ (Len(s) + k <= Len(s)) /\ Len(s) + k - Len(s) = k
    BY <1>1, <1>7
  <2> QED
    BY <1>8, <1>9, <2>1
<1> QED
  BY <1>8, <1>10, <1>11 DEF w, t

LEMMA InitInv == Init => Inv
<1> SUFFICES ASSUME Init PROVE Inv
  OBVIOUS
<1>1. stack \in Seq(Word) /\ Len(stack) = 0
  BY EmptySeq DEF Init
<1> QED
  BY <1>1 DEF Init, Inv, Types, StackInv, ArgumentsArrive, InArm

LEMMA CallStep ==
  ASSUME Inv, NEW f \in Func, NEW who, Call(f, who)
  PROVE  Inv'
<1>1. /\ pc = "app" /\ pc' = "call" /\ calls' = calls + 1 /\ func' = f
      /\ stack' = stack \o Words(calls + 1, Pushed(f))
      /\ got' = NothingGot /\ UNCHANGED <<order, stranded>>
  BY DEF Call
<1>2. stack \in Seq(Word) /\ calls + 1 \in Nat /\ Len(stack) = stranded /\ stranded \in Nat
  BY <1>1 DEF Inv, Types, StackInv
<1>3. /\ stack' \in Seq(Word) /\ Len(stack') = stranded + Arity(f)
      /\ \A k \in 1 .. Arity(f) : stack'[stranded + k] = <<calls + 1, Pushed(f)[k]>>
  <2>1. Pushed(f) \in Seq(Name) /\ Len(Pushed(f)) = Arity(f) /\ Arity(f) \in Nat
    BY PushedNames, Arities, ArityBound
  <2> DEFINE t == stack \o Words(calls + 1, Pushed(f))
  <2>2. /\ t \in Seq(Word) /\ Len(t) = Len(stack) + Len(Pushed(f))
        /\ \A k \in 1 .. Len(Pushed(f)) : t[Len(stack) + k] = <<calls + 1, Pushed(f)[k]>>
    BY <1>2, <2>1, WordsPushed
  <2>3. stack' = t
    BY <1>1
  <2> HIDE DEF t
  <2> QED
    BY <1>2, <2>1, <2>2, <2>3
<1>4. Types' /\ StackInv'
  BY <1>1, <1>2, <1>3 DEF Inv, Types, StackInv, OnTop, Arity, InArm
<1>5. ArgumentsArrive'
  BY <1>1 DEF Inv, ArgumentsArrive
<1> QED
  BY <1>4, <1>5 DEF Inv

LEMMA FailStep == Inv /\ NoResource => Inv'
<1> SUFFICES ASSUME Inv, NoResource PROVE Inv'
  OBVIOUS
<1>1. /\ pc = "call" /\ pc' = "app" /\ stranded' = stranded + Len(Pushed(func))
      /\ UNCHANGED <<stack, order, calls, func, got>>
  BY DEF NoResource, Returned
<1>2. Len(Pushed(func)) = Arity(func) /\ Arity(func) \in Nat
  BY <1>1, Arities, ArityBound DEF Inv, Types
<1>3. Types' /\ StackInv'
  BY <1>1, <1>2 DEF Inv, Types, StackInv, OnTop, InArm
<1>4. ArgumentsArrive'
  BY <1>1 DEF Inv, ArgumentsArrive, Arity
<1> QED
  BY <1>3, <1>4 DEF Inv

LEMMA EnterStep == Inv /\ Enter => Inv'
<1> SUFFICES ASSUME Inv, Enter PROVE Inv'
  OBVIOUS
<1>1. /\ pc = "call" /\ stack' = stack \o Words(calls, <<func, "globals">>)
      /\ pc' \in {"arm", "crashed"}
      /\ UNCHANGED <<order, calls, func, got, stranded>>
  BY DEF Enter
<1>2. func \in Func /\ stack \in Seq(Word) /\ calls \in Nat /\ stranded \in Nat /\ order \in Orders
  BY <1>1 DEF Inv, Types
<1>3. Arity(func) \in Nat /\ func \in Name
  BY <1>2, ArityBound, PushedNames
<1>4. /\ Len(stack) = stranded + Arity(func)
      /\ \A k \in 1 .. Arity(func) : stack[stranded + k] = <<calls, Pushed(func)[k]>>
  BY <1>1 DEF Inv, StackInv, OnTop
<1>5. /\ stack' \in Seq(Word) /\ Len(stack') = Len(stack) + 2
      /\ \A k \in 1 .. Len(stack) : stack'[k] = stack[k]
      /\ stack'[Len(stack) + 1] = <<calls, func>>
      /\ stack'[Len(stack) + 2] = <<calls, "globals">>
  <2>1. <<func, "globals">> \in Seq(Name) /\ Len(<<func, "globals">>) = 2
    BY <1>3 DEF Name
  <2>2. 1 \in 1 .. 2 /\ 2 \in 1 .. 2
    OBVIOUS
  <2>3. <<func, "globals">>[1] = func /\ <<func, "globals">>[2] = "globals"
    OBVIOUS
  <2> QED
    BY <1>1, <1>2, <2>1, <2>2, <2>3, WordsPushed
<1>6. Types' /\ StackInv'
  <2>1. \A k \in 1 .. Arity(func) : stack'[stranded + k] = <<calls, Pushed(func)[k]>>
    BY <1>2, <1>3, <1>4, <1>5
  <2>2. Len(stack') = stranded + (Arity(func) + 2)
    BY <1>2, <1>3, <1>4, <1>5
  <2>3. pc' \in InArm
    BY <1>1 DEF InArm
  <2>4. Types'
    BY <1>1, <1>2, <1>5, <2>3 DEF Types
  <2>5. StackInv'
    BY <1>1, <1>4, <1>5, <2>1, <2>2, <2>3 DEF StackInv, OnTop, Arity, InArm
  <2> QED
    BY <2>4, <2>5
<1>7. stack' # <<>> /\ Top(1)' = <<calls, func>>
  <2>1. Len(stack) \in Nat /\ Len(stack') - 1 = Len(stack) + 1
    BY <1>2, <1>5
  <2> QED
    BY <1>5, <2>1 DEF Top
<1>8. Answer' = Result
  BY <1>2, <1>7 DEF Answer
<1>9. ArgumentsArrive'
  BY <1>1, <1>8 DEF Inv, ArgumentsArrive, Arity
<1> QED
  BY <1>6, <1>9 DEF Inv

LEMMA ReturnStep == Inv /\ Return => Inv'
<1> SUFFICES ASSUME Inv, Return PROVE Inv'
  OBVIOUS
<1>1. /\ pc = "arm" /\ pc' = "app" /\ order' = order
      /\ calls' = calls /\ func' = func /\ stranded' = stranded
  <2>1. pc = "arm" /\ Returned(Answer) /\ UNCHANGED <<order, calls, func, wants, stranded>>
    BY DEF Return
  <2> QED
    BY <2>1 DEF Returned
<1>2. func \in Func /\ stack \in Seq(Word) /\ calls \in Nat /\ stranded \in Nat /\ order \in Orders
  BY <1>1 DEF Inv, Types, InArm
<1>3. /\ Len(stack) = stranded + Arity(func) + 2
      /\ \A k \in 1 .. Arity(func) : stack[stranded + k] = <<calls, Pushed(func)[k]>>
      /\ stack[stranded + Arity(func) + 1] = <<calls, func>>
  BY <1>1, <1>2, ArityBound DEF Inv, StackInv, OnTop, InArm
<1>4. Top(1) = <<calls, func>> /\ Top(1)[2] = func
  BY <1>2, <1>3, ArityBound DEF Top
<1>5. /\ got' = [func |-> Top(1), args |-> [k \in 1 .. Arity(func) |-> Top(1 + Place(func, k))]]
      /\ stack' = SubSeq(stack, 1, Len(stack) - Popped(func))
  <2>1. Answer = Result
    BY <1>1 DEF Inv, ArgumentsArrive
  <2>2. Answer # NoCall /\ Answer # Unknown
    BY <2>1 DEF Result, NoCall, Unknown
  <2> QED
    BY <1>4, <2>1, <2>2 DEF Return
<1>6. \A k \in 1 .. Arity(func) : Top(1 + k) = <<calls, Params(func)[k]>>
  <2> SUFFICES ASSUME NEW k \in 1 .. Arity(func) PROVE Top(1 + k) = <<calls, Params(func)[k]>>
    OBVIOUS
  <2>1. /\ Arity(func) + 1 - k \in 1 .. Arity(func)
        /\ Len(stack) - (1 + k) = stranded + (Arity(func) + 1 - k)
    <3>1. Arity(func) \in Nat /\ k \in 1 .. Arity(func)
      BY <1>2, ArityBound
    <3>2. Len(stack) = stranded + Arity(func) + 2 /\ stranded \in Nat
      BY <1>2, <1>3
    <3> QED
      BY <3>1, <3>2
  <2> QED
    BY <1>2, <1>3, <2>1, PopsReverse, ArityBound DEF Top
<1>7. stack' \in Seq(Word) /\ Len(stack') = stranded
  BY <1>2, <1>3, <1>5, ArityBound DEF Popped
<1>8. Types' /\ StackInv'
  BY <1>1, <1>2, <1>7 DEF Types, StackInv, InArm
<1>9. \A k \in 1 .. Arity(func) : Place(func, k) \in 1 .. Arity(func)
  BY <1>2, ArityBound DEF Place
<1>10. ArgumentsArrive'
  <2>1. got'.func = <<calls, func>> /\ got'.args = [k \in 1 .. Arity(func) |-> Top(1 + Place(func, k))]
    BY <1>4, <1>5
  <2>2. \A k \in 1 .. Arity(func) : got'.args[k] = <<calls, Params(func)[Place(func, k)]>>
    BY <1>6, <1>9, <2>1
  <2>3. \A k \in 1 .. Arity(func) :
          got'.args[k] = [j \in 1 .. Arity(func) |-> <<calls, Params(func)[j]>>]
                           [IF order = "first" THEN k ELSE Arity(func) + 1 - k]
    BY <1>9, <2>2 DEF Place
  <2> QED
    BY <1>1, <2>1, <2>3 DEF ArgumentsArrive, Arity
<1> QED
  BY <1>8, <1>9, <1>10 DEF Inv

LEMMA InvStep == Inv /\ [Next]_vars => Inv'
<1> SUFFICES ASSUME Inv, [Next]_vars PROVE Inv'
  OBVIOUS
<1>1. CASE GetCpuId \/ GetTtb \/ OtherCall
  BY <1>1, CallStep DEF GetCpuId, GetTtb, OtherCall, Func
<1>2. CASE Linux \/ UNCHANGED vars
  <2>1. /\ UNCHANGED <<stack, order, calls, func, got, stranded>>
        /\ pc' = pc \/ (pc = "arm" /\ pc' = "linux")
    BY <1>2 DEF Linux, vars
  <2> QED
    BY <2>1 DEF Inv, Types, StackInv, OnTop, Arity, InArm, ArgumentsArrive, Answer, Top
<1> QED
  BY <1>1, <1>2, FailStep, EnterStep, ReturnStep DEF Next

(* Every ARM function is given the arguments its caller meant, each in the *)
(* right parameter if the compiler evaluates the first argument first,     *)
(* whatever earlier failed calls left on the stack, and none is refused.   *)
THEOREM ArgumentsInPlace == Spec => []ArgumentsArrive
<1>1. Inv => ArgumentsArrive
  BY DEF Inv
<1> QED
  BY <1>1, InitInv, InvStep, PTL DEF Spec

(* Between calls only the arguments of failed calls are on the stack, and  *)
(* no call overflows it as long as they leave seven words free.            *)
THEOREM StackGivenBack == Spec => []NothingLeft
<1>1. Inv => NothingLeft
  <2> SUFFICES ASSUME Inv PROVE NothingLeft
    OBVIOUS
  <2>1. pc # "app" => Arity(func) \in Nat /\ Arity(func) <= 5
    BY ArityBound DEF Inv, Types
  <2> QED
    BY <2>1, ArmCallAssumption DEF Inv, Types, StackInv, OnTop, NothingLeft, InArm
<1> QED
  BY <1>1, InitInv, InvStep, PTL DEF Spec
=============================================================================
