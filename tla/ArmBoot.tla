------------------------------ MODULE ArmBoot ------------------------------
(***************************************************************************)
(* The ARM half of a boot: boot_linux in arm/boot.c and what it calls      *)
(* (map in arm/arm.c, setup_xscale_cpu in arm/cpu.c, setup_atags in        *)
(* arm/atag.c).  It takes the machine away from Palm OS one step at a      *)
(* time: translate every pointer, mask interrupts, map its own code at its *)
(* physical address, jump there, switch the MMU off, write the tagged      *)
(* list, copy the initrd and enter the kernel.                             *)
(*                                                                         *)
(* Two views of memory are kept apart.  The MMU works on sections, so the  *)
(* translation table tt maps a section to a section.  What is written      *)
(* after the MMU is off is tracked by physical word: mem[a] = b says word  *)
(* a holds what word b held at entry, a negative value a word of the       *)
(* tagged list.                                                            *)
(***************************************************************************)
EXTENDS Integers, FiniteSets

CONSTANTS
  MemTop,         \* the last word of RAM that the model tracks
  TagBase,        \* pg->ram_base + TAG_OFFSET
  DefaultInitrd, T3Initrd, T680Initrd,  \* pg->ram_base + *_INITRD_OFFSET
  FixedTags,      \* words of the ATAG_CORE and ATAG_MEM tags
  ZeroTags,       \* those of them whose first byte is zero
  CmdlineHeader,  \* words of the ATAG_CMDLINE header; its text is one word
  InitrdTag,      \* words of the ATAG_INITRD2 tag
  EndTag,         \* words of the ATAG_NONE tag
  Section,        \* section numbers, virtual and physical
  Unmapped,       \* a table entry that faults
  Devices         \* the situations in which boot_linux may be called

Addr == 0 .. MemTop
Vendors == {"intel", "ti", "arm"}
Pointers == {"kernel", "cmdline", "initrd", "globals", "stack", "label"}

(* One call of boot_linux and the device it runs on: where the pages of    *)
(* each object are, which argument pointers are given and which pointers   *)
(* virt_to_phys can translate, the table entries that matter, and whether  *)
(* the translation table is write-protected.                               *)
DeviceType ==
  [ kernel : Addr, klen : Nat, initrd : Addr, ilen : Nat,
    cmd : Addr, hasCmd : BOOLEAN, code : Addr, stack : Addr, globals : Addr,
    mach : {"t3", "treo680", "other"}, cpu : Vendors, elf : BOOLEAN,
    given : SUBSET Pointers, translates : SUBSET Pointers,
    codeV : Section, codeP : Section, stackV : Section, stackP : Section,
    tt : [Section -> Section \cup {Unmapped}], tableReadOnly : BOOLEAN ]

KernelWords(d) == d.kernel .. d.kernel + d.klen - 1
InitrdWords(d) == d.initrd .. d.initrd + d.ilen - 1

(* The words boot_linux itself runs from: code, stack and globals.         *)
Live(d) == {d.code, d.stack, d.globals}

(* The loaded images lie in RAM, in memory of their own, so does the       *)
(* command line (an empty one is its terminator), and the code runs and    *)
(* its stack is used through the table at entry.                           *)
WellPlaced(d) ==
  /\ KernelWords(d) \cup InitrdWords(d) \subseteq Addr
  /\ KernelWords(d) \cap InitrdWords(d) = {}
  /\ (Live(d) \cup {d.cmd}) \cap (KernelWords(d) \cup InitrdWords(d)) = {}
  /\ d.cmd \notin Live(d)
  /\ d.tt[d.codeV] = d.codeP
  /\ d.tt[d.stackV] = d.stackP

ASSUME ConstantsAssumption ==
  /\ MemTop \in Nat
  /\ {TagBase, DefaultInitrd, T3Initrd, T680Initrd} \subseteq Nat
  /\ {FixedTags, CmdlineHeader, InitrdTag, EndTag} \subseteq Nat
  /\ ZeroTags \subseteq 0 .. FixedTags - 1
  /\ TagBase + FixedTags + CmdlineHeader + 1 + InitrdTag + EndTag <= MemTop + 1
  /\ Unmapped \notin Section

ASSUME DevicesAssumption ==
  \A d \in Devices : d \in DeviceType /\ WellPlaced(d)

VARIABLES
  pc,        \* the next step of boot_linux
  ret,       \* the code boot_linux returned to the 68k side
  dev,       \* the situation of this call; never changes
  irq,       \* interrupts enabled in the CPSR
  unlocked,  \* domain access control disables memory protection
  tt,        \* the translation table as the MMU sees it
  space,     \* pc and sp hold "virt" or "phys" addresses
  mmu,       \* the MMU is on
  xscale,    \* the XScale peripherals have been shut down
  line,      \* where the ATAG_CMDLINE tag has its text, or -1 without one
  told,      \* start address in the ATAG_INITRD2 tag, or -1 without one
  mem,       \* RAM by physical word
  copied     \* words of the initrd copied so far

vars == <<pc, ret, dev, irq, unlocked, tt, space, mmu, xscale, line, told, mem, copied>>

Working == {"entry", "translate", "mask", "map", "check", "jump", "mmu", "cpu",
            "atags", "copy", "enter"}
Final == {"returned", "linux", "elf", "lost"}

Init ==
  /\ pc = "entry" /\ ret = "none"
  /\ dev \in Devices
  /\ irq = TRUE /\ unlocked = FALSE
  /\ tt = dev.tt
  /\ space = "virt" /\ mmu = TRUE
  /\ xscale = FALSE /\ line = -1 /\ told = -1
  /\ mem = [a \in Addr |-> a]
  /\ copied = 0

----------------------------------------------------------------------------
(* Virtual address space: everything up to the jump can still go back.     *)

Return(code) == pc' = "returned" /\ ret' = code

RejectNull ==
  /\ pc = "entry"
  /\ ~ {"kernel", "cmdline"} \subseteq dev.given
  /\ Return("c0ffee")
  /\ UNCHANGED <<dev, irq, unlocked, tt, space, mmu, xscale, line, told, mem, copied>>

KeepProtection == UNCHANGED unlocked
DropProtection == unlocked' = TRUE

Unlock ==
  /\ pc = "entry"
  /\ {"kernel", "cmdline"} \subseteq dev.given
  /\ DropProtection
  /\ pc' = "translate"
  /\ UNCHANGED <<ret, dev, irq, tt, space, mmu, xscale, line, told, mem, copied>>

(* The initrd pointer is translated too, but its result is not tested.     *)
Untranslatable ==
  IF ~ {"kernel", "cmdline", "globals"} \subseteq dev.translates THEN "badc01a"
  ELSE IF "stack" \notin dev.translates THEN "badc01a2"
  ELSE IF "label" \notin dev.translates THEN "badc01a3"
  ELSE "none"

Translate ==
  /\ pc = "translate"
  /\ IF Untranslatable = "none" THEN pc' = "mask" /\ UNCHANGED ret
                                ELSE Return(Untranslatable)
  /\ UNCHANGED <<dev, irq, unlocked, tt, space, mmu, xscale, line, told, mem, copied>>

SkipIrqOff == UNCHANGED irq
IrqOff == irq' = FALSE

Mask ==
  /\ pc = "mask"
  /\ IrqOff
  /\ pc' = "map"
  /\ UNCHANGED <<ret, dev, unlocked, tt, space, mmu, xscale, line, told, mem, copied>>

(* map: point the section numbered like the code's physical section at     *)
(* itself.  Only the TLB is flushed, so the MMU may not see the new entry. *)
(* On a device with a protected table the store aborts unless unlocked.    *)
MapIdentity ==
  /\ pc = "map"
  /\ dev.tableReadOnly => unlocked
  /\ tt' \in {tt, [tt EXCEPT ![dev.codeP] = dev.codeP]}
  /\ pc' = "check"
  /\ UNCHANGED <<ret, dev, irq, unlocked, space, mmu, xscale, line, told, mem, copied>>

StackMapped == tt[dev.stackV] = dev.stackP
MapNotTested == TRUE

(* The code compares one word read through both addresses; that another    *)
(* section holds the same word there by chance is left out.                *)
MapVisible == tt[dev.codeP] = dev.codeP

CheckMap ==
  /\ pc = "check" /\ StackMapped
  /\ MapVisible
  /\ pc' = "jump"
  /\ UNCHANGED <<ret, dev, irq, unlocked, tt, space, mmu, xscale, line, told, mem, copied>>

ReturnMasked == UNCHANGED irq
IrqOn == irq' = TRUE

(* The word read through the new mapping differs: give up.                 *)
MapFailed ==
  /\ pc = "check" /\ StackMapped
  /\ ~ MapVisible /\ tt[dev.codeP] # Unmapped
  /\ IrqOn
  /\ Return("c01d")
  /\ UNCHANGED <<dev, unlocked, tt, space, mmu, xscale, line, told, mem, copied>>

(* An abort Palm OS cannot handle: the table store on a protected table,   *)
(* the read through an unmapped section, or locals on a remapped stack.    *)
Abort ==
  /\ \/ pc = "map" /\ dev.tableReadOnly /\ ~ unlocked
     \/ pc = "check" /\ tt[dev.codeP] = Unmapped
     \/ pc = "check" /\ ~ StackMapped
  /\ pc' = "lost"
  /\ UNCHANGED <<ret, dev, irq, unlocked, tt, space, mmu, xscale, line, told, mem, copied>>

Jump ==
  /\ pc = "jump"
  /\ space' = "phys"
  /\ pc' = "mmu"
  /\ UNCHANGED <<ret, dev, irq, unlocked, tt, mmu, xscale, line, told, mem, copied>>

----------------------------------------------------------------------------
(* Physical address space: no way back.  The running code, its stack and   *)
(* the globals are in the same RAM that is being written.                  *)

Alive == \A a \in Live(dev) : mem[a] = a

DisableMmu ==
  /\ pc = "mmu"
  /\ mmu' = FALSE
  /\ pc' = "cpu"
  /\ UNCHANGED <<ret, dev, irq, unlocked, tt, space, xscale, line, told, mem, copied>>

(* The set bits of each vendor byte: 0x69, 0x54 and 0x41.                  *)
VendorBits(v) == CASE v = "intel" -> {0, 3, 5, 6}
                   [] v = "ti"    -> {2, 4, 6}
                   [] v = "arm"   -> {0, 6}

(* pg->cpu & CPUV_INTEL                                                    *)
LooksIntel(v) == VendorBits(v) \cap VendorBits("intel") # {}

SetupCpu ==
  /\ pc = "cpu" /\ Alive
  /\ xscale' = LooksIntel(dev.cpu)
  /\ pc' = "atags"
  /\ UNCHANGED <<ret, dev, irq, unlocked, tt, space, mmu, line, told, mem, copied>>

InitrdBase(d) == CASE d.mach = "t3"      -> T3Initrd
                   [] d.mach = "treo680" -> T680Initrd
                   [] d.mach = "other"   -> DefaultInitrd

Mark(j) == -1 - j
TextAt == FixedTags + CmdlineHeader

(* The length of the command line is taken after the core and memory tags  *)
(* are written: if it lay under them, it reads as the word written there.  *)
SeesText(d) ==
  IF d.cmd \in TagBase .. TagBase + FixedTags - 1 THEN d.cmd - TagBase \notin ZeroTags
                                                  ELSE d.hasCmd
CmdWords(d) == IF SeesText(d) THEN CmdlineHeader + 1 ELSE 0
TagWords(d) == FixedTags + CmdWords(d) + (IF d.ilen > 0 THEN InitrdTag ELSE 0) + EndTag

(* What word j of the tagged list holds.  The text is copied after the     *)
(* words in front of it are written.                                       *)
TagWord(d, m, j) ==
  IF ~ SeesText(d) \/ j # TextAt THEN Mark(j)
  ELSE IF d.cmd \in TagBase .. TagBase + TextAt - 1 THEN Mark(d.cmd - TagBase)
  ELSE m[d.cmd]

SetupAtags ==
  /\ pc = "atags" /\ Alive
  /\ mem' = [a \in Addr |-> IF a \in TagBase .. TagBase + TagWords(dev) - 1
                            THEN TagWord(dev, mem, a - TagBase) ELSE mem[a]]
  /\ line' = IF SeesText(dev) THEN TagBase + TextAt ELSE -1
  /\ told' = IF dev.ilen > 0 THEN InitrdBase(dev) ELSE -1
  /\ pc' = "copy"
  /\ UNCHANGED <<ret, dev, irq, unlocked, tt, space, mmu, xscale, copied>>

HasInitrd(d) == d.ilen > 0 /\ "initrd" \in d.translates
CopyStopsShort(d, n) == ~ HasInitrd(d) \/ n + 1 >= d.ilen
CopyDone(d, n) == ~ HasInitrd(d) \/ n >= d.ilen
Stuck(n) == n
CountDown(n) == n - 1
Advance(n) == n + 1
LastFirst(d, n) == d.ilen - 1 - n
FirstFirst(d, n) == n

(* copy_image, one word.  A store past the end of RAM has no effect.       *)
CopyWord ==
  /\ pc = "copy" /\ Alive
  /\ ~ CopyDone(dev, copied)
  /\ LET i == FirstFirst(dev, copied)
     IN mem' = [mem EXCEPT ![InitrdBase(dev) + i] = mem[dev.initrd + i]]
  /\ copied' = Advance(copied)
  /\ UNCHANGED <<pc, ret, dev, irq, unlocked, tt, space, mmu, xscale, line, told>>

EndCopy ==
  /\ pc = "copy" /\ Alive
  /\ CopyDone(dev, copied)
  /\ pc' = "enter"
  /\ UNCHANGED <<ret, dev, irq, unlocked, tt, space, mmu, xscale, line, told, mem, copied>>

(* jump_to_kernel, or relocate_elf for an ELF image.                       *)
Enter ==
  /\ pc = "enter" /\ Alive
  /\ pc' = IF dev.elf THEN "elf" ELSE "linux"
  /\ UNCHANGED <<ret, dev, irq, unlocked, tt, space, mmu, xscale, line, told, mem, copied>>

(* The code, stack or globals were overwritten: nothing is known any more. *)
Derail ==
  /\ pc \in {"cpu", "atags", "copy", "enter"}
  /\ ~ Alive
  /\ pc' = "lost"
  /\ UNCHANGED <<ret, dev, irq, unlocked, tt, space, mmu, xscale, line, told, mem, copied>>

Next ==
  \/ RejectNull \/ Unlock \/ Translate \/ Mask \/ MapIdentity
  \/ CheckMap \/ MapFailed \/ Abort \/ Jump
  \/ DisableMmu \/ SetupCpu \/ SetupAtags \/ CopyWord \/ EndCopy \/ Enter
  \/ Derail

(* Straight-line code that only aborts can stop: it keeps executing.       *)
Spec == Init /\ [][Next]_vars
FairSpec == Spec /\ WF_vars(Next)

----------------------------------------------------------------------------
(* Properties.                                                             *)

(* Every variable holds a value of its type.                               *)
TypeOK ==
  /\ pc \in Working \cup Final
  /\ ret \in {"none", "c0ffee", "badc01a", "badc01a2", "badc01a3", "c01d"}
  /\ dev \in DeviceType /\ WellPlaced(dev)
  /\ irq \in BOOLEAN /\ unlocked \in BOOLEAN
  /\ tt \in [Section -> Section \cup {Unmapped}]
  /\ space \in {"virt", "phys"} /\ mmu \in BOOLEAN /\ xscale \in BOOLEAN
  /\ line \in Int /\ told \in Int
  /\ mem \in [Addr -> Int]
  /\ copied \in Nat

(* While the MMU is on, the next instruction of boot_linux is always       *)
(* fetched from its own code: before the jump through its virtual section, *)
(* after it through the identity mapping made by map.  A jump before the   *)
(* mapping is visible would fetch something else.                          *)
FetchMapped ==
  mmu => tt[IF space = "virt" THEN dev.codeV ELSE dev.codeP] = dev.codeP

(* boot.c: "From here on, if we're interrupted, PalmOS will hang us!"  No  *)
(* interrupt can be taken from the first store to the table until the      *)
(* kernel runs or control is back in Palm OS.                              *)
InterruptsMasked ==
  space = "phys" \/ ~ mmu \/ pc \in {"map", "check", "jump"} => ~ irq

(* When boot_linux returns an error to the 68k side, Palm OS can go on: it *)
(* is still in the virtual address space with the MMU and interrupts on,   *)
(* no peripheral was shut down and no word of memory overwritten; only a   *)
(* mapping that could not be verified leaves the table changed.  Memory    *)
(* protection, dropped before the pointers are translated, stays dropped.  *)
ReturnRestores ==
  pc = "returned" =>
    /\ irq /\ mmu /\ space = "virt" /\ ~ xscale
    /\ \A a \in Addr : mem[a] = a
    /\ ret # "c01d" => tt = dev.tt

(* The layouts for which the writes of boot_linux destroy nothing: neither *)
(* the tagged list nor the initrd's destination overlaps the kernel, the   *)
(* running code or each other, the destination is RAM, the tags leave the  *)
(* initrd and the text of the command line alone and do not make text of   *)
(* an empty one, and copying forward is right.                             *)
TagAddrs(d) == TagBase .. TagBase + TagWords(d) - 1
Dest(d) == InitrdBase(d) .. InitrdBase(d) + d.ilen - 1
TagsSafe(d) ==
  /\ TagAddrs(d) \cap (KernelWords(d) \cup InitrdWords(d) \cup Live(d)) = {}
  /\ d.hasCmd => d.cmd \notin TagBase .. TagBase + TextAt - 1
  /\ SeesText(d) => d.hasCmd
CopySafe(d) ==
  /\ Dest(d) \cap (KernelWords(d) \cup TagAddrs(d) \cup Live(d)) = {}
  /\ Dest(d) \subseteq Addr
  /\ InitrdBase(d) <= d.initrd \/ Dest(d) \cap InitrdWords(d) = {}
Safe(d) == TagsSafe(d) /\ CopySafe(d)

(* What Linux must find: the kernel as loaded, a well-formed tagged list   *)
(* with the command line if there is one and with no other, and the whole  *)
(* initrd where the tag says it is.                                        *)
Intact ==
  /\ \A a \in KernelWords(dev) : mem[a] = a
  /\ \A j \in 0 .. TagWords(dev) - 1 :
       mem[TagBase + j] = IF dev.hasCmd /\ j = TextAt THEN dev.cmd ELSE Mark(j)
  /\ line = IF dev.hasCmd THEN TagBase + TextAt ELSE -1
  /\ told = IF dev.ilen > 0 THEN InitrdBase(dev) ELSE -1
  /\ \A k \in 0 .. dev.ilen - 1 :
       InitrdBase(dev) + k \in Addr /\ mem[InitrdBase(dev) + k] = dev.initrd + k

(* In every safe layout the kernel is entered with all it was promised,    *)
(* provided the initrd's address could be translated.                      *)
Handover == pc \in {"linux", "elf"} /\ (dev.ilen > 0 => "initrd" \in dev.translates)
SafeHandover == Handover /\ Safe(dev) => Intact

(* No weaker condition will do: a kernel entered in any other layout finds *)
(* something missing or overwritten.                                       *)
OnlySafeHandover == Handover /\ Intact => Safe(dev)

(* The only ways to lose control: the read that tests a mapping the MMU    *)
(* does not see yet, the identity mapping replacing the section of the     *)
(* stack, or a layout in which the running code is overwritten.  A write-  *)
(* protected table is not one of them.                                     *)
LostOnlyTo ==
  pc = "lost" =>
    \/ tt[dev.codeP] = Unmapped
    \/ dev.stackV = dev.codeP /\ dev.stackP # dev.codeP
    \/ (TagAddrs(dev) \cup Dest(dev)) \cap Live(dev) # {}

(* boot_linux always comes to an end: it returns, enters the kernel or     *)
(* loses control.  The copy loop is finite for every layout.               *)
Terminates == <>(pc \in Final)

(* boot.c:186 "copy initrd into place": when the tagged list tells Linux   *)
(* where the initrd is, the initrd is there.                               *)
InitrdToldIsCopied ==
  pc = "linux" /\ told # -1 /\ Safe(dev) =>
    \A k \in 0 .. dev.ilen - 1 : mem[told + k] = dev.initrd + k

----------------------------------------------------------------------------
(* The boot as one handover: what AtomicBoot is told of each state.        *)

Owner == IF pc \in {"linux", "elf"} THEN "linux"
         ELSE IF pc = "lost" THEN "lost"
         ELSE IF space = "phys" THEN "nobody"
         ELSE IF irq THEN "palm" ELSE "boot"

Passed == [ kernel  |-> [k \in 0 .. dev.klen - 1 |-> dev.kernel + k],
            initrd  |-> [k \in 0 .. dev.ilen - 1 |-> dev.initrd + k],
            cmdline |-> IF dev.hasCmd THEN {dev.cmd} ELSE {} ]

(* What Linux finds where the kernel was loaded and where the tagged list  *)
(* says; behind the end of RAM there is nothing it was given.              *)
Found(a) == IF a \in Addr THEN mem[a] ELSE Mark(MemTop + 1)
Received ==
  IF pc \notin {"linux", "elf"} THEN {}
  ELSE {[ kernel  |-> [k \in 0 .. dev.klen - 1 |-> Found(dev.kernel + k)],
          initrd  |-> [k \in 0 .. dev.ilen - 1 |-> Found(told + k)],
          cmdline |-> IF line # -1 THEN {Found(line)} ELSE {} ]}

Clear == Safe(dev) /\ (dev.ilen > 0 => "initrd" \in dev.translates)

Abstract == INSTANCE AtomicBoot
  WITH owner <- Owner, passed <- Passed, clear <- Clear, received <- Received

(* All of boot_linux together is one handover: Palm OS has the machine     *)
(* back after an error, or Linux has it, once, with the kernel, the initrd *)
(* and the command line of the call; once the jump is made nothing but an  *)
(* unsafe layout can change that.                                          *)
ImplementsAtomicBoot == Abstract!Spec
=============================================================================
