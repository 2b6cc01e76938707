--------------------------- MODULE ArmBootProofs ---------------------------
(***************************************************************************)
(* The safety properties of ArmBoot for every RAM size, every layout of    *)
(* the images in it and every translation table.  The invariant has a part *)
(* for control (which regime each program location belongs to), one for    *)
(* the translation table and one that says exactly what memory holds.      *)
(***************************************************************************)
EXTENDS ArmBoot, TLAPS

(* Locations from which boot_linux can still return to Palm OS.            *)
Virtual == {"entry", "translate", "mask", "map", "check", "jump", "returned"}
Untouched == Virtual \cup {"mmu", "cpu", "atags"}

ControlInv ==
  /\ pc \in Virtual => space = "virt" /\ mmu /\ ~ xscale
  /\ pc \in {"entry", "translate", "mask", "returned"} => irq
  /\ pc \in Working \ {"entry", "translate", "mask"} => ~ irq
  /\ space = "phys" \/ ~ mmu => ~ irq
  /\ pc \in Working \ {"entry"} => unlocked
  /\ pc \in {"mmu", "cpu", "atags", "copy", "enter"} => space = "phys"

TableInv ==
  /\ \A s \in Section : s # dev.codeP => tt[s] = dev.tt[s]
  /\ tt[dev.codeP] \in {dev.tt[dev.codeP], dev.codeP}
  /\ pc \in {"entry", "translate", "mask"} => tt = dev.tt
  /\ pc = "returned" /\ ret # "c01d" => tt = dev.tt
  /\ pc = "jump" \/ space = "phys" => tt[dev.codeP] = dev.codeP

(* What RAM holds once the tagged list is written and n words are copied.  *)
Expected(d, n) ==
  [ a \in Addr |->
      IF a \in TagAddrs(d)
        THEN IF d.hasCmd /\ a - TagBase = TextAt THEN d.cmd ELSE Mark(a - TagBase)
      ELSE IF a \in InitrdBase(d) .. InitrdBase(d) + n - 1
        THEN d.initrd + (a - InitrdBase(d))
      ELSE a ]

MemoryInv ==
  /\ pc \in Untouched => mem = [a \in Addr |-> a] /\ line = -1 /\ told = -1 /\ copied = 0
  /\ pc \in {"copy", "enter", "linux", "elf"} =>
       /\ line = IF SeesText(dev) THEN TagBase + TextAt ELSE -1
       /\ told = IF dev.ilen > 0 THEN InitrdBase(dev) ELSE -1
       /\ HasInitrd(dev) => copied <= dev.ilen
       /\ ~ HasInitrd(dev) => copied = 0
       /\ Safe(dev) => mem = Expected(dev, copied)
  /\ pc \in {"enter", "linux", "elf"} /\ HasInitrd(dev) => copied = dev.ilen

(* Only the tagged list and the initrd's destination are ever written.     *)
Damage(a) == a \in TagAddrs(dev) \cup Dest(dev)
LossInv ==
  /\ \A a \in Addr : mem[a] # a => Damage(a)
  /\ LostOnlyTo

Inv == TypeOK /\ ControlInv /\ TableInv /\ MemoryInv /\ LossInv

----------------------------------------------------------------------------
(* Every address boot_linux derives from the machine is a natural number.  *)
LEMMA BaseType ==
  ASSUME NEW d \in DeviceType
  PROVE  /\ InitrdBase(d) \in Nat
         /\ TagWords(d) \in Nat /\ TextAt \in Nat
         /\ SeesText(d) => TextAt < TagWords(d)
         /\ TagAddrs(d) \subseteq Addr
BY ConstantsAssumption DEF DeviceType, InitrdBase, TagWords, CmdWords, TextAt, TagAddrs, Addr

(* In a safe layout the length of the command line is taken from it.       *)
LEMMA TextWhenSafe ==
  ASSUME NEW d \in DeviceType, TagsSafe(d)
  PROVE  SeesText(d) <=> d.hasCmd
<1>1. d.cmd \in Int /\ TagBase \in Nat /\ FixedTags \in Nat /\ CmdlineHeader \in Nat
  BY ConstantsAssumption DEF DeviceType, Addr
<1>2. d.hasCmd => d.cmd \notin TagBase .. TagBase + FixedTags - 1
  BY <1>1 DEF TagsSafe, TextAt
<1> QED
  BY <1>2 DEF TagsSafe, SeesText

(* Each device is described by a well-typed record.                        *)
LEMMA DevType ==
  TypeOK => /\ dev \in DeviceType /\ WellPlaced(dev)
            /\ dev.cmd \in Addr /\ dev.ilen \in Nat /\ dev.initrd \in Addr
            /\ dev.codeP \in Section /\ dev.hasCmd \in BOOLEAN
BY DEF TypeOK, DeviceType

(* The loaded initrd is a range of RAM.                                    *)
LEMMA InitrdInRam ==
  ASSUME NEW d \in DeviceType, WellPlaced(d), NEW k \in 0 .. d.ilen - 1
  PROVE  d.initrd + k \in Addr /\ d.initrd + k \in InitrdWords(d)
<1>1. d.initrd \in Nat /\ d.ilen \in Nat
  BY DEF DeviceType, Addr
<1>2. d.initrd + k \in InitrdWords(d)
  BY <1>1 DEF InitrdWords
<1>3. QED
  BY <1>2 DEF WellPlaced

LEMMA InitInv == Init => Inv
<1> SUFFICES ASSUME Init PROVE Inv
  OBVIOUS
<1>1. dev \in DeviceType /\ WellPlaced(dev)
  BY DevicesAssumption DEF Init
<1>2. TypeOK
  <2>1. dev.tt \in [Section -> Section \cup {Unmapped}]
    BY <1>1 DEF DeviceType
  <2>2. mem \in [Addr -> Int]
    <3>1. Addr \subseteq Int
      BY DEF Addr
    <3>2. QED
      BY <3>1 DEF Init
  <2>3. QED
    <3>1. line \in Int /\ told \in Int /\ copied \in Nat
      BY DEF Init
    <3>2. irq \in BOOLEAN /\ unlocked \in BOOLEAN /\ mmu \in BOOLEAN /\ xscale \in BOOLEAN
      BY Zenon DEF Init
    <3>3. tt \in [Section -> Section \cup {Unmapped}]
      BY <2>1 DEF Init
    <3>4. QED
      BY <1>1, <2>2, <3>1, <3>2, <3>3 DEF Init, TypeOK, Working
<1>3. ControlInv
  BY DEF Init, ControlInv, Virtual, Working
<1>4. TableInv
  BY <1>1 DEF Init, TableInv
<1>5. MemoryInv
  BY DEF Init, MemoryInv, Untouched, Virtual
<1>6. LossInv
  BY DEF Init, LossInv, LostOnlyTo
<1>7. QED
  BY <1>2, <1>3, <1>4, <1>5, <1>6 DEF Inv

(* Every operation keeps the variables in their types.                     *)
LEMMA TypeStep == TypeOK /\ [Next]_vars => TypeOK'
<1> SUFFICES ASSUME TypeOK, [Next]_vars PROVE TypeOK'
  OBVIOUS
<1>1. CASE RejectNull
  BY <1>1 DEF RejectNull, Return, TypeOK, Working, Final
<1>2. CASE Unlock
  BY <1>2 DEF Unlock, DropProtection, TypeOK, Working
<1>3. CASE Translate
  BY <1>3 DEF Translate, Untranslatable, Return, TypeOK, Working, Final
<1>4. CASE Mask
  BY <1>4 DEF Mask, IrqOff, TypeOK, Working
<1>5. CASE MapIdentity
  <2>1. tt' \in [Section -> Section \cup {Unmapped}]
    BY <1>5, DevType DEF MapIdentity, TypeOK
  <2>2. QED
    BY <1>5, <2>1 DEF MapIdentity, TypeOK, Working
<1>6. CASE CheckMap
  BY <1>6 DEF CheckMap, TypeOK, Working
<1>7. CASE MapFailed
  BY <1>7 DEF MapFailed, IrqOn, Return, TypeOK, Final
<1>8. CASE Abort
  BY <1>8 DEF Abort, TypeOK, Final
<1>9. CASE Jump
  BY <1>9 DEF Jump, TypeOK, Working
<1>10. CASE DisableMmu
  BY <1>10 DEF DisableMmu, TypeOK, Working
<1>11. CASE SetupCpu
  <2>1. xscale' \in BOOLEAN
    BY <1>11 DEF SetupCpu, LooksIntel
  <2>2. QED
    BY <1>11, <2>1 DEF SetupCpu, TypeOK, Working
<1>12. CASE SetupAtags
  <2>1. line' \in Int /\ told' \in Int
    BY <1>12, DevType, BaseType, ConstantsAssumption DEF SetupAtags
  <2>2. mem[dev.cmd] \in Int /\ dev.cmd - TagBase \in Int
    <3>1. dev.cmd \in Addr /\ mem \in [Addr -> Int]
      BY DevType DEF TypeOK
    <3>2. dev.cmd \in Int /\ TagBase \in Int
      BY <3>1, ConstantsAssumption DEF Addr
    <3>3. QED
      BY <3>1, <3>2
  <2>3. \A j \in Int : TagWord(dev, mem, j) \in Int
    <3>1. \A j \in Int : Mark(j) \in Int
      BY DEF Mark
    <3>2. QED
      BY <2>2, <3>1 DEF TagWord
  <2>4. mem' \in [Addr -> Int]
    <3>1. \A a \in Addr : a - TagBase \in Int
      BY ConstantsAssumption DEF Addr
    <3>2. QED
      BY <1>12, <2>3, <3>1 DEF SetupAtags, TypeOK
  <2>5. QED
    BY <1>12, <2>1, <2>4 DEF SetupAtags, TypeOK, Working
<1>13. CASE CopyWord
  <2>1. dev.initrd + copied \in Addr
    <3>1. copied \in 0 .. dev.ilen - 1
      BY <1>13, DevType DEF CopyWord, CopyDone, HasInitrd, TypeOK
    <3>2. QED
      BY <3>1, DevType, InitrdInRam
  <2>2. mem' \in [Addr -> Int]
    BY <1>13, <2>1 DEF CopyWord, FirstFirst, TypeOK
  <2>3. copied' \in Nat
    BY <1>13 DEF CopyWord, Advance, TypeOK
  <2>4. QED
    BY <1>13, <2>2, <2>3 DEF CopyWord, TypeOK
<1>14. CASE EndCopy
  BY <1>14 DEF EndCopy, TypeOK, Working
<1>15. CASE Enter
  BY <1>15 DEF Enter, TypeOK, Final
<1>16. CASE Derail
  BY <1>16 DEF Derail, TypeOK, Final
<1>17. CASE UNCHANGED vars
  BY <1>17 DEF vars, TypeOK
<1>18. QED
  BY <1>1, <1>2, <1>3, <1>4, <1>5, <1>6, <1>7, <1>8, <1>9, <1>10, <1>11, <1>12,
     <1>13, <1>14, <1>15, <1>16, <1>17 DEF Next

(* Interrupts, protection and the address space follow the location.       *)
LEMMA ControlStep == TypeOK /\ ControlInv /\ [Next]_vars => ControlInv'
<1> SUFFICES ASSUME TypeOK, ControlInv, [Next]_vars PROVE ControlInv'
  OBVIOUS
<1> USE DEF ControlInv, Virtual, Working, Final
<1>1. CASE RejectNull
  BY <1>1 DEF RejectNull, Return
<1>2. CASE Unlock
  BY <1>2 DEF Unlock, DropProtection
<1>3. CASE Translate
  BY <1>3 DEF Translate, Return
<1>4. CASE Mask
  BY <1>4 DEF Mask, IrqOff
<1>5. CASE MapIdentity
  BY <1>5 DEF MapIdentity
<1>6. CASE CheckMap
  BY <1>6 DEF CheckMap
<1>7. CASE MapFailed
  BY <1>7 DEF MapFailed, Return, IrqOn
<1>8. CASE Abort
  BY <1>8 DEF Abort
<1>9. CASE Jump
  BY <1>9 DEF Jump
<1>10. CASE DisableMmu
  BY <1>10 DEF DisableMmu
<1>11. CASE SetupCpu
  BY <1>11 DEF SetupCpu
<1>12. CASE SetupAtags
  BY <1>12 DEF SetupAtags
<1>13. CASE CopyWord
  BY <1>13 DEF CopyWord
<1>14. CASE EndCopy
  BY <1>14 DEF EndCopy
<1>15. CASE Enter
  BY <1>15 DEF Enter
<1>16. CASE Derail
  BY <1>16 DEF Derail
<1>17. CASE UNCHANGED vars
  BY <1>17 DEF vars
<1>18. QED
  BY <1>1, <1>2, <1>3, <1>4, <1>5, <1>6, <1>7, <1>8, <1>9, <1>10, <1>11, <1>12, <1>13, <1>14, <1>15, <1>16, <1>17 DEF Next

(* The table differs from the one at entry in the identity mapping only.   *)
LEMMA TableStep ==
  TypeOK /\ ControlInv /\ TableInv /\ [Next]_vars => TableInv'
<1> SUFFICES ASSUME TypeOK, ControlInv, TableInv, [Next]_vars PROVE TableInv'
  OBVIOUS
<1>1. CASE RejectNull
  BY <1>1 DEF RejectNull, Return, TableInv
<1>2. CASE Unlock
  BY <1>2 DEF Unlock, TableInv
<1>3. CASE Translate
  BY <1>3 DEF Translate, Return, TableInv
<1>4. CASE Mask
  BY <1>4 DEF Mask, TableInv
<1>5. CASE MapIdentity
  <2>1. tt \in [Section -> Section \cup {Unmapped}] /\ dev.codeP \in Section
    BY DevType DEF TypeOK
  <2>2. space = "virt"
    BY <1>5 DEF MapIdentity, ControlInv, Virtual
  <2>3. QED
    BY <1>5, <2>1, <2>2 DEF MapIdentity, TableInv
<1>6. CASE CheckMap
  BY <1>6 DEF CheckMap, MapVisible, TableInv
<1>7. CASE MapFailed
  BY <1>7 DEF MapFailed, Return, TableInv
<1>8. CASE Abort
  BY <1>8 DEF Abort, TableInv
<1>9. CASE Jump
  BY <1>9 DEF Jump, TableInv
<1>10. CASE DisableMmu
  BY <1>10 DEF DisableMmu, TableInv
<1>11. CASE SetupCpu
  BY <1>11 DEF SetupCpu, TableInv
<1>12. CASE SetupAtags
  BY <1>12 DEF SetupAtags, TableInv
<1>13. CASE CopyWord
  BY <1>13 DEF CopyWord, TableInv
<1>14. CASE EndCopy
  BY <1>14 DEF EndCopy, TableInv
<1>15. CASE Enter
  BY <1>15 DEF Enter, TableInv
<1>16. CASE Derail
  BY <1>16 DEF Derail, TableInv
<1>17. CASE UNCHANGED vars
  BY <1>17 DEF vars, TableInv
<1>18. QED
  BY <1>1, <1>2, <1>3, <1>4, <1>5, <1>6, <1>7, <1>8, <1>9, <1>10, <1>11, <1>12, <1>13, <1>14, <1>15, <1>16, <1>17 DEF Next

(* In a safe layout each word the copy loop reads still holds what was     *)
(* loaded there: neither the tags nor the words already copied reached it. *)
LEMMA SourceIntact ==
  ASSUME NEW d \in DeviceType, WellPlaced(d), Safe(d), NEW n \in 0 .. d.ilen - 1
  PROVE  /\ d.initrd + n \in Addr /\ InitrdBase(d) + n \in Addr
         /\ InitrdBase(d) + n \notin TagAddrs(d)
         /\ Expected(d, n)[d.initrd + n] = d.initrd + n
<1>1. d.initrd \in Nat /\ d.ilen \in Nat /\ InitrdBase(d) \in Nat
  BY BaseType DEF DeviceType, Addr
<1>2. d.initrd + n \in Addr /\ d.initrd + n \in InitrdWords(d)
  BY InitrdInRam
<1>3. InitrdBase(d) + n \in Dest(d)
  BY <1>1 DEF Dest
<1>4. InitrdBase(d) + n \in Addr /\ InitrdBase(d) + n \notin TagAddrs(d)
  BY <1>3 DEF Safe, CopySafe
<1>5. d.initrd + n \notin TagAddrs(d)
  BY <1>2 DEF Safe, TagsSafe
<1>6. d.initrd + n \notin InitrdBase(d) .. InitrdBase(d) + n - 1
  <2>1. CASE InitrdBase(d) <= d.initrd
    BY <1>1, <2>1
  <2>2. CASE Dest(d) \cap InitrdWords(d) = {}
    <3>1. d.initrd + n \notin Dest(d)
      BY <1>2, <2>2
    <3>2. QED
      BY <1>1, <3>1 DEF Dest
  <2>3. QED
    BY <2>1, <2>2 DEF Safe, CopySafe
<1>7. QED
  BY <1>2, <1>4, <1>5, <1>6 DEF Expected

(* Writing the tagged list over untouched memory gives what is expected    *)
(* before any word of the initrd is copied.                                *)
LEMMA TagsWritten ==
  ASSUME NEW d \in DeviceType, Safe(d)
  PROVE  Expected(d, 0) =
           [ a \in Addr |-> IF a \in TagBase .. TagBase + TagWords(d) - 1
                            THEN TagWord(d, [b \in Addr |-> b], a - TagBase) ELSE a ]
<1> DEFINE New == [ a \in Addr |-> IF a \in TagBase .. TagBase + TagWords(d) - 1
                            THEN TagWord(d, [b \in Addr |-> b], a - TagBase) ELSE a ]
<1> SUFFICES ASSUME NEW a \in Addr PROVE Expected(d, 0)[a] = New[a]
  BY DEF Expected
<1>1. InitrdBase(d) \in Int /\ d.cmd \in Addr
  BY BaseType DEF DeviceType
<1>2. a \notin InitrdBase(d) .. InitrdBase(d) + 0 - 1
  BY <1>1
<1>3. d.hasCmd => [b \in Addr |-> b][d.cmd] = d.cmd
  BY <1>1
<1>4. CASE a \in TagAddrs(d)
  <2>1. TagWord(d, [b \in Addr |-> b], a - TagBase)
          = IF d.hasCmd /\ a - TagBase = TextAt THEN d.cmd ELSE Mark(a - TagBase)
    BY <1>3, TextWhenSafe DEF TagWord, Safe, TagsSafe
  <2>2. QED
    BY <1>4, <2>1 DEF Expected, TagAddrs
<1>5. CASE a \notin TagAddrs(d)
  BY <1>2, <1>5 DEF Expected, TagAddrs
<1>6. QED
  BY <1>4, <1>5

(* One more word copied.                                                   *)
LEMMA WordCopied ==
  ASSUME NEW d \in DeviceType, WellPlaced(d), Safe(d), NEW n \in 0 .. d.ilen - 1
  PROVE  Expected(d, n + 1) =
           [Expected(d, n) EXCEPT ![InitrdBase(d) + n] = Expected(d, n)[d.initrd + n]]
<1> DEFINE New == [Expected(d, n) EXCEPT ![InitrdBase(d) + n] = Expected(d, n)[d.initrd + n]]
<1>1. d.initrd \in Nat /\ d.ilen \in Nat /\ InitrdBase(d) \in Nat
  BY BaseType DEF DeviceType, Addr
<1> SUFFICES ASSUME NEW a \in Addr PROVE Expected(d, n + 1)[a] = New[a]
  BY DEF Expected
<1>2. a \in Int
  BY DEF Addr
<1>3. CASE a = InitrdBase(d) + n
  <2>1. New[a] = d.initrd + n
    BY <1>3, SourceIntact DEF Expected
  <2>2. a \notin TagAddrs(d) /\ a - InitrdBase(d) = n
    BY <1>1, <1>3, SourceIntact
  <2>3. a \in InitrdBase(d) .. InitrdBase(d) + (n + 1) - 1
    BY <1>1, <1>3
  <2>4. QED
    BY <2>1, <2>2, <2>3 DEF Expected
<1>4. CASE a # InitrdBase(d) + n
  <2>1. New[a] = Expected(d, n)[a]
    BY <1>4 DEF Expected
  <2>2. a \in InitrdBase(d) .. InitrdBase(d) + (n + 1) - 1
          <=> a \in InitrdBase(d) .. InitrdBase(d) + n - 1
    BY <1>1, <1>2, <1>4
  <2>3. QED
    BY <2>1, <2>2 DEF Expected
<1>5. QED
  BY <1>3, <1>4

(* Memory is untouched until the tags are written and as expected after.   *)
LEMMA MemoryStep == TypeOK /\ MemoryInv /\ [Next]_vars => MemoryInv'
<1> SUFFICES ASSUME TypeOK, MemoryInv, [Next]_vars PROVE MemoryInv'
  OBVIOUS
<1> USE DEF Untouched, Virtual
<1>1. CASE RejectNull
  BY <1>1 DEF RejectNull, Return, MemoryInv
<1>2. CASE Unlock
  BY <1>2 DEF Unlock, MemoryInv
<1>3. CASE Translate
  BY <1>3 DEF Translate, Return, MemoryInv
<1>4. CASE Mask
  BY <1>4 DEF Mask, MemoryInv
<1>5. CASE MapIdentity
  BY <1>5 DEF MapIdentity, MemoryInv
<1>6. CASE CheckMap
  BY <1>6 DEF CheckMap, MemoryInv
<1>7. CASE MapFailed
  BY <1>7 DEF MapFailed, Return, MemoryInv
<1>8. CASE Abort
  BY <1>8 DEF Abort, MemoryInv
<1>9. CASE Jump
  BY <1>9 DEF Jump, MemoryInv
<1>10. CASE DisableMmu
  BY <1>10 DEF DisableMmu, MemoryInv
<1>11. CASE SetupCpu
  BY <1>11 DEF SetupCpu, MemoryInv
<1>12. CASE SetupAtags
  <2>1. mem = [a \in Addr |-> a] /\ copied = 0
    BY <1>12 DEF SetupAtags, MemoryInv
  <2>2. Safe(dev) => mem' = Expected(dev, 0)
    <3>1. \A a \in Addr : mem[a] = a
      BY <2>1
    <3>2. mem' = [ a \in Addr |-> IF a \in TagBase .. TagBase + TagWords(dev) - 1
                   THEN TagWord(dev, [b \in Addr |-> b], a - TagBase) ELSE a ]
      BY <1>12, <2>1, <3>1 DEF SetupAtags
    <3>3. QED
      BY <3>2, DevType, TagsWritten
  <2>3. 0 <= dev.ilen
    BY DevType
  <2>4. QED
    BY <1>12, <2>1, <2>2, <2>3 DEF SetupAtags, MemoryInv
<1>13. CASE CopyWord
  <2>1. HasInitrd(dev) /\ copied \in 0 .. dev.ilen - 1
    BY <1>13, DevType DEF CopyWord, CopyDone, HasInitrd, TypeOK
  <2>2. Safe(dev) => mem' = Expected(dev, copied + 1)
    <3> SUFFICES ASSUME Safe(dev) PROVE mem' = Expected(dev, copied + 1)
      OBVIOUS
    <3>1. mem = Expected(dev, copied)
      BY <1>13 DEF CopyWord, MemoryInv
    <3>2. mem' = [mem EXCEPT ![InitrdBase(dev) + copied] = mem[dev.initrd + copied]]
      BY <1>13 DEF CopyWord, FirstFirst
    <3>3. QED
      BY <2>1, <3>1, <3>2, DevType, WordCopied
  <2>3. copied' = copied + 1 /\ copied + 1 <= dev.ilen
    BY <1>13, <2>1, DevType DEF CopyWord, Advance
  <2>4. QED
    BY <1>13, <2>1, <2>2, <2>3 DEF CopyWord, MemoryInv
<1>14. CASE EndCopy
  <2>1. HasInitrd(dev) => copied = dev.ilen
    BY <1>14, DevType DEF EndCopy, CopyDone, HasInitrd, MemoryInv, TypeOK
  <2>2. QED
    BY <1>14, <2>1 DEF EndCopy, MemoryInv
<1>15. CASE Enter
  BY <1>15 DEF Enter, MemoryInv
<1>16. CASE Derail
  BY <1>16 DEF Derail, MemoryInv
<1>17. CASE UNCHANGED vars
  BY <1>17 DEF vars, MemoryInv
<1>18. QED
  BY <1>1, <1>2, <1>3, <1>4, <1>5, <1>6, <1>7, <1>8, <1>9, <1>10, <1>11, <1>12, <1>13, <1>14, <1>15, <1>16, <1>17 DEF Next

(* Control is lost only to the named causes.                               *)
LEMMA LossStep == Inv /\ [Next]_vars => LossInv'
<1> SUFFICES ASSUME Inv, [Next]_vars PROVE LossInv'
  OBVIOUS
<1> USE DEF LossInv, LostOnlyTo, Damage
<1>0. TypeOK /\ LossInv
  BY DEF Inv
<1>1. CASE RejectNull
  BY <1>0, <1>1 DEF RejectNull, Return
<1>2. CASE Unlock
  BY <1>0, <1>2 DEF Unlock
<1>3. CASE Translate
  BY <1>0, <1>3 DEF Translate, Return
<1>4. CASE Mask
  BY <1>0, <1>4 DEF Mask
<1>5. CASE MapIdentity
  BY <1>0, <1>5 DEF MapIdentity
<1>6. CASE CheckMap
  BY <1>0, <1>6 DEF CheckMap
<1>7. CASE MapFailed
  BY <1>0, <1>7 DEF MapFailed, Return
<1>8. CASE Abort
  <2>1. CASE pc = "map" /\ dev.tableReadOnly /\ ~ unlocked
    BY <2>1 DEF Inv, ControlInv, Working
  <2>2. CASE pc = "check" /\ tt[dev.codeP] = Unmapped
    BY <1>0, <1>8, <2>2 DEF Abort
  <2>3. CASE pc = "check" /\ ~ StackMapped
    <3>1. dev.stackV \in Section /\ dev.tt[dev.stackV] = dev.stackP
      BY <1>0, DevType DEF DeviceType, WellPlaced
    <3>2. dev.stackV = dev.codeP
      BY <2>3, <3>1 DEF Inv, TableInv, StackMapped
    <3>3. tt[dev.codeP] = dev.codeP
      BY <2>3, <3>1, <3>2 DEF Inv, TableInv, StackMapped
    <3>4. dev.stackP # dev.codeP
      BY <2>3, <3>2, <3>3 DEF StackMapped
    <3>5. QED
      BY <1>0, <1>8, <3>2, <3>4 DEF Abort
  <2>4. QED
    BY <1>8, <2>1, <2>2, <2>3 DEF Abort
<1>9. CASE Jump
  BY <1>0, <1>9 DEF Jump
<1>10. CASE DisableMmu
  BY <1>0, <1>10 DEF DisableMmu
<1>11. CASE SetupCpu
  BY <1>0, <1>11 DEF SetupCpu
<1>12. CASE SetupAtags
  <2>1. \A a \in Addr : a \notin TagAddrs(dev) => mem'[a] = mem[a]
    BY <1>12 DEF SetupAtags, TagAddrs
  <2>2. QED
    BY <1>0, <1>12, <2>1 DEF SetupAtags
<1>13. CASE CopyWord
  <2>1. copied \in 0 .. dev.ilen - 1
    BY <1>0, <1>13, DevType DEF CopyWord, CopyDone, HasInitrd, TypeOK
  <2>2. InitrdBase(dev) + copied \in Dest(dev)
    BY <1>0, <2>1, DevType, BaseType DEF Dest
  <2>3. \A a \in Addr : a \notin Dest(dev) => mem'[a] = mem[a]
    BY <1>0, <1>13, <2>2 DEF CopyWord, FirstFirst, TypeOK
  <2>4. QED
    BY <1>0, <1>13, <2>3 DEF CopyWord
<1>14. CASE EndCopy
  BY <1>0, <1>14 DEF EndCopy
<1>15. CASE Enter
  BY <1>0, <1>15 DEF Enter, Final
<1>16. CASE Derail
  <2>1. Live(dev) \subseteq Addr
    BY <1>0, DevType DEF Live, DeviceType
  <2>2. QED
    BY <1>0, <1>16, <2>1 DEF Derail, Alive
<1>17. CASE UNCHANGED vars
  BY <1>0, <1>17 DEF vars
<1>18. QED
  BY <1>1, <1>2, <1>3, <1>4, <1>5, <1>6, <1>7, <1>8, <1>9, <1>10, <1>11, <1>12, <1>13, <1>14, <1>15, <1>16, <1>17 DEF Next

(* The invariant is inductive.                                             *)
THEOREM Invariant == Spec => []Inv
<1>1. Init => Inv
  BY InitInv
<1>2. Inv /\ [Next]_vars => Inv'
  BY TypeStep, ControlStep, TableStep, MemoryStep, LossStep DEF Inv
<1>3. QED
  BY <1>1, <1>2, PTL DEF Spec

(* Every variable of the boot keeps its type, for every RAM and device.    *)
THEOREM TypeCorrect == Spec => []TypeOK
<1>1. Inv => TypeOK
  BY DEF Inv
<1>2. QED
  BY <1>1, Invariant, PTL

(* With the MMU on, the next instruction is always fetched from the code   *)
(* of boot_linux, whatever the translation table was.                      *)
THEOREM AlwaysFetchMapped == Spec => []FetchMapped
<1>1. Inv => FetchMapped
  <2> SUFFICES ASSUME Inv PROVE FetchMapped
    OBVIOUS
  <2>1. dev \in DeviceType /\ WellPlaced(dev) /\ space \in {"virt", "phys"}
    BY DEF Inv, TypeOK
  <2>2. dev.codeV \in Section /\ dev.tt[dev.codeV] = dev.codeP
    BY <2>1 DEF DeviceType, WellPlaced
  <2>3. tt[dev.codeV] = dev.codeP
    BY <2>2 DEF Inv, TableInv
  <2>4. space = "phys" => tt[dev.codeP] = dev.codeP
    BY DEF Inv, TableInv
  <2>5. QED
    BY <2>1, <2>3, <2>4 DEF FetchMapped
<1>2. QED
  BY <1>1, Invariant, PTL

(* No interrupt can reach Palm OS between the first change of the table    *)
(* and the kernel or the return.                                           *)
THEOREM AlwaysMasked == Spec => []InterruptsMasked
<1>1. Inv => InterruptsMasked
  BY DEF Inv, ControlInv, InterruptsMasked, Working
<1>2. QED
  BY <1>1, Invariant, PTL

(* Every error return leaves Palm OS able to continue.                     *)
THEOREM ReturnIsSafe == Spec => []ReturnRestores
<1>1. Inv => ReturnRestores
  <2> SUFFICES ASSUME Inv, pc = "returned" PROVE ReturnRestores
    BY DEF ReturnRestores
  <2>1. irq /\ mmu /\ space = "virt" /\ ~ xscale
    BY DEF Inv, ControlInv, Virtual
  <2>2. \A a \in Addr : mem[a] = a
    BY DEF Inv, MemoryInv, Untouched, Virtual
  <2>3. ret # "c01d" => tt = dev.tt
    BY DEF Inv, TableInv
  <2>4. QED
    BY <2>1, <2>2, <2>3 DEF ReturnRestores
<1>2. QED
  BY <1>1, Invariant, PTL

(* The invariant says enough of memory: what Linux was promised is there.  *)
LEMMA SafeIsIntact ==
  ASSUME Inv, Handover, Safe(dev)
  PROVE  Intact
<1>1. dev \in DeviceType /\ WellPlaced(dev)
  BY DEF Inv, TypeOK
<1>2. dev.ilen \in Nat /\ dev.initrd \in Nat /\ InitrdBase(dev) \in Nat
  BY <1>1, BaseType DEF DeviceType, Addr
<1>3. mem = Expected(dev, dev.ilen)
  <2>1. mem = Expected(dev, copied)
    BY DEF Inv, MemoryInv, Handover
  <2>2. copied = dev.ilen
    BY <1>2 DEF Inv, MemoryInv, Handover, HasInitrd
  <2>3. QED
    BY <2>1, <2>2
<1>4. \A a \in KernelWords(dev) : mem[a] = a
  <2>1. Dest(dev) = InitrdBase(dev) .. InitrdBase(dev) + dev.ilen - 1
    BY DEF Dest
  <2>2. \A a \in KernelWords(dev) : a \in Addr /\ a \notin TagAddrs(dev) /\ a \notin Dest(dev)
    BY <1>1 DEF WellPlaced, Safe, TagsSafe, CopySafe
  <2>3. QED
    BY <1>3, <2>1, <2>2 DEF Expected
<1>5. \A j \in 0 .. TagWords(dev) - 1 :
        mem[TagBase + j] = IF dev.hasCmd /\ j = TextAt THEN dev.cmd ELSE Mark(j)
  <2> SUFFICES ASSUME NEW j \in 0 .. TagWords(dev) - 1
               PROVE  mem[TagBase + j] = IF dev.hasCmd /\ j = TextAt THEN dev.cmd ELSE Mark(j)
    OBVIOUS
  <2>1. TagWords(dev) \in Nat /\ TagBase \in Nat
    BY <1>1, BaseType, ConstantsAssumption
  <2>2. TagBase + j \in TagAddrs(dev) /\ (TagBase + j) - TagBase = j
    BY <2>1 DEF TagAddrs
  <2>3. TagBase + j \in Addr
    BY <1>1, <2>2, BaseType
  <2>4. QED
    BY <1>3, <2>2, <2>3 DEF Expected
<1>6. \A k \in 0 .. dev.ilen - 1 :
        InitrdBase(dev) + k \in Addr /\ mem[InitrdBase(dev) + k] = dev.initrd + k
  <2> SUFFICES ASSUME NEW k \in 0 .. dev.ilen - 1
               PROVE  InitrdBase(dev) + k \in Addr /\ mem[InitrdBase(dev) + k] = dev.initrd + k
    OBVIOUS
  <2>1. InitrdBase(dev) + k \in InitrdBase(dev) .. InitrdBase(dev) + dev.ilen - 1
        /\ (InitrdBase(dev) + k) - InitrdBase(dev) = k
    BY <1>2
  <2>2. InitrdBase(dev) + k \in Addr /\ InitrdBase(dev) + k \notin TagAddrs(dev)
    BY <1>1, SourceIntact
  <2>3. QED
    BY <1>3, <2>1, <2>2 DEF Expected
<1>7. told = IF dev.ilen > 0 THEN InitrdBase(dev) ELSE -1
  BY DEF Inv, MemoryInv, Handover
<1>8. line = IF dev.hasCmd THEN TagBase + TextAt ELSE -1
  BY <1>1, TextWhenSafe DEF Inv, MemoryInv, Handover, Safe
<1>9. QED
  BY <1>4, <1>5, <1>6, <1>7, <1>8 DEF Intact

(* In every safe layout, of any size, Linux is entered with its kernel,    *)
(* its tagged list and its initrd whole.                                   *)
THEOREM HandoverIsSafe == Spec => []SafeHandover
<1>1. Inv => SafeHandover
  BY SafeIsIntact DEF SafeHandover
<1>2. QED
  BY <1>1, Invariant, PTL

(* Control is lost only to a mapping the MMU does not see, a stack in the  *)
(* remapped section or a layout that overwrites the running code.          *)
THEOREM LossIsNamed == Spec => []LostOnlyTo
<1>1. Inv => LostOnlyTo
  BY DEF Inv, LossInv
<1>2. QED
  BY <1>1, Invariant, PTL

----------------------------------------------------------------------------
(* The boot as one handover.                                               *)

(* An unsafe layout is the only way to lose a machine past the jump.       *)
LEMMA AliveWhenSafe == Inv /\ Safe(dev) => Alive
<1> SUFFICES ASSUME Inv, Safe(dev), NEW a \in Live(dev) PROVE mem[a] = a
  BY DEF Alive
<1>1. dev \in DeviceType
  BY DEF Inv, TypeOK
<1>2. a \in Addr
  BY <1>1 DEF Live, DeviceType
<1>3. a \notin TagAddrs(dev) \cup Dest(dev)
  BY DEF Safe, TagsSafe, CopySafe
<1>4. QED
  BY <1>2, <1>3 DEF Inv, LossInv, Damage

(* A kernel entered in a safe layout is handed exactly what was passed.    *)
LEMMA ReceivedWhenSafe ==
  Inv /\ pc \in {"linux", "elf"} /\ Clear => Received = {Passed}
<1> SUFFICES ASSUME Inv, pc \in {"linux", "elf"}, Clear PROVE Received = {Passed}
  OBVIOUS
<1>1. dev \in DeviceType /\ WellPlaced(dev) /\ dev.ilen \in Nat /\ dev.klen \in Nat
  BY DEF Inv, TypeOK, DeviceType
<1>2. Intact
  BY SafeIsIntact DEF Clear, Handover
<1>3. [k \in 0 .. dev.klen - 1 |-> Found(dev.kernel + k)]
        = [k \in 0 .. dev.klen - 1 |-> dev.kernel + k]
  <2> SUFFICES ASSUME NEW k \in 0 .. dev.klen - 1
               PROVE  Found(dev.kernel + k) = dev.kernel + k
    OBVIOUS
  <2>1. dev.kernel \in Int
    BY <1>1 DEF DeviceType, Addr
  <2>2. dev.kernel + k \in KernelWords(dev)
    BY <1>1, <2>1 DEF KernelWords
  <2>3. QED
    BY <1>1, <1>2, <2>2 DEF Intact, Found, WellPlaced
<1>4. [k \in 0 .. dev.ilen - 1 |-> Found(told + k)]
        = [k \in 0 .. dev.ilen - 1 |-> dev.initrd + k]
  <2> SUFFICES ASSUME NEW k \in 0 .. dev.ilen - 1
               PROVE  Found(told + k) = dev.initrd + k
    OBVIOUS
  <2>1. told = InitrdBase(dev)
    BY <1>1, <1>2 DEF Intact
  <2>2. InitrdBase(dev) + k \in Addr /\ mem[InitrdBase(dev) + k] = dev.initrd + k
    BY <1>2 DEF Intact
  <2>3. QED
    BY <2>1, <2>2 DEF Found
<1>5. (line # -1 <=> dev.hasCmd) /\ (dev.hasCmd => Found(line) = dev.cmd)
  <2>0. TextAt \in Nat /\ TagBase \in Nat /\ dev.hasCmd \in BOOLEAN
    BY <1>1, BaseType, ConstantsAssumption DEF DeviceType
  <2>5. line = IF dev.hasCmd THEN TagBase + TextAt ELSE -1
    BY <1>2 DEF Intact
  <2> SUFFICES ASSUME dev.hasCmd PROVE Found(TagBase + TextAt) = dev.cmd
    BY <2>0, <2>5
  <2>1. TextAt \in 0 .. TagWords(dev) - 1 /\ TagBase + TextAt \in TagAddrs(dev)
    BY <1>1, BaseType, ConstantsAssumption, TextWhenSafe DEF TagAddrs, Clear, Safe
  <2>2. TagBase + TextAt \in Addr
    BY <1>1, <2>1, BaseType
  <2>3. QED
    BY <1>2, <2>1, <2>2 DEF Intact, Found
<1>6. QED
  BY <1>3, <1>4, <1>5 DEF Received, Passed

(* Each step of boot_linux is a step of the handover or invisible to it.   *)
LEMMA HandoverStep ==
  Inv /\ Inv' /\ [Next]_vars => [Abstract!Next]_Abstract!vars
<1> SUFFICES ASSUME Inv, Inv', [Next]_vars PROVE [Abstract!Next]_Abstract!vars
  OBVIOUS
<1>1. dev' = dev
  BY DEF Next, vars, RejectNull, Unlock, Translate, Mask, MapIdentity, CheckMap, MapFailed,
     Abort, Jump, DisableMmu, SetupCpu, SetupAtags, CopyWord, EndCopy, Enter, Derail
<1>2. Passed' = Passed /\ Clear' = Clear
  BY <1>1 DEF Passed, Clear, Safe, TagsSafe, CopySafe, TagAddrs, Dest, InitrdBase, TagWords,
     CmdWords, SeesText, KernelWords, InitrdWords, Live
<1>3. pc \in Working /\ pc' \notin {"linux", "elf"} => Received' = Received
  BY DEF Received, Working
<1>4. ControlInv /\ ControlInv'
  BY DEF Inv
<1> DEFINE Hidden == Owner' = Owner /\ Received' = Received
<1>5. Hidden => [Abstract!Next]_Abstract!vars
  BY <1>2 DEF Abstract!vars
<1> USE DEF Virtual, Working, Final
<1>6. CASE RejectNull
  BY <1>3, <1>4, <1>5, <1>6 DEF RejectNull, Return, Owner, ControlInv
<1>7. CASE Unlock
  BY <1>3, <1>4, <1>5, <1>7 DEF Unlock, Owner, ControlInv
<1>8. CASE Translate
  BY <1>3, <1>4, <1>5, <1>8 DEF Translate, Return, Owner, ControlInv
<1>9. CASE Mask
  <2>1. Owner = "palm" /\ Owner' = "boot" /\ Received' = Received
    BY <1>3, <1>4, <1>9 DEF Mask, Owner, ControlInv
  <2>2. QED
    BY <1>2, <2>1 DEF Abstract!Next, Abstract!Suspend
<1>10. CASE MapIdentity
  BY <1>3, <1>4, <1>5, <1>10 DEF MapIdentity, Owner, ControlInv
<1>11. CASE CheckMap
  BY <1>3, <1>4, <1>5, <1>11 DEF CheckMap, Owner, ControlInv
<1>12. CASE MapFailed
  <2>1. Owner = "boot" /\ Owner' = "palm" /\ Received' = Received
    BY <1>3, <1>4, <1>12 DEF MapFailed, IrqOn, Return, Owner, ControlInv
  <2>2. QED
    BY <1>2, <2>1 DEF Abstract!Next, Abstract!GiveBack
<1>13. CASE Abort
  <2>1. Owner = "boot" /\ Owner' = "lost" /\ Received' = Received
    BY <1>3, <1>4, <1>13 DEF Abort, Owner, ControlInv
  <2>2. QED
    BY <1>2, <2>1 DEF Abstract!Next, Abstract!Lose
<1>14. CASE Jump
  <2>1. Owner = "boot" /\ Owner' = "nobody" /\ Received' = Received
    BY <1>3, <1>4, <1>14 DEF Jump, Owner, ControlInv
  <2>2. QED
    BY <1>2, <2>1 DEF Abstract!Next, Abstract!Commit
<1>15. CASE DisableMmu
  BY <1>3, <1>4, <1>5, <1>15 DEF DisableMmu, Owner, ControlInv
<1>16. CASE SetupCpu
  BY <1>3, <1>4, <1>5, <1>16 DEF SetupCpu, Owner, ControlInv
<1>17. CASE SetupAtags
  BY <1>3, <1>4, <1>5, <1>17 DEF SetupAtags, Owner, ControlInv
<1>18. CASE CopyWord
  BY <1>3, <1>4, <1>5, <1>18 DEF CopyWord, Owner, ControlInv
<1>19. CASE EndCopy
  BY <1>3, <1>4, <1>5, <1>19 DEF EndCopy, Owner, ControlInv
<1>20. CASE Enter
  <2>1. Owner = "nobody" /\ Owner' = "linux"
    BY <1>4, <1>20 DEF Enter, Owner, ControlInv
  <2>2. Clear => Received' = {Passed}
    <3>1. pc' \in {"linux", "elf"}
      BY <1>20 DEF Enter
    <3>2. (Inv /\ pc \in {"linux", "elf"} /\ Clear => Received = {Passed})'
      BY ReceivedWhenSafe, PTL
    <3>3. QED
      BY <1>2, <3>1, <3>2
  <2>3. QED
    BY <1>2, <2>1, <2>2 DEF Abstract!Next, Abstract!HandOver
<1>21. CASE Derail
  <2>1. Owner = "nobody" /\ Owner' = "lost" /\ Received' = Received
    BY <1>3, <1>4, <1>21 DEF Derail, Owner, ControlInv
  <2>2. ~ Clear
    BY <1>21, AliveWhenSafe DEF Derail, Clear
  <2>3. QED
    BY <1>2, <2>1, <2>2 DEF Abstract!Next, Abstract!Lose
<1>22. CASE UNCHANGED vars
  BY <1>5, <1>22 DEF vars, Owner, Received, Found
<1>23. QED
  BY <1>6, <1>7, <1>8, <1>9, <1>10, <1>11, <1>12, <1>13, <1>14, <1>15, <1>16, <1>17,
     <1>18, <1>19, <1>20, <1>21, <1>22 DEF Next

(* The whole of boot_linux, for every RAM size, layout and table, is one   *)
(* handover of the machine: refused, completed with everything that was    *)
(* passed, or lost for one of the reasons AtomicBoot allows.               *)
THEOREM BootIsAtomic == Spec => ImplementsAtomicBoot
<1>1. Init => Abstract!Init
  BY DEF Init, Abstract!Init, Owner, Received, Clear, Safe, TagsSafe, CopySafe
<1>2. QED
  BY <1>1, Invariant, HandoverStep, PTL DEF Spec, ImplementsAtomicBoot, Abstract!Spec

----------------------------------------------------------------------------
(* Only a safe layout is handed over whole.                                *)

(* RAM when the tagged list has just been written, in any layout.          *)
Tagged(d) ==
  [ a \in Addr |-> IF a \in TagAddrs(d) THEN TagWord(d, [b \in Addr |-> b], a - TagBase) ELSE a ]

(* Behind the copy loop lies what it read: a word it had already written   *)
(* itself, or one as the tagged list left it.  Elsewhere nothing changed.  *)
CopiedTo(d, m, n) ==
  /\ \A a \in Addr : a \notin InitrdBase(d) .. InitrdBase(d) + n - 1 => m[a] = Tagged(d)[a]
  /\ \A k \in 0 .. n - 1 : InitrdBase(d) + k \in Addr =>
       m[InitrdBase(d) + k] =
         IF d.initrd + k \in InitrdBase(d) .. InitrdBase(d) + k - 1
           THEN m[d.initrd + k] ELSE Tagged(d)[d.initrd + k]

CopyInv ==
  /\ pc \in {"copy", "enter", "linux", "elf"} => CopiedTo(dev, mem, copied)
  /\ pc \in {"linux", "elf"} => Alive

LEMMA CopyInit == Init => CopyInv
BY DEF Init, CopyInv

LEMMA CopyStep == Inv /\ CopyInv /\ [Next]_vars => CopyInv'
<1> SUFFICES ASSUME Inv, CopyInv, [Next]_vars PROVE CopyInv'
  OBVIOUS
<1>0. /\ TypeOK /\ dev \in DeviceType /\ WellPlaced(dev) /\ dev.initrd \in Nat /\ dev.ilen \in Nat
      /\ InitrdBase(dev) \in Nat /\ mem \in [Addr -> Int] /\ copied \in Nat /\ MemoryInv
  <2>1. TypeOK /\ MemoryInv /\ mem \in [Addr -> Int] /\ copied \in Nat
    BY DEF Inv, TypeOK
  <2>2. dev \in DeviceType /\ WellPlaced(dev)
    BY <2>1, DevType
  <2>3. dev.initrd \in Nat /\ dev.ilen \in Nat
    BY <2>2 DEF DeviceType, Addr
  <2> QED
    BY <2>1, <2>2, <2>3, BaseType
<1>1. CASE RejectNull \/ Unlock \/ Translate \/ Mask \/ MapIdentity \/ CheckMap \/ MapFailed
           \/ Abort \/ Jump \/ DisableMmu \/ SetupCpu \/ Derail
  <2>1. pc' \notin {"copy", "enter", "linux", "elf"}
    BY <1>1 DEF RejectNull, Return, Unlock, Translate, Mask, MapIdentity, CheckMap, MapFailed,
       Abort, Jump, DisableMmu, SetupCpu, Derail
  <2> QED
    BY <2>1 DEF CopyInv
<1>2. CASE SetupAtags
  <2>1. mem = [a \in Addr |-> a] /\ copied = 0
    BY <1>0, <1>2 DEF SetupAtags, MemoryInv, Untouched
  <2>2. mem' = Tagged(dev)
    <3>1. \A a \in Addr : mem[a] = a
      BY <2>1
    <3> QED
      BY <1>2, <2>1, <3>1 DEF SetupAtags, Tagged, TagAddrs
  <2>3. pc' = "copy" /\ dev' = dev /\ copied' = 0 /\ 0 .. 0 - 1 = {}
    BY <1>2, <2>1 DEF SetupAtags
  <2> QED
    BY <2>2, <2>3 DEF CopyInv, CopiedTo
<1>3. CASE CopyWord
  <2> DEFINE B == InitrdBase(dev)
             T == Tagged(dev)
             n == copied
  <2>1. n \in 0 .. dev.ilen - 1 /\ n \in Nat
    BY <1>0, <1>3, DevType DEF CopyWord, CopyDone, HasInitrd, TypeOK
  <2>2. /\ pc = "copy" /\ pc' = "copy" /\ dev' = dev /\ copied' = n + 1
        /\ mem' = [mem EXCEPT ![B + n] = mem[dev.initrd + n]]
    BY <1>3 DEF CopyWord, Advance, FirstFirst
  <2>3. /\ \A a \in Addr : a \notin B .. B + n - 1 => mem[a] = T[a]
        /\ \A k \in 0 .. n - 1 : B + k \in Addr =>
             mem[B + k] = IF dev.initrd + k \in B .. B + k - 1 THEN mem[dev.initrd + k]
                          ELSE T[dev.initrd + k]
    BY <2>2 DEF CopyInv, CopiedTo
  <2>4. \A a \in Addr : a \in Int
    BY DEF Addr
  <2>5. \A k \in 0 .. n : dev.initrd + k \in Addr
    <3> TAKE k \in 0 .. n
    <3>1. k \in 0 .. dev.ilen - 1
      BY <1>0, <2>1
    <3> QED
      BY <1>0, <3>1, InitrdInRam
  <2>6. B \in Nat
    BY <1>0
  <2> HIDE DEF B, T, n
  <2>7. \A a \in Addr : mem'[a] = IF a = B + n THEN mem[dev.initrd + n] ELSE mem[a]
    BY <1>0, <2>2
  <2>8. ASSUME NEW a \in Addr, a \notin B .. B + (n + 1) - 1
        PROVE  mem'[a] = T[a]
    <3>1. a # B + n /\ a \notin B .. B + n - 1
      BY <2>1, <2>4, <2>6, <2>8
    <3> QED
      BY <2>3, <2>7, <3>1
  <2>9. ASSUME NEW k \in 0 .. n, B + k \in Addr
        PROVE  mem'[B + k] = IF dev.initrd + k \in B .. B + k - 1 THEN mem'[dev.initrd + k]
                             ELSE T[dev.initrd + k]
    <3> DEFINE s == dev.initrd + k
    <3>1. s \in Addr /\ s \in Int /\ (s \in B .. B + k - 1 => s # B + n)
      BY <2>1, <2>4, <2>5, <2>6
    <3>2. s \in B .. B + k - 1 => mem'[s] = mem[s]
      BY <2>7, <3>1
    <3>3. CASE k = n
      <4>1. mem'[B + k] = mem[s]
        BY <2>7, <2>9, <3>3
      <4> QED
        BY <2>3, <3>1, <3>2, <3>3, <4>1
    <3>4. CASE k # n
      <4>1. k \in 0 .. n - 1 /\ B + k # B + n
        BY <2>1, <2>6, <3>4
      <4>2. mem'[B + k] = mem[B + k]
        BY <2>7, <2>9, <4>1
      <4>3. mem[B + k] = IF s \in B .. B + k - 1 THEN mem[s] ELSE T[s]
        BY <2>3, <2>9, <4>1
      <4> QED
        BY <3>2, <4>2, <4>3
    <3> QED
      BY <3>3, <3>4
  <2>10. B + (n + 1) - 1 = B + n /\ (n + 1) - 1 = n
    BY <2>1, <2>6
  <2>11. CopiedTo(dev, mem', n + 1)
    BY <2>8, <2>9, <2>10 DEF CopiedTo, B, T
  <2> QED
    BY <2>2, <2>11 DEF CopyInv
<1>4. CASE EndCopy \/ UNCHANGED vars
  <2>1. UNCHANGED <<dev, mem, copied>> /\ (pc' = pc \/ (pc = "copy" /\ pc' = "enter"))
    BY <1>4 DEF EndCopy, vars
  <2> QED
    BY <2>1 DEF CopyInv, Alive
<1>5. CASE Enter
  <2>1. UNCHANGED <<dev, mem, copied>> /\ pc = "enter" /\ Alive
    BY <1>5 DEF Enter
  <2> QED
    BY <2>1 DEF CopyInv, Alive
<1> QED
  BY <1>1, <1>2, <1>3, <1>4, <1>5 DEF Next

(* What a tagged list holds where Linux finds it as promised: never the    *)
(* address of a word of an image or of the running code.                   *)
LEMMA TagsAreNoImage ==
  ASSUME TypeOK, Intact, NEW a \in TagAddrs(dev)
  PROVE  /\ a \in Addr /\ mem[a] \notin KernelWords(dev) \cup InitrdWords(dev) \cup Live(dev)
         /\ mem[a] = IF dev.hasCmd /\ a = TagBase + TextAt THEN dev.cmd ELSE Mark(a - TagBase)
<1>1. /\ dev \in DeviceType /\ WellPlaced(dev) /\ TagWords(dev) \in Nat /\ TextAt \in Nat
      /\ TagAddrs(dev) \subseteq Addr /\ TagBase \in Nat
  BY DevType, BaseType, ConstantsAssumption
<1> DEFINE j == a - TagBase
<1>2. a \in Int /\ j \in 0 .. TagWords(dev) - 1 /\ TagBase + j = a /\ (a = TagBase + TextAt <=> j = TextAt)
  BY <1>1 DEF TagAddrs
<1>3. mem[TagBase + j] = IF dev.hasCmd /\ j = TextAt THEN dev.cmd ELSE Mark(j)
  BY <1>2 DEF Intact
<1>4. mem[a] = IF dev.hasCmd /\ a = TagBase + TextAt THEN dev.cmd ELSE Mark(j)
  BY <1>2, <1>3
<1>5. Mark(j) \in Int /\ Mark(j) < 0
  BY <1>2 DEF Mark
<1>6. \A b \in KernelWords(dev) \cup InitrdWords(dev) \cup Live(dev) : b >= 0
  BY <1>1 DEF WellPlaced, Live, DeviceType, Addr
<1>7. dev.hasCmd => dev.cmd \notin KernelWords(dev) \cup InitrdWords(dev) \cup Live(dev)
  BY <1>1 DEF WellPlaced
<1> HIDE DEF j
<1>8. mem[a] \notin KernelWords(dev) \cup InitrdWords(dev) \cup Live(dev)
  BY <1>4, <1>5, <1>6, <1>7
<1> QED
  BY <1>1, <1>4, <1>8 DEF j

(* A layout that hands over everything is safe.  A tagged list over the    *)
(* initrd would have been copied with it, one over the command line would  *)
(* hold no text, and a destination that begins inside the initrd would     *)
(* repeat its first words.                                                 *)
LEMMA IntactIsSafe ==
  ASSUME Inv, CopyInv, Handover, Intact
  PROVE  Safe(dev)
<1> DEFINE B == InitrdBase(dev)
           L == dev.ilen
           S == dev.initrd
<1>1. TypeOK /\ dev \in DeviceType /\ WellPlaced(dev) /\ B \in Nat /\ L \in Nat /\ S \in Nat
  <2>1. TypeOK
    BY DEF Inv
  <2>2. dev \in DeviceType /\ WellPlaced(dev)
    BY <2>1, DevType
  <2>3. S \in Nat /\ L \in Nat
    BY <2>2 DEF DeviceType, Addr
  <2> QED
    BY <2>1, <2>2, <2>3, BaseType
<1>2. copied = L /\ CopiedTo(dev, mem, L)
  BY <1>1 DEF CopyInv, Handover, Inv, MemoryInv, HasInitrd
<1>3. \A k \in 0 .. L - 1 :
        B + k \in Addr /\ mem[B + k] = S + k /\ S + k \in Addr /\ S + k \in InitrdWords(dev)
  BY <1>1, InitrdInRam DEF Intact
<1>4. \A a \in Dest(dev) : a \in Addr /\ mem[a] \in InitrdWords(dev)
  <2> TAKE a \in Dest(dev)
  <2> DEFINE k == a - B
  <2>1. k \in 0 .. L - 1 /\ B + k = a
    BY <1>1 DEF Dest
  <2> HIDE DEF k, B, L, S
  <2> QED
    BY <1>3, <2>1
<1>5. Dest(dev) \cap TagAddrs(dev) = {}
  BY <1>1, <1>4, TagsAreNoImage
<1>0. SeesText(dev) <=> dev.hasCmd
  <2>1. dev.hasCmd \in BOOLEAN /\ TextAt \in Nat /\ TagBase \in Nat
    BY <1>1, BaseType, ConstantsAssumption DEF DeviceType
  <2>2. line = IF SeesText(dev) THEN TagBase + TextAt ELSE -1
    BY DEF Inv, MemoryInv, Handover
  <2>3. line = IF dev.hasCmd THEN TagBase + TextAt ELSE -1
    BY DEF Intact
  <2> QED
    BY <2>1, <2>2, <2>3
<1>6. \A a \in TagAddrs(dev) : mem[a] = TagWord(dev, [b \in Addr |-> b], a - TagBase)
  <2> TAKE a \in TagAddrs(dev)
  <2>1. a \in Addr /\ a \notin B .. B + L - 1
    BY <1>1, <1>5, TagsAreNoImage DEF Dest
  <2>2. mem[a] = Tagged(dev)[a]
    BY <1>2, <2>1 DEF CopiedTo
  <2> QED
    BY <2>1, <2>2 DEF Tagged
<1>7. \A a \in Live(dev) : a \in Addr /\ mem[a] = a
  BY <1>1 DEF CopyInv, Handover, Alive, Live, DeviceType
<1>8. \A a \in KernelWords(dev) : mem[a] = a
  BY DEF Intact
<1>9. TagAddrs(dev) \cap (KernelWords(dev) \cup Live(dev)) = {}
  BY <1>1, <1>7, <1>8, TagsAreNoImage
<1>10. TagAddrs(dev) \cap InitrdWords(dev) = {}
  <2> SUFFICES ASSUME NEW a \in TagAddrs(dev), a \in InitrdWords(dev) PROVE FALSE
    OBVIOUS
  <2> DEFINE k == a - S
  <2>1. k \in 0 .. L - 1 /\ S + k = a
    BY <1>1 DEF InitrdWords
  <2> HIDE DEF k
  <2>2. a \in Addr /\ a \notin Dest(dev) /\ mem[a] \notin InitrdWords(dev)
    BY <1>1, <1>5, TagsAreNoImage
  <2>3. a \notin B .. B + k - 1 /\ a \notin B .. B + L - 1
    BY <1>1, <2>1, <2>2 DEF Dest
  <2>4. mem[B + k] = Tagged(dev)[a] /\ mem[a] = Tagged(dev)[a]
    BY <1>2, <1>3, <2>1, <2>2, <2>3 DEF CopiedTo
  <2>5. mem[B + k] \in InitrdWords(dev)
    BY <1>3, <2>1
  <2> QED
    BY <2>2, <2>4, <2>5
<1>11. dev.hasCmd => dev.cmd \notin TagBase .. TagBase + TextAt - 1
  <2> SUFFICES ASSUME dev.hasCmd, dev.cmd \in TagBase .. TagBase + TextAt - 1 PROVE FALSE
    OBVIOUS
  <2>1. TextAt \in Nat /\ TagBase \in Nat /\ TagBase + TextAt \in TagAddrs(dev)
    BY <1>0, <1>1, BaseType, ConstantsAssumption DEF TagAddrs
  <2>2. mem[TagBase + TextAt] = dev.cmd
    BY <1>1, <2>1, TagsAreNoImage
  <2>3. (TagBase + TextAt) - TagBase = TextAt
    BY <2>1
  <2>4. mem[TagBase + TextAt] = Mark(dev.cmd - TagBase)
    BY <1>0, <1>6, <2>1, <2>3 DEF TagWord
  <2>5. Mark(dev.cmd - TagBase) < 0 /\ dev.cmd >= 0
    BY <2>1 DEF Mark
  <2> QED
    BY <2>2, <2>4, <2>5
<1>12. Dest(dev) \cap (KernelWords(dev) \cup Live(dev)) = {}
  BY <1>1, <1>4, <1>7, <1>8 DEF WellPlaced
<1>13. B <= S \/ Dest(dev) \cap InitrdWords(dev) = {}
  <2> SUFFICES ASSUME S < B, NEW a \in Dest(dev), a \in InitrdWords(dev) PROVE FALSE
    BY <1>1
  <2> DEFINE k == B - S
  <2>1. k \in 1 .. L - 1 /\ 0 \in 0 .. L - 1 /\ k \in 0 .. L - 1 /\ S + k = B /\ B \in B .. B + k - 1
    BY <1>1 DEF Dest, InitrdWords
  <2>2. B + 0 = B /\ S + 0 = S /\ S # S + k
    BY <1>1, <2>1
  <2> HIDE DEF k, B, L, S
  <2>3. mem[B] = S /\ mem[B + k] = S + k /\ B + k \in Addr
    BY <1>3, <2>1, <2>2
  <2>4. mem[B + k] = mem[B]
    BY <1>2, <2>1, <2>3 DEF CopiedTo, B, S
  <2> QED
    BY <2>2, <2>3, <2>4
<1>14. TagsSafe(dev)
  BY <1>0, <1>9, <1>10, <1>11 DEF TagsSafe
<1>15. CopySafe(dev)
  BY <1>4, <1>5, <1>12, <1>13 DEF CopySafe
<1> QED
  BY <1>14, <1>15 DEF Safe

(* The conditions of Safe are as weak as they can be, for every size and   *)
(* every place of the images: a kernel entered with all it was promised    *)
(* was entered in a safe layout.                                           *)
THEOREM HandoverNeedsSafety == Spec => []OnlySafeHandover
<1>1. Inv /\ CopyInv => OnlySafeHandover
  BY IntactIsSafe DEF OnlySafeHandover
<1>2. Inv /\ CopyInv /\ Inv' /\ [Next]_vars => CopyInv'
  BY CopyStep
<1> QED
  BY Invariant, CopyInit, <1>1, <1>2, PTL DEF Spec
=============================================================================
